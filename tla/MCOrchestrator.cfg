\* Three batches, two retries, two stages.
SPECIFICATION FairSpec
CONSTANTS
    Batch = {b1, b2, b3}
    NoBatch = NoBatch
    MaxRetries = 2
    NumStages = 2
    ChannelCap = 2
INVARIANTS
    TypeOK
    NoBatchLost
    RetryFindsBatch
    NoResidue
PROPERTIES
    ImplementsLifecycle
    EveryBatchSettles
    StopsWhenCancelled
\* The manager's shutdown ends both goroutines.
CHECK_DEADLOCK FALSE

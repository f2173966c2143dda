\* Two resources, two callers; one batch fits into batchReadyCh.
SPECIFICATION FairSpec
CONSTANTS
    Key = {k1, k2}
    Caller = {c1, c2}
    MaxBatchSize = 2
    TimeCap = 2
    TriggerCap = 4
    ReadyCap = 1
    MaxGen = 1
    MaxAdds = 3
PROPERTY
    RetriedOnNextTick
\* Calls of AddEvent are bounded and the context may end.
CHECK_DEADLOCK FALSE

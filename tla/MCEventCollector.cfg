\* Two resources, two callers; one batch fits into batchReadyCh, and
\* batchTriggerCh holds fewer triggers than three events can send.
SPECIFICATION FairSpec
CONSTANTS
    Key = {k1, k2}
    Caller = {c1, c2}
    MaxBatchSize = 2
    TimeCap = 1
    TriggerCap = 2
    ReadyCap = 1
    MaxGen = 2
    MaxAdds = 3
INVARIANTS
    TypeOK
    NoEventLost
    NoWakeupLost
PROPERTIES
    EventsDelivered
    AddEventReturns
\* Calls of AddEvent are bounded and the context may end.
CHECK_DEADLOCK FALSE

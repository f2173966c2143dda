\* Two changes of each kind, a timeChan that one timestamp fills.
SPECIFICATION FairSpec
CONSTANTS
    TimeCap = 1
    MaxVersion = 3
    MaxFaults = 1
INVARIANTS
    TypeOK
    ReadyMeansBuilt
    PendingCoversChange
PROPERTIES
    FollowerCatchesUp
    StandsDown

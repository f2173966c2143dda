\* One WSA that is created and never changed; no failures.
SPECIFICATION FairSpec
CONSTANTS
    s1 = s1
    s2 = s2
    p1 = p1
    p2 = p2
    w1 = w1
    w2 = w2
    Name = {w1}
    ClusterName = {}
    SpecChoice <- BothDiffer
    Resynced = {w1}
    Foreign = {}
    MaxRetries = 1
    MaxChanges = 1
    MaxDrifts = 0
    MaxClaims = 0
    MaxFaults = 0
    MaxCrashes = 0
PROPERTY
    WatchedResourcesReconciled
\* Users may stop writing: the controller is then at rest.
CHECK_DEADLOCK FALSE

\* One WSA; one failure makes both goroutines busy.
SPECIFICATION Spec
CONSTANTS
    s1 = s1
    s2 = s2
    p1 = p1
    p2 = p2
    w1 = w1
    w2 = w2
    Name = {w1}
    ClusterName = {}
    SpecChoice <- BothDiffer
    Resynced = {}
    Foreign = {}
    MaxRetries = 1
    MaxChanges = 2
    MaxDrifts = 0
    MaxClaims = 0
    MaxFaults = 1
    MaxCrashes = 0
PROPERTY
    PublishedAccountsExist
\* Users may stop writing: the controller is then at rest.
CHECK_DEADLOCK FALSE

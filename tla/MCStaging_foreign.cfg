\* One WSA whose two specs need an account each: the second is somebody else's from
\* the start, the first may be claimed at any time.  A failure makes both goroutines
\* busy.
SPECIFICATION Spec
CONSTANTS
    s1 = s1
    s2 = s2
    p1 = p1
    p2 = p2
    w1 = w1
    w2 = w2
    Name = {w1}
    ClusterName = {}
    SpecChoice <- SharedRules
    Resynced = {}
    Foreign = {s2}
    MaxRetries = 1
    MaxChanges = 3
    MaxDrifts = 1
    MaxClaims = 1
    MaxFaults = 1
    MaxCrashes = 0
INVARIANT
    Converges
PROPERTY
    KnownAccountsUntouched
\* Users may stop writing: the controller is then at rest.
CHECK_DEADLOCK FALSE

\* Two of two WSAs and a CWSA; specs that differ in account and rules; a batch is
\* given up when it fails.  Three changes, of users or of others to managed objects,
\* and one failing call or restart.
SPECIFICATION Spec
CONSTANTS
    s1 = s1
    s2 = s2
    p1 = p1
    p2 = p2
    w1 = w1
    w2 = w2
    Name = {w1, w2, c1}
    ClusterName = {c1}
    SpecChoice <- BothDiffer
    Resynced = {}
    Foreign = {}
    MaxRetries = 0
    MaxChanges = 3
    MaxDrifts = 1
    MaxClaims = 0
    MaxFaults = 1
    MaxCrashes = 1
INVARIANTS
    Converges
    ReportedReady
PROPERTY
    PublishedAccountsExistAlone
\* Users may stop writing: the controller is then at rest.
CHECK_DEADLOCK FALSE
CONSTRAINT TwoNamesOneFault
SYMMETRY Symmetric

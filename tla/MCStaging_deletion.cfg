\* Deletions of w1 while its batches fail: by an account name in conflict, its own
\* or that of w2, by a failing call, or by a restart.
SPECIFICATION FairSpec
CONSTANTS
    s1 = s1
    s2 = s2
    p1 = p1
    p2 = p2
    w1 = w1
    w2 = w2
    Name = {w1, w2}
    ClusterName = {}
    SpecChoice <- SharedRules
    Resynced = {w1}
    Foreign = {s2}
    MaxRetries = 1
    MaxChanges = 3
    MaxDrifts = 0
    MaxClaims = 0
    MaxFaults = 1
    MaxCrashes = 1
INVARIANTS
    TypeOK
    Converges
    DeletionAwaited
PROPERTY
    DeletionCompletes
\* Users may stop writing: the controller is then at rest.
CHECK_DEADLOCK FALSE
ACTION_CONSTRAINT OneConflict

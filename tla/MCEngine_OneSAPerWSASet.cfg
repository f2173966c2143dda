\* Every pair of resources over 16 scopes of three dimensions.
SPECIFICATION Spec
CONSTANTS
    space = space
    v1 = v1
    other = other
    stale = stale
    OPCVersionEnvVarKey = OPCVersionEnvVarKey
    version = version
    Account = {default}
    Container = {main}
    EnvName = {other, OPCVersionEnvVarKey}
    EnvValue = {stale, version}
    EnvChoice <- FewEnvironments
    NoServiceAccount = NoServiceAccount
    Dim = {space, project, env}
    Val = {v1, v2}
    Name = {w1, c1}
    ClusterName = {c1}
    ScopeChoice <- ManyScopes
    Batchers = {b1}
    Syncers = {}
    MaxChanges = 0
INVARIANT
    OneSAPerWSASet

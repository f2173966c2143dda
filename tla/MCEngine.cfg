\* A batch worker and a state syncer publish while users change resources; every
\* start with up to two resources of five scopes.
SPECIFICATION Spec
CONSTANTS
    space = space
    v1 = v1
    other = other
    stale = stale
    OPCVersionEnvVarKey = OPCVersionEnvVarKey
    version = version
    Account = {default}
    Container = {main}
    EnvName = {other, OPCVersionEnvVarKey}
    EnvValue = {stale, version}
    EnvChoice <- FewEnvironments
    NoServiceAccount = NoServiceAccount
    Dim = {space, project}
    Val = {v1, v2}
    Name = {w1, c1}
    ClusterName = {c1}
    ScopeChoice <- FewScopes
    Batchers = {b1}
    Syncers = {s1}
    MaxChanges = 1
INVARIANTS
    TypeOK
    LookupMatchesResources
    ApplicableWSAsAreBound
    OnlyPlannedWSAsInMaps
    AdmissionMatchesResources
    AdmissionIsStable

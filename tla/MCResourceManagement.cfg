\* A WSA and a CWSA of one name, three namespaces of which two match.
SPECIFICATION FairSpec
CONSTANTS
    p1 = p1
    a1 = a1
    a2 = a2
    NoPermissions = NoPermissions
    Resource <- WSAandCWSA
    SpecChoice <- FewSpecs
    Namespace = {t1, t2, t3}
    Matching = {t1, t2}
    MaxWrites = 2
    MaxMoves = 1
    MaxFaults = 1
INVARIANTS
    TypeOK
    AppliedIsExact
PROPERTIES
    NoInterruption
    
\* With nothing pending and an expired cache there is nothing to do.
CHECK_DEADLOCK FALSE

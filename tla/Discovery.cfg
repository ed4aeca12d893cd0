CONSTANTS
    VersionName <- MCVersionName
    Parts <- MCParts
    U32Max = 8
    MaxChanges = 2
SPECIFICATION Spec
INVARIANTS
    CacheIsTrue
    MostStableFirst
    OneshotAgrees
    TypesAreServed
CHECK_DEADLOCK FALSE

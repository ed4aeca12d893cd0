CONSTANTS
    MaxFiles = 1
    UserName = {u1}
    Task = {t1}
    Nobody = Nobody
    MaxTime = 6
    Life = 3
    ExecMargin = 2
    OidcMargin = 1
    FileLife = 3
    FileMargin = 1
    MaxRotations = 2
    GcpCacheOnly = TRUE
SPECIFICATION FairSpec
INVARIANTS
    TokenSourceUnchanged
CHECK_DEADLOCK FALSE

CONSTANTS
    MaxFiles = 2
    UserName = {u1, u2}
    Task = {t1, t2}
    Nobody = Nobody
    MaxTime = 6
    Life = 3
    ExecMargin = 2
    OidcMargin = 1
    FileLife = 3
    FileMargin = 1
    MaxRotations = 2
    GcpCacheOnly = FALSE
SPECIFICATION FairSpec
INVARIANTS
    FirstFileWins
    RefreshTokenKept
PROPERTIES
    TokensAreFresh
    EveryRequestProceeds
CHECK_DEADLOCK FALSE

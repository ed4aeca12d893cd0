CONSTANTS
    Message = {m1, m2}
    Key = {k1, k2}
    None = None
    MaxTime = 1
    MaxRequests = 2
SPECIFICATION FairSpec
INVARIANTS
    QueueMatchesMetadata
    FuturesAreKept
    ReadinessGate
    NoLostWakeup
PROPERTIES
    ImplementsDueQueue
    DueMessagesRun
CHECK_DEADLOCK FALSE

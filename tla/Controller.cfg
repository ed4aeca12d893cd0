CONSTANTS
    Message = {m1}
    Key = {k1}
    None = None
    MaxTime = 1
    MaxRequests = 0
    MaxFeed = 1
    MaxVersion = 2
SPECIFICATION CFairSpec
INVARIANTS
    NoMissedReconciliation
PROPERTIES
    ShutdownCompletes
    ErrorsHoldNothingUp
CHECK_DEADLOCK FALSE

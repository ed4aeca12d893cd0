CONSTANTS
    Name = Name
    Other = Other
    MaxWrites = 3
    MaxLate = 1
    Preset = {}
SPECIFICATION WaitSpec
INVARIANTS
    CleanedBeforeGone
    FinalizedMeansGone
PROPERTIES
    OthersAreKept
    FinalizeReturns
CHECK_DEADLOCK FALSE

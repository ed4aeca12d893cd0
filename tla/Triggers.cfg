CONSTANTS
    Initial = 1
    MaxInterval = 2
    ResetDuration = 5
    GivesUp = TRUE
    MaxTime = 10
    MaxStreak = 3
    Stream = {s1, s2}
SPECIFICATION TFairSpec
INVARIANTS
    SlowedByStreak
PROPERTIES
    PausesAfterErr
    NoStreamStarves

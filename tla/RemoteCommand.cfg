CONSTANTS
    PipeSize = 1
    Window = 1
    MaxOutput = 2
    MaxInput = 1
    MaxResizes = 1
SPECIFICATION FairSpec
INVARIANTS
    OutputIsComplete
    CloseAfterInput
PROPERTIES
    JoinEnds
CHECK_DEADLOCK FALSE

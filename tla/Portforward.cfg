CONSTANTS
    Ports = 2
    Capacity = 2
    PipeSize = 1
    MaxWrites = 2
    MaxFrames = 2
SPECIFICATION FairSpec
INVARIANTS
    DataThenClose
PROPERTIES
    EndsAreSeen
CHECK_DEADLOCK FALSE

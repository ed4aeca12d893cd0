CONSTANTS
    Client = {c1, c2}
    Unset = Unset
    Own = Own
    Foreign = Foreign
    MaxVersion = 3
    MaxEdits = 2
    MaxRequests = 2
SYMMETRY ClientSymmetry
SPECIFICATION Spec
INVARIANTS
    CommitIsTrue
PROPERTIES
    NoLostUpdate
CHECK_DEADLOCK FALSE

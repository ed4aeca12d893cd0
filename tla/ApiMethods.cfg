CONSTANTS
    Namespace = {n1, n2}
    Manager = {m, long}
    TooLong = {long}
    Absent = Absent
    ProxyStatus = {404, 502}
    MaxVersion = 2
SYMMETRY NamespaceSymmetry
SPECIFICATION Spec
INVARIANTS
    OutcomeIsTrue
    ReadsAreFresh
PROPERTIES
    DryRunLeavesNoTrace
    WritesOnlyWhatIsMeant
CHECK_DEADLOCK FALSE

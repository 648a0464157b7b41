SPECIFICATION Spec
CONSTANTS
    Procs = {p1, p2}
    Items = {a, b}
    Sets = {b}
    None = None
    Shared = FALSE
    MaxPlans = 2
    MaxApplies = 3
    MaxRevision = 1
    MaxOthers = 1
    MaxFaults = 1
SYMMETRY Symmetry
INVARIANTS  ReplayLands
PROPERTY ReportHolds
CHECK_DEADLOCK FALSE

SPECIFICATION Spec
CONSTANTS
    Procs = {p1, p2}
    Gens = {a, b}
    None = None
    Free = Free
    Keep = 1
    MaxFaults = 1
PROPERTY OperationEnds

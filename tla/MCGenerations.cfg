SPECIFICATION Spec
CONSTANTS
    Procs = {p1, p2}
    Gens = {a, b, c}
    None = None
    Free = Free
    Keep = 1
    MaxFaults = 1
INVARIANTS TypeOK LinksResolve UndoIsKept
SYMMETRY GensSymmetry
PROPERTIES NoDiscard PublishedWhole RegisterSpec

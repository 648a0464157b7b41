SPECIFICATION Spec
CONSTANTS
    Procs = {p1, p2}
    Ids = {i1, i2}
    a = a
    b = b
    c = c
    old = old
    new = new
    own = own
    Paths = {a, b, c}
    Texts = {old, new, own}
    Absent = Absent
    Torn = Torn
    None = None
    InitialWorld <- FreeAndTaken
    Scripts <- LinksAndMoves
    UserTexts = {own}
    ReadSets <- AlsoA
    MaxOps = 3
    MaxUserEdits = 1
    MaxFaults = 1
SYMMETRY AnyOrder
CHECK_DEADLOCK FALSE
INVARIANT UndoOpen
PROPERTIES FailedRunIntact UndoRestores UndoKeepsUserWork

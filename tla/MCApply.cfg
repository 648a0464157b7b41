SPECIFICATION Spec
CONSTANTS
    Procs = {p1, p2}
    Caps = {a, b}
    None = {none}
    NoFile = NoFile
    Inodes = {i1, i2, i3}
    MaxApplies = 4
SYMMETRY AnyOrder
CHECK_DEADLOCK FALSE
PROPERTIES SoloApplyLands SoloSaveIsAtomic

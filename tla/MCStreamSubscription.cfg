SPECIFICATION StreamSpec
CONSTANTS
    Client = {a, b}
    MaxEvents = 4
    Limit = 2
    MaxFaults = 2
SYMMETRY AnyClient
\* A bounded journal comes to its end.
CHECK_DEADLOCK FALSE
INVARIANTS OnceInOrder LiveFeedWhole

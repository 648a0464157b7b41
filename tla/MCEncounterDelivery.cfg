SPECIFICATION Spec
CONSTANTS
    Delivery = {d1, d2}
    Thread = {t1, t2}
    MaxGen = 2
    Person = person
    None = none
SYMMETRY Symmetric
INVARIANTS
    TypeOK
    OneActive
    SentAtMostOnce
    RefusedNeverSent
    ReleaseExcludesDelivery
    RepliesNotCrossed
PROPERTY SettledStays

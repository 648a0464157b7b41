SPECIFICATION Spec
CONSTANTS
    Process = {p1, p2}
    o1 = o1
    o2 = o2
    daily = daily
    Scheduled = {daily}
    EventDriven = {}
    Occurrence = {o1, o2}
    OfRoutine <- Daily
    Due <- DueAt
    Within <- One
    AtMost <- One
    Event = {}
    Method = {m1, m2}
    OnTime = 1
    Lookback = 2
    MaxClock = 2
    MaxUpsets = 1
    None = None
    Status = {ok, lost}
SYMMETRY AnyOrder
INVARIANTS LedgerLoads RunsWhatWasProven
PROPERTIES EntriesStand LedgerSpec

SPECIFICATION FairSpec
CONSTANTS
    Process = {p1, p2}
    Scheduled = {}
    EventDriven = {review}
    Occurrence = {}
    OfRoutine <- Nothing
    Due <- Nothing
    Within <- Nothing
    AtMost <- Nothing
    Event = {e1}
    Method = {m1, m2}
    Status = {ok}
    OnTime = 1
    Lookback = 2
    MaxClock = 1
    MaxUpsets = 1
    None = None
PROPERTIES ReturnRecorded PassesEnd

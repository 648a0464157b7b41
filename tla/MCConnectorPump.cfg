SPECIFICATION FairSpec
CONSTANTS
    Caller = {c1}
    Event = {e1, e2}
    MaxOps = 2
    MaxFailures = 2
    MaxFaults = 2
    None = None
INVARIANTS SentAtMostOnce JournaledOnce
PROPERTIES QueueServed

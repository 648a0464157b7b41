\* Three messages, one control operation of any kind, two generations.
CONSTANTS
    MaxMessages = 3
    Control = {c1}
    QueueLimit = 1
    MaxGeneration = 2
    MaxControls = 1
    None = None
SPECIFICATION FairSpec
\* The service may end.
CHECK_DEADLOCK FALSE
INVARIANTS LaneNeverBusy AnsweredOnce NeverSilent
PROPERTIES QueuedRuns

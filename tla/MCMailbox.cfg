SPECIFICATION FairSpec
CONSTANTS
    c1 = c1
    c2 = c2
    c3 = c3
    Clients <- MCClients
    Capacity = 2
    Overlaps = FALSE
    MaxStarts = 3
    MaxTells = 4
    MaxCancels = 1
INVARIANTS
    TypeOK
    SignalsTrusted
    StoppedMeansDrained
PROPERTY
    EveryStopReturns
CHECK_DEADLOCK FALSE

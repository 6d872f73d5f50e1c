SPECIFICATION FairSpec
CONSTANTS
    ap = "ap"
    sta = "sta"
    Devices <- MCDevices
    APs <- MCAPs
    LastBssid <- MCLastBssid
    Retries = 2
    MaxClock = 3
    MaxRuns = 2
INVARIANTS
    TypeOK
    NoSilentLoss
PROPERTIES
    RelationsAfterNodes
    DeltaEmitted
CHECK_DEADLOCK FALSE

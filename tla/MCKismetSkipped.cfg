SPECIFICATION Spec
CONSTANTS
    ap = "ap"
    sta = "sta"
    Devices <- MCDevices
    APs <- MCAPs
    LastBssid <- MCLastBssid
    Retries = 2
    MaxClock = 3
    MaxRuns = 2
INVARIANT NoDeviceSkipped
CHECK_DEADLOCK FALSE

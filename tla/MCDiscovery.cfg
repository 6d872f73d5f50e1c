SPECIFICATION FairSpec
CONSTANTS
    a1 = "a1"
    a2 = "a2"
    scan = "scan"
    resolve = "resolve"
    direct = "direct"
    caller = "caller"
    Assets <- MCAssets
    Jobs <- MCJobs
    Output <- MCOutput
    Direct <- MCDirect
    DirectAsset = "a2"
    Synchronous <- MCSynchronous
    MaxRuns = 1
    MaxFailures = 1
    MaxCrashes = 1
INVARIANTS
    TypeOK
    EventsFollowStore
    ViewsFollow
    PublishedOnce
PROPERTY
    FuturesResolve
CHECK_DEADLOCK FALSE

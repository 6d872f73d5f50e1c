\* Two replays, a proxy that may die in a record, one crash, one replacement.
SPECIFICATION FairSpec
CONSTANTS
    Flows = {a, bad}
    Undecodable = {bad}
    Firings = 1
    Replays = {r1, r2}
    MaxFiles = 2
    MaxCrashes = 1
INVARIANTS
    ReplayTypeOK
    ExchangesAreFrames
    Accounted
PROPERTIES
    EveryFrameConsumed

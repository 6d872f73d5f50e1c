\* The response hook fires twice for one flow; nothing fails.
SPECIFICATION FairSpec
CONSTANTS
    Flows = {a}
    Undecodable = {}
    Firings = 2
    Replays = {r1}
    MaxFiles = 1
    MaxCrashes = 0
PROPERTIES
    EveryFrameConsumed

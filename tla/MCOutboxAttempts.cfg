\* One drainer, one crash after MARK-OUTBOX-SENDING.
SPECIFICATION Spec
CONSTANTS
    Docs = {1}
    Producers = {p1}
    Drainers = {actor}
    MaxAttempts = 2
    BackoffBase = 1
    BackoffMax = 2
    Limit = 1
    MaxClock = 2
    MaxCrashes = 1
    MaxFaults = 0
INVARIANTS
    AttemptsAtMostMax

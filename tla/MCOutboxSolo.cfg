\* The runtime as documented: one outbox actor drains, one thread enqueues.
SPECIFICATION FairSpec
CONSTANTS
    Docs = {1, 2}
    Producers = {p1}
    Drainers = {actor}
    MaxAttempts = 2
    BackoffBase = 1
    BackoffMax = 2
    Limit = 1
    MaxClock = 2
    MaxCrashes = 1
    MaxFaults = 1
INVARIANTS
    TypeOK
    AckImpliesAccepted
    AttemptsPaidByInterruptions
PROPERTIES
    TerminalIsFinal
    LedgerSpec
    EventuallySettled

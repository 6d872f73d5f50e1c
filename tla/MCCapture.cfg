SPECIFICATION Spec
CONSTANTS
    MaxRestarts = 2
    Overlaps = FALSE
    MaxDuplicates = 1
    MaxStopperFailures = 1
INVARIANTS
    TypeOK
    KeepsHold
PROPERTIES
    StopIsFinal
    Recovers
CHECK_DEADLOCK FALSE

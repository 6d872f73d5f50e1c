\* Every sequence of calls that stores at most six records.
SPECIFICATION Spec
CONSTANTS
    o1 = o1
    o2 = o2
    n1 = n1
    n2 = n2
    r1 = r1
    r2 = r2
    g1 = g1
    g2 = g2
    Operations = {o1, o2}
    Names = {n1, n2}
    Runs = {r1, r2}
    Claims = {c1}
    Grounds = {g1, g2}
    AllRuns = AllRuns
    MaxRecords = 6
SYMMETRY Symmetry
INVARIANTS
    TypeOK
    ClaimsTraceable
    ReadsSucceed
PROPERTIES
    NeverResurrected
    RetractionCloses
CHECK_DEADLOCK FALSE

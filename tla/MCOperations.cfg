SPECIFICATION Spec
CONSTANTS
    Operations = {alpha, beta}
    NoOperation = NoOperation
    Dirs = {home, work}
    NoDir = NoDir
    Launch = home
    Assets = {a1}
    NoAsset = NoAsset
    Recorders = {recorder}
    Supervisor = supervisorActor
    MaxCreates = 2
    MaxUses = 3
    MaxFailures = 1
    MaxRestarts = 1
SYMMETRY Symmetry
INVARIANTS
    TypeOK
    OperationsInStep
PROPERTY
    KeptInStep

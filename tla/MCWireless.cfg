SPECIFICATION FairSpec
CONSTANTS
    Results <- MCResults
    Devices <- MCDevices
    Documents <- MCDocuments
    Offers <- MCOffers
    Actors <- MCActors
    Modes = {"search", "bluetooth", "detail", "manifests"}
    PadsYears = FALSE
    NoDocument = NoDocument
    Retries = 2
    PageSize = 2
    MaxPages = 2
    Capacity = 2
INVARIANTS
    TypeOK
    ExitIsTruthful
    MappingsHold
PROPERTIES
    ContractSpec
    CommandEnds
CHECK_DEADLOCK FALSE

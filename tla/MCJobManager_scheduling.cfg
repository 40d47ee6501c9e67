SPECIFICATION Spec
CONSTANTS
    Sessions = {s1}
    Keys = {k1, k2, k3}
    Jobs = {j1, j2, j3}
    NoJob = NoJob
    NoSession = NoSession
    MaxDocument = 0
    MaxRuntime = 0
    MaxSession = 0
    MaxActive = 3
    MaxConcurrent = 2
    MaxResults = 2
    MaxResultSize = 2
    MaxResultBytes = 3
    RequestsMayDrop = FALSE
    WritesMayTear = FALSE
    ProvidersMayStop = TRUE
    RemovalsMayFail = FALSE
SYMMETRY Interchangeable
INVARIANTS
    TypeOK
    PermitsConserved
    CompletedWasNotCancelled
    NothingIsStranded
    RecordsAreAccounted
CHECK_DEADLOCK FALSE

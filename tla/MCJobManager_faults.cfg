SPECIFICATION Spec
CONSTANTS
    Sessions = {s1, s2}
    Keys = {k1, k2}
    Jobs = {j1, j2}
    NoJob = NoJob
    NoSession = NoSession
    MaxDocument = 2
    MaxRuntime = 3
    MaxSession = 2
    MaxActive = 2
    MaxConcurrent = 1
    MaxResults = 1
    MaxResultSize = 1
    MaxResultBytes = 1
    RequestsMayDrop = TRUE
    WritesMayTear = TRUE
    ProvidersMayStop = TRUE
    RemovalsMayFail = TRUE
SYMMETRY Interchangeable
INVARIANTS
    StorageIsExact
    BusyProviderKeepsInput
PROPERTIES
    ImplementsLifecycle
CHECK_DEADLOCK FALSE

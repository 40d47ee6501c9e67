SPECIFICATION FairSpec
CONSTANTS
    Sessions = {s1}
    Keys = {k1, k2}
    Jobs = {j1, j2}
    NoJob = NoJob
    NoSession = NoSession
    MaxDocument = 0
    MaxRuntime = 2
    MaxSession = 2
    MaxActive = 2
    MaxConcurrent = 1
    MaxResults = 1
    MaxResultSize = 1
    MaxResultBytes = 1
    RequestsMayDrop = FALSE
    WritesMayTear = FALSE
    ProvidersMayStop = TRUE
    RemovalsMayFail = FALSE
PROPERTIES
    JobsMoveOn
CHECK_DEADLOCK FALSE

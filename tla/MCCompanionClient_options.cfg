SPECIFICATION FairSpec
CONSTANTS
    Connects = {c1, c2}
    Extractions = {e1}
    Chunks = 2
    Minor = 4
    RequestTimeout = 2
    IdleLimit = 6
    MaxActive = 1
    MaxResults = 1
    NoBridge = NoBridge
    NoCall = NoCall
INVARIANTS
    RequestsAreAcceptable
CHECK_DEADLOCK FALSE

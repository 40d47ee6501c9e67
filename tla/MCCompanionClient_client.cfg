SPECIFICATION FairSpec
CONSTANTS
    Connects = {c1, c2}
    Extractions = {e1}
    Chunks = 2
    Minor = 3
    RequestTimeout = 2
    IdleLimit = 6
    MaxActive = 1
    MaxResults = 1
    NoBridge = NoBridge
    NoCall = NoCall
INVARIANTS
    SessionsHold
    NothingLeftBehind
    ReturnedDocumentsAreWhole
PROPERTIES
    ExtractionsEnd
CHECK_DEADLOCK FALSE

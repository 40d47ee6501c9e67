SPECIFICATION FairSpec
CONSTANTS
    Pages = {1, 2, 3, 4, 5, 6}
    Workers = {w1, w2}
    MaxPanics = 1
INVARIANTS
    PagesAccounted
    OnlyWholeDocuments
PROPERTIES
    ExtractionReturns
CHECK_DEADLOCK FALSE

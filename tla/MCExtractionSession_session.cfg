SPECIFICATION MCSpec
CONSTANTS
    Docs = {d1, d2}
    Pages = {1, 2}
    Selections = {{1, 2}}
    None = None
    MaxRuns = 2
    MaxOpens = 1
    MaxVersion = 2
    BrowserBatch = 1
    CompanionBatch = 2
    WritesMayFail = TRUE
    MaxClicks = 6
INVARIANTS
    SessionInv
    PagesFollowTheDocument
    ControlsAreTrue
PROPERTIES
    StoppedRunsAreQuiet
    ReportsAreTrue
    ExtractionsEnd
CHECK_DEADLOCK FALSE

SPECIFICATION FairSpec
CONSTANTS
    Contents <- SmallContents
    Settings <- SmallSettings
    BatchSize = 2
INVARIANTS
    ContentsArrive
    BatchInv
PROPERTIES
    BatchEnds
CHECK_DEADLOCK FALSE

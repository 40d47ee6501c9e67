SPECIFICATION Spec
CONSTANTS
    Capitals <- MCCapitals
    Acronyms <- MCAcronyms
    Numbers <- MCNumbers
    Strokes <- MCStrokes
    Signs <- MCSigns
    Stops <- MCStops
    Openers <- MCOpeners
    Halves <- MCHalves
    Hashes <- MCHashes
    Sources <- MCSources
    Settings <- MCSettings
    PageCount = 2
INVARIANTS
    PagesAreKept
    TextIsKept
PROPERTIES
    OnlyRunningMatterGoes

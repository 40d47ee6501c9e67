CONSTANTS
    Names <- MCNames
    Words <- MCWords
    CanRasterise = TRUE
    Statements = {"Lemma"}
    Prepositions = {"of"}
    Cues = {"the"}
    Capitals = {"Title"}
    IdOrder <- MCIdOrder
    SafeToken <- MCSafeToken
    ExtractionVersion = 14
    Documents <- MCDocuments
    ForeignFiles <- MCForeignFiles
    MarkdownFiles <- MCMarkdownFiles
    Texts <- MCTexts
    Formulas <- MCFormulas
    Pdfs = {"D.pdf"}
    MaxPage = 2
    MaxSteps = 3
SPECIFICATION Spec
INVARIANTS
    ReviewInv
    WordFilesAreWhole
    BundleHoldsTheDocument
PROPERTIES
    EditsReachTheStore
    DamagedBundleIsRefused
CHECK_DEADLOCK FALSE

SPECIFICATION Spec
CONSTANTS
    Titles = {"Methods", "Title", "Contents"}
    Sections = {"1.1", "1.2"}
    Bullets = {"-"}
    Captions = {"Figure"}
    Openers = {"Chapter"}
    Fronts = {"Contents"}
    Contents = {"Contents"}
    Numbers = {"7", "9", "1", "2"}
    Stops = {"end.", "f."}
    Drawing = {"|"}
    Prose = {"the"}
    PageWidth = 100
    PageContents <- MCContents
INVARIANTS
    NativeTextArrives
    PicturesArrive
    TablesAreTrue

--------------------------- MODULE PageExtraction ---------------------------
(***************************************************************************)
(* What becomes of the contents of one PDF page: pageMarkdown of           *)
(* features/extraction/extract-worker.js.  A page is read as text blocks,  *)
(* images and groups of drawn paths, or recognised as lines of text; the   *)
(* stages turn each of these into an entry of the page's text, into a      *)
(* picture that an entry marks, or into nothing.                           *)
(*                                                                         *)
(* A place is a pair of a band and a column: things in one band overlap    *)
(* vertically, things in one place cover each other.  What MuPDF and       *)
(* Tesseract see is the page's content; that a crop fails, what the        *)
(* recogniser makes of a picture and whether a formula is validated are    *)
(* choices of the environment.                                             *)
(***************************************************************************)
EXTENDS Naturals, Sequences, FiniteSets

CONSTANTS
    Contents,   \* the pages a document may have
    Settings    \* the options an extraction may be started with

VARIABLES
    options,    \* the settings of the extraction
    page,       \* the content of the page being read
    stage,      \* the part of pageMarkdown that comes next
    entries,    \* the entries of the page, as they were pushed
    assets,     \* the pictures kept, as they were pushed
    ocrApplied, ocrConfident,
    preserveSourcePage, sourcePageFallbackFailed,
    todo,       \* pictures that the current loop has not reached
    recovered,  \* images whose formula was recognised
    given       \* what an option or a failed crop gave up (history)

pageVars == <<page, stage, entries, assets, ocrApplied, ocrConfident,
              preserveSourcePage, sourcePageFallbackFailed, todo, recovered, given>>

NoPage == [corrupt |-> FALSE, sparse |-> FALSE, table |-> "none",
           blocks |-> <<>>, images |-> <<>>, graphics |-> <<>>, lines |-> <<>>]

\* What a page may hold; a page that is searched has the lines of its table.
Places == Nat \X Nat
ThingType == [kind : STRING, at : Places, caption : {"none", "table", "figure"}]
PageType == [corrupt : BOOLEAN, sparse : BOOLEAN, table : {"none", "readable", "unclear"},
             blocks : Seq(ThingType), images : Seq(ThingType),
             graphics : Seq(ThingType), lines : Seq(ThingType)]
SettingType == [forceOcr : BOOLEAN, useOcr : BOOLEAN, preserveVisuals : BOOLEAN,
                detectTables : BOOLEAN, extractEquations : BOOLEAN, flows : BOOLEAN,
                strict : BOOLEAN]

ASSUME PageAssumption ==
    /\ Settings \subseteq SettingType
    /\ \A p \in Contents :
        /\ p \in PageType
        /\ p.table # "none" /\ ~p.corrupt => \E i \in DOMAIN p.blocks : p.blocks[i].kind = "cell"

Stages == {"none", "read", "table", "recognise", "formulas", "blocks", "images",
           "graphics", "candidates", "source", "answer", "failed"}

Things(sort, seq) == {<<sort, i>> : i \in DOMAIN seq}
Blocks == Things("block", page.blocks)
Images == Things("image", page.images)
Graphics == Things("graphic", page.graphics)
Lines == Things("line", page.lines)

Thing(t) == CASE t[1] = "block" -> page.blocks[t[2]]
              [] t[1] = "image" -> page.images[t[2]]
              [] t[1] = "graphic" -> page.graphics[t[2]]
              [] t[1] = "line" -> page.lines[t[2]]
OfKind(things, kind) == {t \in things : Thing(t).kind = kind}

Place(t) == Thing(t).at
Wide(band) == <<band, 0>>           \* a place as wide as the page
WholePage == <<0, 0>>
Meets(m, n) == m = n \/ 0 \in {m, n}
Overlaps(a, b) == Meets(a[1], b[1])
Intersects(a, b) == Overlaps(a, b) /\ Meets(a[2], b[2])

Entry(kind, of, at, text, marker, confident) ==
    [kind |-> kind, of |-> of, at |-> at, text |-> text, marker |-> marker,
     confident |-> confident]
Asset(id, kind, at) == [id |-> id, kind |-> kind, at |-> at]
NoMarker == <<"none", <<>>>>

\* Things in the order of the page, for the loops over blocks, lines and images.
InOrder(things) ==
    CHOOSE s \in [1 .. Cardinality(things) -> things] :
        \A i, j \in DOMAIN s : i < j => s[i][2] < s[j][2]
EntriesFor(made) ==
    LET order == InOrder(DOMAIN made) IN [i \in DOMAIN order |-> made[order[i]]]

KeepBlocks(things) == {t \in things : Thing(t).kind # "number"}

\* Confident text or a table already stands where a picture would be cropped.
HasConfidentExtraction(at) ==
    \E i \in DOMAIN entries :
        /\ entries[i].kind \in {"equation", "table", "text"}
        /\ entries[i].confident
        /\ entries[i].at = at

Beside(at) == \E i \in DOMAIN assets :
    assets[i].kind # "source-page" /\ Overlaps(assets[i].at, at)
TableAt(at) == \E i \in DOMAIN entries :
    entries[i].kind = "table" /\ Intersects(entries[i].at, at)

-----------------------------------------------------------------------------
(* Reading the page and its table                                          *)

OpenPage(p) ==
    /\ page' = p
    /\ stage' = "read"
    /\ entries' = <<>>
    /\ assets' = <<>>
    /\ ocrApplied' = FALSE
    /\ ocrConfident' = FALSE
    /\ preserveSourcePage' = FALSE
    /\ sourcePageFallbackFailed' = FALSE
    /\ todo' = {}
    /\ recovered' = {}
    /\ given' = {}

\* The page is kept as a whole when its text is damaged.
KeepsWhole == page.corrupt /\ options.preserveVisuals

Read ==
    /\ stage = "read"
    /\ stage' = "table"
    /\ preserveSourcePage' = KeepsWhole
    /\ UNCHANGED <<page, entries, assets, ocrApplied, ocrConfident,
                   sourcePageFallbackFailed, todo, recovered, given>>

Cells == OfKind(Blocks, "cell")
TableLooked == ~options.forceOcr /\ ~page.corrupt /\ options.detectTables
TableBand == Place(CHOOSE t \in Cells : TRUE)[1]

\* Mutant: the lines of a table are taken out before its picture exists.
TableLinesAlways == IF TableLooked THEN Cells ELSE {}

TableLines ==
    UNION {entries[i].of : i \in {j \in DOMAIN entries : entries[j].kind = "table"}}

\* A table of the page is text, or a crop of it, or its lines stay in their blocks.
DetectTable ==
    /\ stage = "table"
    /\ stage' = "recognise"
    /\ \E cropped, confident \in BOOLEAN :
         LET found == TableLooked /\ page.table # "none"
             asset == Asset(<<"table-source", <<>>>>, "table-image", Wide(TableBand))
         IN CASE found /\ page.table = "readable" ->
                   /\ entries' = <<Entry("table", Cells, Wide(TableBand), TRUE,
                                         NoMarker, confident)>>
                   /\ UNCHANGED <<assets, given>>
              [] found /\ page.table = "unclear" /\ options.preserveVisuals /\ cropped ->
                   /\ assets' = <<asset>>
                   /\ entries' = <<Entry("table", Cells, asset.at, FALSE, asset.id,
                                         confident)>>
                   /\ UNCHANGED given
              [] OTHER -> UNCHANGED <<entries, assets, given>>
    /\ UNCHANGED <<page, ocrApplied, ocrConfident, preserveSourcePage,
                   sourcePageFallbackFailed, todo, recovered>>

-----------------------------------------------------------------------------
(* Recognising the page                                                    *)

NeedsOcr == options.forceOcr \/ (options.useOcr /\ (page.corrupt \/ page.sparse))

Captions == OfKind(Lines, "caption")
FigureBands == {Place(c)[1] : c \in Captions}
Labels == {t \in OfKind(Lines, "label") : Place(t)[1] \in FigureBands}
Excluded == IF options.preserveVisuals THEN Labels ELSE {}
EquationLines ==
    IF options.extractEquations
    THEN {t \in OfKind(Lines, "formula") : Place(t)[1] \notin FigureBands}
    ELSE {}

EquationAsset(t) == Asset(<<"equation", Place(t)>>, "equation", Place(t))
EquationAssets(things) == EntriesFor([t \in things |-> EquationAsset(t)])

\* The text of a group of formula lines is not handed on, so a recognised
\* formula is never accepted: a crop stands for it, or nothing does.
LineEntry(t, cropped, confident) ==
    CASE t \notin EquationLines -> Entry("text", {t}, Place(t), TRUE, NoMarker, confident)
      [] t \in cropped -> Entry("equation-fallback", {t}, Place(t), FALSE,
                                EquationAsset(t).id, FALSE)
      [] OTHER -> Entry("equation-fallback", {t}, Place(t), FALSE, NoMarker, FALSE)

Recognise ==
    /\ stage = "recognise" /\ NeedsOcr
    /\ stage' = "formulas"
    /\ \E confident \in BOOLEAN, cropped \in SUBSET EquationLines :
         /\ ocrConfident' = confident
         /\ preserveSourcePage' = (preserveSourcePage /\ ~confident)
         /\ assets' = assets \o EquationAssets(cropped)
         /\ entries' = entries \o EntriesFor([t \in Lines \ Excluded |->
                                                 LineEntry(t, cropped, confident)])
         /\ given' = given \cup (EquationLines \ cropped)
    /\ ocrApplied' = TRUE
    /\ UNCHANGED <<page, sourcePageFallbackFailed, todo, recovered>>

\* OCR throws: the page has no answer.
RecogniseFails ==
    /\ stage = "recognise" /\ NeedsOcr
    /\ stage' = "failed"
    /\ UNCHANGED <<page, entries, assets, ocrApplied, ocrConfident, preserveSourcePage,
                   sourcePageFallbackFailed, todo, recovered, given>>

SkipRecognition ==
    /\ stage = "recognise" /\ ~NeedsOcr
    /\ stage' = "formulas"
    /\ UNCHANGED <<page, entries, assets, ocrApplied, ocrConfident, preserveSourcePage,
                   sourcePageFallbackFailed, todo, recovered, given>>

-----------------------------------------------------------------------------
(* The page's own text                                                     *)

\* What comes of a formula: accepted without its crop, accepted beside its crop,
\* accepted when no crop could be made, kept as a crop, or kept as text.
EquationOutcomes == {"exact", "checked", "bare", "source", "raw"}
Kept == {"checked", "source"}

EquationEntry(t, outcome) ==
    Entry(IF outcome \in {"exact", "checked", "bare"} THEN "equation"
                                                     ELSE "equation-fallback",
          {t}, Place(t), outcome # "source",
          IF outcome \in Kept THEN EquationAsset(t).id ELSE NoMarker,
          outcome = "exact")

\* Images beside the words of a formula are recognised one by one; one that is
\* not read as a formula goes on as an image.
FormulaImages ==
    /\ stage = "formulas"
    /\ stage' = "blocks"
    /\ LET cued == IF options.extractEquations /\ ~ocrApplied
                   THEN OfKind(Images, "formula") ELSE {}
       IN \E read \in SUBSET cued :
          \E outcome \in [read -> EquationOutcomes \ {"bare", "raw"}] :
             /\ recovered' = read
             /\ entries' = entries \o EntriesFor([t \in read |-> EquationEntry(t, outcome[t])])
             /\ assets' = assets \o EquationAssets({t \in read : outcome[t] \in Kept})
    /\ UNCHANGED <<page, ocrApplied, ocrConfident, preserveSourcePage,
                   sourcePageFallbackFailed, todo, given>>

BlocksToRead == IF ocrApplied THEN {} ELSE KeepBlocks(Blocks) \ TableLines

\* Page numbers at an edge are dropped, tables and formulas are rebuilt, and
\* everything else is text.
ReadBlocks ==
    /\ stage = "blocks"
    /\ stage' = "images"
    /\ todo' = IF options.preserveVisuals THEN Images ELSE {}
    /\ LET left == BlocksToRead
           formulas == IF options.extractEquations THEN OfKind(left, "formula") ELSE {}
           grids == IF options.detectTables THEN OfKind(left, "grid") ELSE {}
       IN \E outcome \in [formulas -> EquationOutcomes] :
             /\ entries' = entries \o EntriesFor([t \in left |->
                  CASE t \in formulas -> EquationEntry(t, outcome[t])
                    [] t \in grids -> Entry("table", {t}, Place(t), TRUE, NoMarker, TRUE)
                    [] OTHER -> Entry("text", {t}, Place(t), TRUE, NoMarker, ~page.corrupt)])
             /\ assets' = assets \o EquationAssets({t \in formulas : outcome[t] \in Kept})
    /\ UNCHANGED <<page, ocrApplied, ocrConfident, preserveSourcePage,
                   sourcePageFallbackFailed, recovered, given>>

-----------------------------------------------------------------------------
(* Pictures                                                                *)

\* A picture captioned as a table may be recognised as one.
MayReadTable(caption) == options.detectTables /\ options.useOcr /\ caption = "table"

CaptionedKind(caption, kind) == IF caption = "table" THEN "table-image" ELSE kind

\* What one picture becomes: a table, a crop under the id, or nothing when the
\* crop fails.  The pictures are handled one by one, each after the last.
Picture(of, at, box, caption, id, kind) ==
    \/ /\ MayReadTable(caption)
       /\ \E confident \in BOOLEAN :
            entries' = Append(entries, Entry("table", of, at, TRUE, NoMarker, confident))
       /\ UNCHANGED <<assets, given>>
    \/ LET asset == Asset(id, CaptionedKind(caption, kind), at)
       IN /\ assets' = Append(assets, asset)
          /\ entries' = Append(entries, Entry("visual", of, box, FALSE, id, FALSE))
          /\ UNCHANGED given
    \/ /\ given' = given \cup of
       /\ UNCHANGED <<entries, assets>>

Count(kind) == Cardinality({i \in DOMAIN assets : assets[i].kind = kind})

First(things) == InOrder(things)[1]

\* The pictures of one loop: a picture is passed over or handled, and after the
\* last the next loop begins.
PassOver(t) ==
    /\ todo' = todo \ {t}
    /\ UNCHANGED <<stage, entries, assets, given>>
Handle(t, id, kind, of, box) ==
    /\ todo' = todo \ {t}
    /\ Picture(of, Place(t), box, Thing(t).caption, id, kind)
    /\ UNCHANGED stage
Proceed(next, things) ==
    /\ todo = {}
    /\ stage' = next
    /\ todo' = things
    /\ UNCHANGED <<entries, assets, given>>

PictureFrame == UNCHANGED <<page, ocrApplied, ocrConfident, preserveSourcePage,
                                   sourcePageFallbackFailed, recovered>>

SkipImage(t) ==
    \/ preserveSourcePage
    \/ t \in recovered
    \/ HasConfidentExtraction(Place(t))
    \/ Thing(t).kind = "scan" /\ ocrApplied /\ ocrConfident /\ Captions = {}
    \/ Thing(t).kind = "tiny"
    \/ Thing(t).kind = "scan" /\ Len(page.blocks) > 2

KeepImages ==
    /\ stage = "images"
    /\ \/ /\ todo # {}
          /\ LET t == First(todo)
             IN IF SkipImage(t) THEN PassOver(t)
                ELSE Handle(t, <<"image", t[2]>>, "image", {t}, Place(t))
       \/ Proceed("graphics", IF options.flows /\ options.preserveVisuals
                              THEN Graphics ELSE {})
    /\ PictureFrame

\* Of drawings that share a band with a picture already kept nothing is kept.
SkipGraphic(t) ==
    \/ preserveSourcePage
    \/ HasConfidentExtraction(Place(t))
    \/ Beside(Place(t))
    \/ TableAt(Place(t))

GraphicId(t) == <<"graphic", Count("graphic") + 1>>

KeepGraphics ==
    /\ stage = "graphics"
    /\ \/ /\ todo # {}
          /\ LET t == First(todo)
             IN IF SkipGraphic(t) THEN PassOver(t)
                ELSE Handle(t, GraphicId(t), "graphic", {t}, Place(t))
       \/ Proceed("candidates", IF ocrApplied /\ options.preserveVisuals
                                THEN Captions ELSE {})
    /\ PictureFrame

\* A captioned figure stands for the labels that were taken out of the text.
LabelsOf(c) == {t \in Labels : Overlaps(Place(t), Place(c))}

SkipCandidate(c) ==
    \/ preserveSourcePage
    \/ HasConfidentExtraction(Wide(Place(c)[1]))
    \/ Beside(Place(c))

CandidateId(c) ==
    LET kind == CaptionedKind(Thing(c).caption, "graphic")
    IN <<kind, Count(kind) + 1>>

KeepCandidates ==
    /\ stage = "candidates"
    /\ \/ /\ todo # {}
          /\ LET c == First(todo)
             IN IF SkipCandidate(c) THEN PassOver(c)
                ELSE Handle(c, CandidateId(c), "graphic", LabelsOf(c), Wide(Place(c)[1]))
       \/ Proceed("source", {})
    /\ PictureFrame

\* A page whose text is damaged is kept as it looks.
PreservePage ==
    /\ stage = "source"
    /\ stage' = "answer"
    /\ LET all == Blocks \cup Images \cup Graphics \cup Lines
           asset == Asset(<<"source-page", <<>>>>, "source-page", WholePage)
       IN IF preserveSourcePage
          THEN \/ /\ assets' = Append(assets, asset)
                  /\ entries' = Append(entries, Entry("source-page", all, asset.at, FALSE,
                                                      asset.id, FALSE))
                  /\ UNCHANGED <<given, sourcePageFallbackFailed>>
               \/ /\ sourcePageFallbackFailed' = TRUE
                  /\ given' = given \cup all
                  /\ UNCHANGED <<entries, assets>>
          ELSE UNCHANGED <<entries, assets, given, sourcePageFallbackFailed>>
    /\ UNCHANGED <<page, todo, ocrApplied, ocrConfident, preserveSourcePage, recovered>>

PageStep ==
    \/ Read \/ DetectTable
    \/ Recognise \/ RecogniseFails \/ SkipRecognition
    \/ FormulaImages \/ ReadBlocks
    \/ KeepImages \/ KeepGraphics \/ KeepCandidates \/ PreservePage

-----------------------------------------------------------------------------
(* What a page's answer promises                                           *)

\* The page as it stands when its answer is put together.
Answered == stage = "answer"
Shown == UNION {entries[i].of : i \in {j \in DOMAIN entries :
                                        entries[j].text \/ entries[j].marker # NoMarker}}
Texts(t) == {i \in DOMAIN entries : t \in entries[i].of /\ entries[i].text}

\* The stages leave an entry or a picture of everything they push, and the flags
\* of the page agree with the options.
PageInv ==
    /\ stage \in Stages
    /\ \A i \in DOMAIN entries : entries[i].of \subseteq
           Blocks \cup Images \cup Graphics \cup Lines
    /\ preserveSourcePage => page.corrupt /\ options.preserveVisuals
    /\ ocrApplied => NeedsOcr

\* The text of a page survives: a block, or a recognised line of a page that was
\* recognised, is text or a picture of the answer, unless it is a page number or
\* the crop that was to stand for it failed, or it labels a figure that was passed
\* over because a picture beside it was kept (2317-2420, 2485-2659, 2828-2895).
TextSurvives ==
    Answered =>
        LET owed == IF ocrApplied THEN Lines ELSE KeepBlocks(Blocks)
        IN \A t \in owed \ (Shown \cup given) :
              t \in Excluded /\ (Beside(Place(t)) \/ HasConfidentExtraction(Wide(Place(t)[1])))

\* So do its pictures, when they are to be preserved: an image or a drawing is a
\* picture or a table of the answer, unless it is too small, a mere scan of the page,
\* its crop failed, confident text stands in its place, or, for a drawing, another
\* picture or a table shares its band (2661-2826).
PicturesSurvive ==
    Answered /\ options.preserveVisuals =>
        /\ \A t \in Images \ (Shown \cup given) :
              \/ Thing(t).kind \in {"tiny", "scan"}
              \/ HasConfidentExtraction(Place(t))
        /\ options.flows => \A t \in Graphics \ (Shown \cup given) :
              \/ HasConfidentExtraction(Place(t)) \/ Beside(Place(t)) \/ TableAt(Place(t))

\* A page whose embedded text is damaged never passes as read: it is kept as a
\* picture, or was recognised with confidence, or says that keeping it failed,
\* unless the user asked for no pictures (2258, 2344, 2897-2929).
DamageIsNeverSilent ==
    Answered /\ page.corrupt /\ options.preserveVisuals =>
        \/ \E i \in DOMAIN entries : entries[i].kind = "source-page"
        \/ ocrApplied /\ ocrConfident
        \/ sourcePageFallbackFailed

\* Only one reading of the page is used: once the page is recognised, embedded text
\* stays in the answer only as the page's table (2266-2315, 2485).
OneReading ==
    Answered /\ ocrApplied =>
        \A t \in Blocks \cap Shown : \A i \in Texts(t) : entries[i].kind = "table"

\* Every picture of the answer is marked by an entry, and every marker has its
\* picture, whatever crops failed (1306-1312, each push of an asset).
MarkersHavePictures ==
    Answered =>
        {entries[i].marker : i \in DOMAIN entries} \ {NoMarker}
            = {assets[i].id : i \in DOMAIN assets}

\* A marker has one picture: no two pictures of a page have one name (2799, 2871).
\* The code does not have this property: see "Divergences" in the README.
MarkersResolve ==
    \A i, j \in DOMAIN assets : assets[i].id = assets[j].id => i = j
=============================================================================

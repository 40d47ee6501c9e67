--------------------------- MODULE StructuredText ---------------------------
(* How the extraction worker reads the native text of a page. The engine      *)
(* walks the page and calls back for every line and image; mupdf-vite.js has   *)
(* wrapped the walk twice. structured-recovery.js keeps what it is called      *)
(* with, cuts it into blocks and replays those; structured-fidelity-           *)
(* finalizer.js keeps the replay, replaces it by the engine's JSON when the    *)
(* walk had flattened the page, and replays it to readStructuredPage of        *)
(* extract-worker.js, which then looks for tables and classifies the blocks.   *)
(* Every native image is a handle of the engine that somebody must destroy.    *)
(* An image's box is <<x0, y0, x1, y1>>, y in half rows.                        *)
EXTENDS PageTables

CONSTANTS
    PageContents    \* what a page may hold: see ContentsType

VARIABLES
    page,       \* the page that is read
    known,      \* what JSON.parse and the drawing device told: [json, drawn]
    at,         \* callbacks of the engine that are done
    block,      \* recovery: the block being captured
    native,     \* recovery: blocks captured
    handles,    \* native images: "native", "kept", "passed", "destroyed" or "given"
    queue,      \* blocks still to be replayed to the next layer
    captured,   \* finalizer: blocks replayed to it
    regions,    \* finalizer: image boxes replayed to it
    blocks,     \* readStructuredPage: the text it has
    pictures,   \* readStructuredPage: the image boxes it has
    tables,     \* tables found, in order
    entries,    \* blocks that stay text, with their type
    stage
vars == <<page, known, at, block, native, handles, queue, captured, regions, blocks, pictures,
          tables, entries, stage>>
layers == <<known, at, block, native, queue, captured, regions>>

Init ==
    /\ page \in PageContents
    /\ known = [json |-> FALSE, drawn |-> <<>>]
    /\ at = 0 /\ block = <<>> /\ native = <<>>
    /\ handles = [i \in DOMAIN page.images |-> "native"]
    /\ queue = <<>> /\ captured = <<>> /\ regions = <<>>
    /\ blocks = <<>> /\ pictures = <<>>
    /\ tables = <<>> /\ entries = <<>>
    /\ stage = "open"

-----------------------------------------------------------------------------
(* Image boxes *)

Inside(a, b) == a[1] >= b[1] /\ a[2] >= b[2] /\ a[3] <= b[3] /\ a[4] <= b[4]
\* Boxes count as one when nearly all of the smaller is in the other.
SameBox(a, b) == Inside(a, b) \/ Inside(b, a)
DedupeRects(boxes) ==
    FoldLeft(LAMBDA kept, b : IF \E i \in DOMAIN kept : SameBox(kept[i], b) THEN kept ELSE Append(kept, b),
             <<>>, boxes)
Union2(a, b) == <<Lesser(a[1], b[1]), Lesser(a[2], b[2]), Bigger(a[3], b[3]), Bigger(a[4], b[4])>>
BoxGap(a, b) == Bigger(0, Bigger(a[1], b[1]) - Lesser(a[3], b[3]))
ImageGap == 5
\* Fragments of one formula stand side by side at one height.
Fragments(a, b) == a[2] < b[4] /\ b[2] < a[4] /\ BoxGap(a, b) <= ImageGap
\* Mutant: the box keeps its size when it takes in another.
AbsorbOnly(kept, box) ==
    Append(SelectSeq(kept, LAMBDA k : ~Fragments(k, box)), box)
Absorb(kept, box) ==
    LET Step(st, i) == LET near == {k \in DOMAIN st.kept : Fragments(st.kept[k], st.box)}
                       IN  IF near = {} THEN st
                           ELSE [kept |-> RemoveAt(st.kept, Min(near)),
                                 box |-> Union2(st.kept[Min(near)], st.box)]
        end == FoldLeft(Step, [kept |-> kept, box |-> box], [i \in DOMAIN kept |-> i])
    IN  Append(end.kept, end.box)
Higher(a, b) == a[2] < b[2] \/ (a[2] = b[2] /\ a[1] < b[1])
CoalesceImageRects(boxes) == SortSeq(FoldLeft(Absorb, <<>>, SortSeq(boxes, Higher)), Higher)

\* Small boxes are widened: glyphs may stand out of them.
Expanded(b) == IF b[3] - b[1] \in 8 .. 71 /\ b[4] - b[2] <= 6
               THEN <<b[1] - 3, b[2] - 1, b[3] + 3, b[4] + 1>> ELSE b
JsonImageRects(boxes) ==
    LET merged == CoalesceImageRects(DedupeRects(boxes)) IN [i \in DOMAIN merged |-> Expanded(merged[i])]
RecoveredImageRects == DedupeRects(JsonImageRects(IF known.json THEN page.images ELSE <<>>) \o known.drawn)

-----------------------------------------------------------------------------
(* structured-recovery.js *)

\* The JSON may not parse, and the device may fail with some images drawn.
Open ==
    /\ stage = "open"
    /\ \E json \in BOOLEAN, n \in 0 .. Len(page.images) :
           known' = [json |-> json, drawn |-> DedupeRects(SubSeq(page.images, 1, n))]
    /\ stage' = "walk"
    /\ UNCHANGED <<page, at, block, native, handles, queue, captured, regions, blocks, pictures,
                   tables, entries>>

\* The callbacks of the engine: the lines of each block, the end of the block, then the images.
Callbacks ==
    FlattenSeq([b \in DOMAIN page.native |->
                   Append([l \in DOMAIN page.native[b] |-> [call |-> "line", line |-> page.native[b][l]]],
                          [call |-> "end"])])
    \o [i \in DOMAIN page.images |-> [call |-> "image", image |-> i]]
Calls(kind) == stage = "walk" /\ at < Len(Callbacks) /\ Callbacks[at + 1].call = kind
Advance == at' = at + 1 /\ UNCHANGED <<page, known, queue, captured, regions, blocks, pictures, tables,
                                       entries, stage>>

EndLine ==
    /\ Calls("line")
    /\ block' = block \o SplitCollapsed(Callbacks[at + 1].line)
    /\ Advance /\ UNCHANGED <<native, handles>>

EndTextBlock ==
    /\ Calls("end")
    /\ native' = IF block = <<>> THEN native ELSE Append(native, block)
    /\ block' = <<>>
    /\ Advance /\ UNCHANGED handles

OnImageBlock ==
    /\ Calls("image")
    /\ handles' = [handles EXCEPT ![Callbacks[at + 1].image] = "kept"]
    /\ Advance /\ UNCHANGED <<block, native>>

\* JSON text is replayed from its text, where spaces separate the words that were merged.
Respaced(b) == [l \in DOMAIN b |-> [i \in DOMAIN b[l] |->
                   [b[l][i] EXCEPT !.glued = i > 1 /\ b[l][i].x0 = b[l][i - 1].x1]]]
JsonBlocks == IF known.json THEN page.json ELSE <<>>
SegmentedJson == LET cut == Segment(JsonBlocks, FALSE) IN [b \in DOMAIN cut |-> Respaced(cut[b])]

\* The walk has ended: what was captured is cut into blocks, or the JSON when nothing was.
Recover ==
    /\ stage = "walk" /\ at = Len(Callbacks)
    /\ queue' = IF Segment(native, TRUE) # <<>> THEN Segment(native, TRUE) ELSE SegmentedJson
    /\ stage' = "replay"
    /\ UNCHANGED <<page, known, at, block, native, handles, captured, regions, blocks, pictures,
                   tables, entries>>

ReplayBlock ==
    /\ stage = "replay" /\ queue # <<>>
    /\ captured' = Append(captured, Head(queue))
    /\ queue' = Tail(queue)
    /\ UNCHANGED <<page, known, at, block, native, handles, regions, blocks, pictures, tables,
                   entries, stage>>

ReplayImages ==
    /\ stage = "replay" /\ queue = <<>>
    /\ IF RecoveredImageRects # <<>>
       THEN /\ regions' = RecoveredImageRects
            /\ handles' = [i \in DOMAIN handles |-> "destroyed"]
       ELSE /\ regions' = page.images
            /\ handles' = [i \in DOMAIN handles |-> "passed"]
    /\ stage' = "finalize"
    /\ UNCHANGED <<page, known, at, block, native, queue, captured, blocks, pictures, tables, entries>>

-----------------------------------------------------------------------------
(* structured-fidelity-finalizer.js *)

StableCaptured == CoalesceBlocks(captured)
FinalJson == LET cut == NormalizedJson(JsonBlocks) IN [b \in DOMAIN cut |-> Respaced(cut[b])]
PreferJson ==
    /\ Len(LinesIn(StableCaptured)) <= 1
    /\ Len(LinesIn(FinalJson)) > Len(LinesIn(StableCaptured))
    /\ Len(FinalJson) >= 2

Finalize ==
    /\ stage = "finalize"
    /\ queue' = IF PreferJson THEN FinalJson ELSE SplitCapturedCollapsed(StableCaptured)
    /\ stage' = "read"
    /\ UNCHANGED <<page, known, at, block, native, handles, captured, regions, blocks, pictures,
                   tables, entries>>

-----------------------------------------------------------------------------
(* readStructuredPage *)

ReadBlock ==
    /\ stage = "read" /\ queue # <<>>
    /\ blocks' = Append(blocks, Head(queue))
    /\ queue' = Tail(queue)
    /\ UNCHANGED <<page, known, at, block, native, handles, captured, regions, pictures, tables,
                   entries, stage>>

\* The lines of the engine's plain text, as one block: they all get the same empty box.
Unplaced(line) == [i \in DOMAIN line |-> [line[i] EXCEPT !.row = 0, !.x0 = 0, !.x1 = 0, !.big = FALSE]]
PlainBlocks == IF page.plain = <<>> THEN <<>>
               ELSE <<[l \in DOMAIN page.plain |-> Unplaced(page.plain[l])]>>
\* A page without blocks is read from the JSON, or from the engine's plain text.
FallbackBlocks ==
    IF blocks # <<>> THEN blocks ELSE IF JsonBlocks # <<>> THEN JsonBlocks ELSE PlainBlocks

\* The images come last; then the page is put together and the engine's object destroyed.
ReadPage ==
    /\ stage = "read" /\ queue = <<>>
    /\ pictures' = regions
    /\ handles' = [i \in DOMAIN handles |-> IF handles[i] = "passed" THEN "given" ELSE handles[i]]
    /\ blocks' = CoalesceBlocks(FallbackBlocks)
    /\ stage' = "layout"
    /\ UNCHANGED <<page, tables, entries>> /\ UNCHANGED layers

-----------------------------------------------------------------------------
(* Tables and types *)

\* pageMarkdown: the table of the page, then the recognised table of its picture.
FindTable ==
    /\ stage = "layout"
    /\ LET found == PageTable(blocks, page.rules)
       IN  tables' = IF found = NoTable THEN <<>> ELSE <<found>>
    /\ stage' = "entries"
    /\ UNCHANGED <<page, handles, blocks, pictures, entries>> /\ UNCHANGED layers

\* analyzePageLayout: hundredths that each sign of a heading counts.
Score(signs) == MapThenSumSet(LAMBDA s : s[2], {s \in signs : s[1]})
Numbered(b) == Begins(b[1], Sections \cup Bullets)
GapAbove(b, before) == IF before = <<>> THEN Top(b[1]) ELSE Top(b[1]) - BlockBox(before)[4] - 1
GapBelow(b, after) == IF after = <<>> THEN 1 ELSE Top(after[1]) - BlockBox(b)[4] - 1
Centred(b) == 100 * Bigger(BlockBox(b)[1] + BlockBox(b)[3] - PageWidth,
                           PageWidth - BlockBox(b)[1] - BlockBox(b)[3]) < 16 * PageWidth
HeadingScore(b, before, after) ==
    Score({<<Numbered(b), 35>>, <<\A l \in DOMAIN b : IsBig(b[l]), 16>>,
           <<GapAbove(b, before) > 0 \/ GapBelow(b, after) > 0, 14>>,
           <<~Ends(Last(b), Stops), 10>>, <<Centred(b), 5>>})
TypeOf(b, before, after) ==
    IF HeadingScore(b, before, after) >= 48 THEN "heading"
    ELSE IF ListLine(b[1]) THEN "list-item"
    ELSE IF CaptionLine(b[1]) THEN "caption" ELSE "paragraph"

\* A block without the lines the page's table took is a table of its own, or text.
Taken == UNION {tables[t].lines : t \in DOMAIN tables}
EntryOf(k) ==
    LET b == blocks[k]
        rest == SelectSeq(b, LAMBDA l : l \notin Taken)
    IN  [rows |-> IF rest = b THEN BlockTable(b) ELSE <<>>, lines |-> rest,
         type |-> TypeOf(b, IF k = 1 THEN <<>> ELSE blocks[k - 1],
                            IF k = Len(blocks) THEN <<>> ELSE blocks[k + 1])]
ReadEntries ==
    /\ stage = "entries"
    /\ entries' = SelectSeq([k \in DOMAIN blocks |-> EntryOf(k)], LAMBDA e : e.lines # <<>>)
    /\ stage' = "scan"
    /\ UNCHANGED <<page, handles, blocks, pictures, tables>> /\ UNCHANGED layers

\* tableMarkdownForVisual: the words recognised in a picture may be a table.
ReadScan ==
    /\ stage = "scan"
    /\ LET rows == ScanTable(page.scan)
       IN  tables' = IF rows = <<>> THEN tables ELSE Append(tables, [NoTable EXCEPT !.rows = rows])
    /\ stage' = "done"
    /\ UNCHANGED <<page, handles, blocks, pictures, entries>> /\ UNCHANGED layers

Done == stage = "done" /\ UNCHANGED vars

Next ==
    \/ Open \/ EndLine \/ EndTextBlock \/ OnImageBlock \/ Recover \/ ReplayBlock \/ ReplayImages
    \/ Finalize \/ ReadBlock \/ ReadPage \/ FindTable \/ ReadEntries \/ ReadScan \/ Done

Spec == Init /\ [][Next]_vars
-----------------------------------------------------------------------------
(* Properties *)

\* Type invariant; the layers are empty until they are called and a handle is never lost
\* from the books of the worker.
LayoutInv ==
    /\ page \in PageContents /\ known.json \in BOOLEAN /\ at \in 0 .. Len(Callbacks)
    /\ handles \in [DOMAIN page.images -> {"native", "kept", "passed", "destroyed", "given"}]
    /\ stage \in {"open", "walk", "replay", "finalize", "read", "layout", "entries", "scan", "done"}
    /\ stage \in {"open", "walk"} => captured = <<>> /\ blocks = <<>> /\ pictures = <<>>
    /\ \A b \in DOMAIN blocks : blocks[b] # <<>> /\ \A l \in DOMAIN blocks[b] : blocks[b][l] # <<>>

PlacesIn(words) == {<<words[i].word, words[i].row, words[i].x0>> : i \in DOMAIN words}
HasRead == stage \in {"layout", "entries", "scan", "done"}
Native == WordsIn(page.native)
TookJson == Native = <<>> \/ PreferJson
Source == IF ~TookJson THEN Native
          ELSE IF JsonBlocks # <<>> THEN WordsIn(page.json) ELSE WordsIn(PlainBlocks)

\* Capturing, splitting, cutting, merging and replaying lose no word of the page and read none
\* twice, be it drawn twice, collapsed into one line, or told by the JSON only.
TextArrives ==
    HasRead => /\ PlacesIn(WordsIn(blocks)) = PlacesIn(Source)
               /\ Len(WordsIn(blocks)) = Cardinality(PlacesIn(Source))

\* The JSON replaces the walk only when it tells no less.
JsonTellsAll == HasRead /\ PreferJson => Range(Spelled(Native)) \subseteq Range(Spelled(WordsIn(blocks)))

\* Lines that the engine collapsed are told apart again: words of two rows share a line
\* only when each row is a heading, as one that was wrapped is.
LinesAreRows ==
    HasRead => \A b \in DOMAIN blocks : \A l \in DOMAIN blocks[b] :
        LET line == blocks[b][l]
            Row(r) == SelectSeq(line, LAMBDA w : w.row = r)
        IN  \/ Top(line) = Bottom(line)
            \/ \A i \in DOMAIN line : HeadingText(Row(line[i].row)) \/ StructuralLine(Row(line[i].row))

\* Lines of the engine's plain text arrive as lines: "uses MuPDF plain text as a final
\* structured-text fallback" expects them apart (extract-worker.test.js:406-408). The code
\* does not have this property, as coalesceStructuredBlocks takes lines with one box for one:
\* see "Divergences" in the README.
PlainLinesStayLines ==
    HasRead /\ Native = <<>> /\ JsonBlocks = <<>> =>
        \A k \in DOMAIN page.plain : \E b \in DOMAIN blocks : \E l \in DOMAIN blocks[b] :
            Spelled(blocks[b][l]) = Spelled(page.plain[k])

\* When the page is read every native image is destroyed or in the reader's hands, and
\* not before the walk that captured it has ended.
HandlesSettled ==
    /\ HasRead => \A i \in DOMAIN handles : handles[i] \in {"destroyed", "given"}
    /\ \A i \in DOMAIN handles : handles[i] \in {"destroyed", "passed", "given"} => at = Len(Callbacks)
    /\ \A i \in DOMAIN handles : handles[i] = "given" => page.images[i] \in Range(pictures)

\* If the JSON could be read, a picture covers each native image, or lies in it.
PicturesReachReader ==
    HasRead /\ known.json =>
        \A i \in DOMAIN page.images : \E k \in DOMAIN pictures :
            Inside(page.images[i], pictures[k]) \/ Inside(pictures[k], page.images[i])

\* Images one below the other stay pictures of their own, and no region is cropped twice.
PicturesAreApart ==
    HasRead => \A k \in DOMAIN pictures :
        /\ \A j \in DOMAIN pictures \ {k} : known.json => ~Inside(pictures[j], pictures[k])
        /\ \A i, j \in DOMAIN page.images :
              /\ page.images[i][4] <= page.images[j][2]
              /\ page.images[i] # pictures[k] /\ page.images[j] # pictures[k]
              => ~(Inside(page.images[i], pictures[k]) /\ Inside(page.images[j], pictures[k]))

\* Headings and captions are blocks of their own: text is not swallowed by the heading above it.
HeadingsStandAlone ==
    HasRead => \A b \in DOMAIN blocks : \A l \in DOMAIN blocks[b] :
        HeadingText(blocks[b][l]) /\ Len(blocks[b]) > 1 /\ ~TookJson =>
            \/ CellCount(blocks[b][l]) > 1
            \/ Len(blocks[b]) = 2

\* Three lines of equal cells between lines of text in one native block end up in one table,
\* when no blank characters fill the gaps (splitting looks over blanks, tableFor does not).
RowsBecomeTables ==
    stage = "done" /\ ~TookJson =>
        \A b \in DOMAIN page.native : \A l \in 1 .. Len(page.native[b]) - 2 :
            LET rows == SubSeq(page.native[b], l, l + 2)
            IN  (\A r \in 1 .. 3 : CellCount(rows[r]) = CellCount(rows[1]) /\ CellCount(rows[1]) > 1
                                   /\ Top(rows[r]) = Bottom(rows[r]) /\ ~HeadingText(rows[r])
                                   /\ TableStarts(rows[r]) = CellStarts(rows[r]))
                /\ (\A k \in DOMAIN page.native[b] : k \in l .. l + 2 \/ CellCount(page.native[b][k]) = 1)
                => \E e \in DOMAIN entries : Len(entries[e].rows) >= 3 /\
                       PlacesIn(FlattenSeq(rows)) \subseteq PlacesIn(FlattenSeq(entries[e].lines))

TableWords(rows) == FlattenSeq(FlattenSeq(rows))
EntryWords(e) == IF e.rows # <<>> THEN TableWords(e.rows) ELSE FlattenSeq(e.lines)
\* A line of one cell does not count as a row of its block's table.
LeftOut(e) == IF e.rows = <<>> THEN {}
              ELSE PlacesIn(FlattenSeq(SelectSeq(e.lines, LAMBDA l : Len(CellsOf(l)) = 1)))
TablesOfText == SelectSeq(tables, LAMBDA t : t.lines # {})

\* Every word of the page is in one table or one entry, but for the lines a block's table leaves out.
TextIsInOnePlace ==
    stage \in {"scan", "done"} =>
        LET inTables == FlattenSeq([t \in DOMAIN TablesOfText |-> TableWords(TablesOfText[t].rows)])
            inEntries == FlattenSeq([e \in DOMAIN entries |-> EntryWords(entries[e])])
            out == UNION {LeftOut(entries[e]) : e \in DOMAIN entries}
        IN  /\ PlacesIn(inTables \o inEntries) \cup out = PlacesIn(WordsIn(blocks))
            /\ Len(inTables \o inEntries) = Cardinality(PlacesIn(WordsIn(blocks)) \ out)

\* A block becomes a table only as a whole: its table must not be made by "either dropping
\* source cells or inventing empty ones" (extract-worker.js:149-152). The code does not have
\* this property, as the lines of one cell are dropped before the rows are compared: see
\* "Divergences" in the README.
TablesKeepTheirBlocks == \A e \in DOMAIN entries : LeftOut(entries[e]) = {}

\* In a table whatever stands in a later row stands lower, whatever stands in a later
\* column of any row stands further right, and every row has as many cells.
TablesFollowThePage ==
    \A t \in DOMAIN tables : LET rows == tables[t].rows IN
        \A r, q \in DOMAIN rows : \A c \in DOMAIN rows[r], d \in DOMAIN rows[q] :
            /\ Len(rows[r]) = Len(rows[q])
            /\ \A i \in DOMAIN rows[r][c], j \in DOMAIN rows[q][d] :
                  /\ r < q => rows[r][c][i].row < rows[q][d][j].row
                  /\ c < d => rows[r][c][i].x0 < rows[q][d][j].x0

\* The rows of a block's table agree, however the cells were found.
BlockTablesAreEven ==
    \A e \in DOMAIN entries : \A r, q \in DOMAIN entries[e].rows :
        Len(entries[e].rows[r]) = Len(entries[e].rows[q])

\* Text in the type of the body that ends as a sentence does is not promoted to a heading,
\* wherever it stands on the page.
SentencesAreNoHeadings ==
    \A e \in DOMAIN entries :
        /\ Ends(Last(entries[e].lines), Stops) /\ ~Numbered(entries[e].lines)
        /\ \E l \in DOMAIN entries[e].lines : ~IsBig(entries[e].lines[l])
        => entries[e].type # "heading"

\* The text the engine knows arrives at the reader once, whichever layer tells it, cut
\* where the page cuts it.
NativeTextArrives ==
    /\ LayoutInv
    /\ TextArrives
    /\ JsonTellsAll
    /\ LinesAreRows
    /\ HeadingsStandAlone
    /\ SentencesAreNoHeadings

\* Every native image is passed on or destroyed once, and what the page shows as a
\* picture is in a box of its own.
PicturesArrive == HandlesSettled /\ PicturesReachReader /\ PicturesAreApart

\* A table holds the lines of its place on the page, in its rows and columns, and
\* nothing is both in it and in the text.
TablesAreTrue ==
    /\ RowsBecomeTables
    /\ TextIsInOnePlace
    /\ TablesFollowThePage
    /\ BlockTablesAreEven

\* What structured-recovery.test.js asks of a table of contents: each entry is an item of its own.
\* The code does not have this property: see "Divergences" in the README.
ContentsAreListed ==
    HasRead => \A b \in DOMAIN page.native :
        IsTocPage(page.native[b]) =>
            \A l \in DOMAIN page.native[b] :
                TocEntry(page.native[b][l]) =>
                    \E k \in DOMAIN blocks : BlockText(blocks[k]) = Spelled(page.native[b][l])
=============================================================================

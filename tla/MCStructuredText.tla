-------------------------- MODULE MCStructuredText --------------------------
EXTENDS StructuredText

\* A word of the given width at a row and a left edge, in body type or larger.
At(word, row, x, width) == [word |-> word, row |-> row, x0 |-> x, x1 |-> x + width, big |-> FALSE, glued |-> FALSE]
Large(word, row, x, width) == [At(word, row, x, width) EXCEPT !.big = TRUE]
Sure(word, row, x, width) == [word |-> word, row |-> row, x0 |-> x, x1 |-> x + width, big |-> FALSE,
                              glued |-> FALSE, sure |-> TRUE]
Line3(row, a, b, c) == <<At(a, row, 0, 20), At(b, row, 22, 20), At(c, row, 44, 36)>>
\* Two cells, with nothing or with a blank character between them.
CellsAt(row, a, b) == <<At(a, row, 4, 10), [At(b, row, 44, 10) EXCEPT !.glued = TRUE]>>
BlankCells(row, a, b) == <<At(a, row, 4, 10), At(b, row, 44, 10)>>
Lower(b, n) == [l \in DOMAIN b |-> [i \in DOMAIN b[l] |-> [b[l][i] EXCEPT !.row = @ + n]]]
NoRules == [across |-> {}, down |-> {}]
Page(name, text, json) == [name |-> name, native |-> text, json |-> json, plain |-> <<>>,
                           images |-> <<>>, rules |-> NoRules, scan |-> <<>>]

\* A heading, two paragraphs told apart by a short last line, a caption.
Prose1 == << <<Large("Methods", 1, 0, 20), Large("Title", 1, 22, 20)>>,
             <<At("a", 2, 0, 38), At("b", 2, 40, 40)>>, <<At("c", 3, 0, 20), At("end.", 3, 22, 10)>>,
             <<At("d", 4, 0, 38), At("e", 4, 40, 40)>>, <<At("f.", 5, 0, 60)>>,
             <<At("Figure", 7, 0, 14), At("g", 7, 16, 20)>> >>
\* Prose around three rows of cells.
Rows3 == << <<At("a", 1, 0, 70)>>, CellsAt(2, "k", "1"), CellsAt(3, "l", "2"), CellsAt(4, "m", "n"),
            <<At("b", 5, 0, 60), At("end.", 5, 61, 10)>> >>
Blank3 == << <<At("a", 1, 0, 70)>>, BlankCells(2, "k", "1"), BlankCells(3, "l", "2"), BlankCells(4, "m", "n") >>
\* Two rows, a line of one cell, a third row: no range of rows, but one paragraph.
Rows2 == << CellsAt(2, "k", "1"), CellsAt(3, "l", "2"), <<At("o", 4, 4, 70)>>, CellsAt(5, "m", "n") >>
Uneven == SubSeq(Rows3, 2, 4) \o << <<At("p", 5, 4, 10), [At("q", 5, 44, 10) EXCEPT !.glued = TRUE],
                                   [At("r", 5, 66, 10) EXCEPT !.glued = TRUE]>> >>
\* A line into which the engine has put three rows.
Collapsed == << << At("a", 1, 0, 60), At("d", 3, 0, 30), At("b", 2, 0, 30), At("c", 2, 32, 30) >> >>
\* The whole page in one row, while the JSON knows the lines.
Flattened == << <<Large("Title", 1, 0, 10), At("a", 1, 12, 10), At("Figure", 1, 24, 10), At("b", 1, 36, 10)>> >>
FlattenedJson == << <<Large("Title", 1, 0, 20)>>, <<At("a", 2, 0, 40)>>, <<At("Figure", 3, 0, 14)>>,
                    <<At("b", 4, 0, 40)>> >>
\* One line that holds a title, text and a caption.
OneLine == << <<Large("Methods", 1, 0, 10), Large("Title", 1, 12, 10), At("a", 1, 24, 10),
                At("Figure", 1, 36, 10), At("b", 1, 48, 10)>> >>
\* A block drawn twice, and a word that continues a line of the block before.
Overlaid == << <<At("a", 1, 0, 20)>> >>
Adjoining == << <<At("b", 1, 22, 20)>>, <<At("a", 2, 0, 20)>> >>
\* A list, and a section number on a line of its own above its title.
Listed == << <<At("-", 1, 0, 2), At("a", 1, 4, 30)>>, <<At("b", 2, 4, 70)>>, <<At("-", 3, 0, 2), At("c", 3, 4, 60)>>,
             <<At("1.1", 5, 0, 8)>>, <<At("Title", 6, 0, 30)>>, <<At("d", 7, 0, 40), At("end.", 7, 42, 10)>> >>
Toc == << <<Large("Contents", 1, 0, 20)>>, Line3(2, "1.1", "a", "7"), Line3(3, "1.2", "b", "9") >>
Wrapped == << <<Large("Methods", 1, 0, 40)>>, <<Large("Title", 2, 0, 30)>>, <<At("a", 3, 0, 70)>> >>

Chapter == << <<At("Chapter", 1, 0, 20), At("a", 1, 22, 10)>>, <<At("b", 2, 0, 70)>> >>
\* What the engine tells without geometry.
PlainText == << <<At("Contents", 1, 0, 20)>>, <<At("a", 2, 0, 20), At("b", 2, 22, 20)>>, <<At("end.", 3, 0, 10)>> >>

\* A grid of four rules and one between the columns; a line below it stays text.
GridRules == [across |-> {[y |-> y, x0 |-> 0, x1 |-> 80] : y \in {1, 3, 5, 7}},
              down |-> {[x |-> 40, top |-> 1, bottom |-> 7]}]
\* The outermost rules are missing, the vertical ones reach beyond.
OpenRules == [across |-> {[y |-> y, x0 |-> 0, x1 |-> 80] : y \in {3, 5, 7}} \cup {[y |-> 13, x0 |-> 60, x1 |-> 80]},
              down |-> {[x |-> 40, top |-> 1, bottom |-> 8], [x |-> 60, top |-> 3, bottom |-> 4]}]
One(word, row, x) == << <<At(word, row, x, 10)>> >>
GridText == << One("a", 1, 4), One("b", 1, 44), One("c", 2, 4), One("d", 2, 44), One("e", 3, 4),
               One("f", 3, 44), << <<At("g", 4, 0, 38), At("h", 4, 39, 30)>> >> >>
CrossText == << << <<At("a", 1, 4, 60)>> >>, One("c", 2, 4), One("d", 2, 44), One("e", 3, 4), One("f", 3, 44) >>
ColumnText == << One("a", 1, 4), One("b", 1, 44), One("c", 2, 5), One("d", 2, 44), One("o", 3, 4),
                 One("e", 4, 4), One("f", 4, 46), One("p", 6, 4) >>
ScanWords == << <<Sure("a", 1, 4, 10), Sure("b", 1, 44, 10)>>, <<Sure("d", 2, 44, 10), Sure("c", 2, 4, 10)>>,
                <<Sure("e", 3, 4, 10), Sure("f", 3, 45, 10)>>, <<Sure("g", 4, 5, 10), Sure("h", 4, 44, 10)>>,
                <<Sure("p", 5, 50, 4), Sure("q", 5, 66, 4)>>,
                <<Sure("i", 6, 4, 10), Sure("j", 6, 44, 10)>>,
                <<[Sure("z", 7, 4, 10) EXCEPT !.sure = FALSE], Sure("y", 7, 44, 10)>> >>
AlignedScan == SelectSeq(ScanWords, LAMBDA l : l[1].word # "p")

\* Two fragments of a formula, a photograph below them; a drawing inside of another.
Stacked == << <<0, 0, 10, 4>>, <<12, 0, 20, 4>>, <<0, 10, 20, 30>>, <<0, 30, 20, 50>> >>
Nested == << <<10, 10, 90, 50>>, <<20, 20, 30, 30>> >>

MCContents == {
    Page("prose", <<Prose1>>, <<Prose1>>),
    Page("rows", <<Rows3>>, <<>>),
    Page("blanks", <<Blank3>>, <<>>),
    Page("chapter", <<Chapter>>, <<>>),
    Page("broken", <<Rows2>>, <<>>),
    Page("uneven", <<Uneven>>, <<>>),
    Page("collapsed", <<Collapsed>>, <<>>),
    Page("flattened", <<Flattened>>, <<FlattenedJson>>),
    Page("one line", <<OneLine>>, <<OneLine>>),
    Page("overlaid", <<Overlaid, Overlaid, Adjoining>>, <<>>),
    Page("listed", <<Listed>>, <<Listed>>),
    Page("contents", <<Toc>>, <<Toc>>),
    Page("wrapped", <<Wrapped>>, <<>>),
    [Page("silent", <<>>, <<Prose1, Lower(Listed, 10)>>) EXCEPT !.plain = Prose1],
    Page("silent contents", <<>>, <<Toc>>),
    [Page("plain", <<>>, <<>>) EXCEPT !.plain = Overlaid, !.images = Nested],
    [Page("plain lines", <<>>, <<>>) EXCEPT !.plain = PlainText],
    [Page("nested", <<>>, <<>>) EXCEPT !.images = <<Nested[2], Nested[1]>>],
    [Page("pictures", <<Overlaid>>, <<>>) EXCEPT !.images = Stacked, !.scan = ScanWords],
    [Page("scan", <<>>, <<>>) EXCEPT !.images = <<Nested[1]>>, !.scan = AlignedScan],
    [Page("grid", GridText, <<>>) EXCEPT !.rules = GridRules],
    [Page("open grid", GridText, <<>>) EXCEPT !.rules = OpenRules],
    [Page("crossed", CrossText, <<>>) EXCEPT !.rules = GridRules],
    Page("columns", ColumnText, <<>>)
}
=============================================================================

-------------------------- MODULE StructuredLines --------------------------
(* The geometry of a page's native text: structured-lines.js merges spans of *)
(* one visual line and drops blocks drawn twice, structured-recovery.js       *)
(* splits lines that the engine collapsed and cuts blocks into headings,      *)
(* lists, tables and paragraphs, structured-fidelity-finalizer.js does so     *)
(* once more with its own idea of a heading.                                  *)
(* A word is [word, row, x0, x1, big, glued]: where it stands, whether its    *)
(* type is larger than the body's, and whether no blank character stands      *)
(* between it and the word before. Rows are baselines of the page; widths are in quarters of the *)
(* body size. A line is the sequence of its words, a block that of its lines. *)
EXTENDS Integers, FiniteSetsExt, SequencesExt

CONSTANTS
    Titles,     \* words with a capital letter, or small ones a title may hold
    Sections,   \* section numbers: 2.3
    Bullets,    \* marks that begin an item of a list
    Captions,   \* Figure 1, Table 2
    Openers,    \* Chapter 2, Theorem 3: headings by their first word
    Fronts,     \* Contents, References: headings when nothing else is on the line
    Contents,   \* those of them that begin a table of contents
    Numbers,    \* page numbers
    Stops       \* words that end with a full stop

ASSUME StructuredWordsAssumption ==
    /\ Contents \subseteq Fronts
    /\ Sections \cap Bullets = {}
    /\ Stops \cap (Titles \cup Numbers) = {}

Near == 3           \* widest gap within a visual line
Back == 2           \* how far to the left of its predecessor a span may begin
CellGap == 6        \* narrowest gap between two cells
Indent == 3         \* an indented first line
Short == 8          \* what a short line leaves free at the right margin
TocShare == 38      \* hundredths of the lines of a table of contents
TableRows == 3
MaxColumns == 8
MaxHeading == 12    \* words that merged headings may have

Left(line) == Min({line[i].x0 : i \in DOMAIN line})
Right(line) == Max({line[i].x1 : i \in DOMAIN line})
Top(line) == Min({line[i].row : i \in DOMAIN line})
Bottom(line) == Max({line[i].row : i \in DOMAIN line})
Spelled(line) == [i \in DOMAIN line |-> line[i].word]
LinesIn(blocks) == FlattenSeq(blocks)
WordsIn(blocks) == FlattenSeq(LinesIn(blocks))
Bigger(a, b) == IF a > b THEN a ELSE b
Lesser(a, b) == IF a < b THEN a ELSE b
Ascending(S) == IF S = {} THEN <<>>
                ELSE SelectSeq([i \in 1 .. Max(S) - Min(S) + 1 |-> Min(S) + i - 1], LAMBDA n : n \in S)

-----------------------------------------------------------------------------
(* Visual lines: structured-lines.js *)

GapBetween(a, b) == Bigger(0, Bigger(Left(a), Left(b)) - Lesser(Right(a), Right(b)))
RowsMeet(a, b) == Top(a) <= Bottom(b) /\ Top(b) <= Bottom(a)
SameVisualLine(a, b) ==
    /\ Left(b) + Back >= Left(a)
    /\ RowsMeet(a, b) /\ GapBetween(a, b) <= Near

\* The characters of the two are put one after the other: no space comes between them.
MergeLines(a, b) == a \o [b EXCEPT ![1].glued = TRUE]

\* Each element is merged with the one before it when the two belong together.
JoinAdjacent(s, Together(_, _), Merge(_, _)) ==
    LET Step(done, e) == IF done # <<>> /\ Together(Last(done), e)
                         THEN Append(Front(done), Merge(Last(done), e))
                         ELSE Append(done, e)
    IN  FoldLeft(Step, <<>>, s)

CoalesceLines(lines) == JoinAdjacent(lines, SameVisualLine, MergeLines)

BlockBox(block) == <<Min({Left(block[i]) : i \in DOMAIN block}), Min({Top(block[i]) : i \in DOMAIN block}),
                     Max({Right(block[i]) : i \in DOMAIN block}), Max({Bottom(block[i]) : i \in DOMAIN block})>>
BlockText(block) == Spelled(FlattenSeq(block))
DrawnTwice(a, b) == BlockText(a) = BlockText(b) /\ BlockBox(a) = BlockBox(b)
\* Of blocks with one text at one place the first stays.
DedupeBlocks(blocks) ==
    LET Step(done, b) == LET block == CoalesceLines(b)
                         IN  IF \E i \in DOMAIN done : DrawnTwice(done[i], block)
                             THEN done ELSE Append(done, block)
    IN  FoldLeft(Step, <<>>, blocks)

ShareLine(a, b) == \E i \in DOMAIN a, j \in DOMAIN b : SameVisualLine(a[i], b[j])
MergeBlocks(a, b) == CoalesceLines(a \o b)
CoalesceBlocks(blocks) == JoinAdjacent(DedupeBlocks(blocks), ShareLine, MergeBlocks)

-----------------------------------------------------------------------------
(* Lines the engine collapsed: splitCollapsedNativeLine *)

ByPlace(a, b) == a.x0 < b.x0
OnRow(line, r) == SortSeq(SelectSeq(line, LAMBDA w : w.row = r), ByPlace)
RowsOf(line) == Ascending({line[i].row : i \in DOMAIN line})
SplitCollapsed(line) ==
    IF Cardinality({line[i].row : i \in DOMAIN line}) <= 1 THEN <<line>>
    ELSE LET rows == RowsOf(line) IN [k \in DOMAIN rows |-> OnRow(line, rows[k])]

-----------------------------------------------------------------------------
(* What a line is, by its words *)

Begins(line, words) == line[1].word \in words
Ends(line, words) == Last(line).word \in words
IsBig(line) == \A i \in DOMAIN line : line[i].big
TitleLike(line) == \A i \in DOMAIN line : line[i].word \in Titles
FrontMatter(line) == Len(line) = 1 /\ Begins(line, Fronts)
HeadingText(line) ==
    \/ Begins(line, Openers) \/ FrontMatter(line)
    \/ Begins(line, Sections) /\ Len(line) > 1
    \/ TitleLike(line) /\ IsBig(line)
ListLine(line) == Begins(line, Bullets)
CaptionLine(line) == Begins(line, Captions)
TocEntry(line) == Ends(line, Numbers) /\ Begins(line, Sections \cup Bullets)
TocTitle(line) == Begins(line, Contents) /\ (Len(line) = 1 \/ (Len(line) = 2 /\ Ends(line, Numbers)))
IsTocPage(lines) ==
    \/ \E i \in DOMAIN lines : i <= 8 /\ TocTitle(lines[i])
    \/ /\ Len(lines) >= 8
       /\ 100 * Cardinality({i \in DOMAIN lines : TocEntry(lines[i])}) >= TocShare * Len(lines)

\* Adjacent headings are one heading that was wrapped.
HeadingsMeet(Heading(_), a, b) == /\ Heading(a) /\ Heading(b) /\ ~Ends(a, Stops)
                                  /\ Len(a) + Len(b) <= MaxHeading
JoinHeadings(lines, Heading(_)) ==
    JoinAdjacent(lines, LAMBDA a, b : HeadingsMeet(Heading, a, b), MergeLines)

\* Positions at which a new cell begins, whatever blanks are in the gaps.
CellStarts(line) == {1} \cup {i \in 2 .. Len(line) : line[i].x0 - line[i - 1].x1 > CellGap}
CellCount(line) == Cardinality(CellStarts(line))
MedianOf(s) == SortSeq(s, <)[(Len(s) \div 2) + 1]

\* Whether the lines from i to j are the rows of a table.
IsTableRange(lines, i, j) ==
    LET counts == [k \in 1 .. j - i + 1 |-> CellCount(lines[i + k - 1])]
        alike == {k \in DOMAIN counts : counts[k] = MedianOf(counts)}
    IN  /\ j - i + 1 >= TableRows /\ MedianOf(counts) \in 2 .. MaxColumns
        /\ 4 * Cardinality(alike) >= 3 * Len(counts)
MaximalRun(lines, i, j) ==
    /\ \A k \in i .. j : CellCount(lines[k]) >= 2
    /\ i = 1 \/ CellCount(lines[i - 1]) < 2
    /\ j = Len(lines) \/ CellCount(lines[j + 1]) < 2
TableRanges(lines) == {<<i, j>> \in (DOMAIN lines) \X (DOMAIN lines) :
                          i <= j /\ MaximalRun(lines, i, j) /\ IsTableRange(lines, i, j)}

\* A paragraph ends at a gap, before an indented line, or after a short last line.
ParagraphBoundary(lines, i) ==
    LET prev == lines[i - 1]
        line == lines[i]
        left == Min({Left(lines[k]) : k \in DOMAIN lines})
        right == Max({Right(lines[k]) : k \in DOMAIN lines})
        short == Right(prev) < right - Short
    IN  /\ i > 1
        /\ \/ Top(line) - Bottom(prev) > 1
           \/ Left(line) - left > Indent /\ Left(prev) - left < 2 /\ short
           \/ short /\ Ends(prev, Stops) /\ Left(line) - left <= 2

-----------------------------------------------------------------------------
(* Blocks cut into headings, items, tables and paragraphs *)

\* Lines are read one by one into the body; "done" holds the blocks that are closed.
Flush(st) == IF st.body = <<>> THEN st ELSE [st EXCEPT !.done = Append(@, st.body), !.body = <<>>]
Alone(st, lines, upto) ==
    [Flush(st) EXCEPT !.done = Append(@, lines), !.next = upto + 1]
Into(st, line) == [st EXCEPT !.body = Append(@, line), !.next = @ + 1]
Started(st) == st.body # <<>> /\ ListLine(st.body[1])

CutLine(lines, i, st, tables) ==
    LET line == lines[i]
        table == {r \in tables : r[1] = i}
        pure == Len(line) = 1 /\ Begins(line, Sections)
    IN  IF i # st.next THEN st
        ELSE IF table # {} THEN LET r == CHOOSE r \in table : TRUE
                                IN  Alone(st, SubSeq(lines, r[1], r[2]), r[2])
        ELSE IF /\ pure /\ tables # {<<0, 0>>} /\ i < Len(lines)
                /\ TitleLike(lines[i + 1]) \/ HeadingText(lines[i + 1])
             THEN Alone(st, <<line, lines[i + 1]>>, i + 1)
        ELSE IF HeadingText(line) \/ CaptionLine(line) THEN Alone(st, <<line>>, i)
        ELSE IF ListLine(line) \/ Started(st) \/ ParagraphBoundary(lines, i)
             THEN Into(Flush(st), line)
        ELSE Into(st, line)

\* The JSON text has no characters to find cells with, and numbers are not paired with titles.
NoTables == {<<0, 0>>}
Cut(lines, tables) ==
    Flush(FoldLeft(LAMBDA st, i : CutLine(lines, i, st, tables),
                   [done |-> <<>>, body |-> <<>>, next |-> 1],
                   [i \in DOMAIN lines |-> i])).done

\* Mutant: blocks stay as the engine made them.
SegmentWhole(block, native) == <<JoinHeadings(block, HeadingText)>>
SegmentBlock(block, native) ==
    LET lines == JoinHeadings(block, HeadingText)
    IN  IF native /\ Len(lines) <= 1 THEN <<lines>>
        ELSE IF IsTocPage(lines) THEN [i \in DOMAIN lines |-> <<lines[i]>>]
        ELSE Cut(lines, IF native THEN TableRanges(lines) ELSE NoTables)

Segment(blocks, native) ==
    FlattenSeq([k \in DOMAIN CoalesceBlocks(blocks) |-> SegmentBlock(CoalesceBlocks(blocks)[k], native)])

-----------------------------------------------------------------------------
(* The finalizer's blocks: structured-fidelity-finalizer.js *)

StructuralLine(line) ==
    \/ CaptionLine(line) \/ Begins(line, Openers) \/ FrontMatter(line)
    \/ Begins(line, Sections) /\ Len(line) > 1
    \/ TitleLike(line) /\ IsBig(line)

Structural(block) ==
    LET Step(st, line) == IF StructuralLine(line) THEN Alone(st, <<line>>, 0)
                          ELSE Into(st, line)
    IN  Flush(FoldLeft(Step, [done |-> <<>>, body |-> <<>>, next |-> 0],
                       JoinHeadings(block, StructuralLine))).done
NormalizedJson(blocks) ==
    FlattenSeq([k \in DOMAIN CoalesceBlocks(blocks) |-> Structural(CoalesceBlocks(blocks)[k])])

SplitCapturedLine(line) ==
    LET small == {i \in DOMAIN line : ~line[i].big}
        first == IF small = {} THEN Len(line) + 1 ELSE Min(small)
        title == SubSeq(line, 1, first - 1)
        hasTitle == title # <<>> /\ TitleLike(title)
        rest == IF hasTitle THEN SubSeq(line, first, Len(line)) ELSE line
        marks == {i \in DOMAIN rest : rest[i].word \in Captions}
        at == IF marks = {} THEN Len(rest) + 1 ELSE Max(marks)
        parts == <<IF hasTitle THEN title ELSE <<>>, SubSeq(rest, 1, at - 1),
                   SubSeq(rest, at, Len(rest))>>
    IN  SelectSeq(parts, LAMBDA p : p # <<>>)
SplitCapturedCollapsed(blocks) ==
    IF Len(blocks) # 1 \/ Len(blocks[1]) # 1 THEN blocks
    ELSE LET parts == SplitCapturedLine(blocks[1][1]) IN [k \in DOMAIN parts |-> <<parts[k]>>]
=============================================================================

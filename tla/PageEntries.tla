---------------------------- MODULE PageEntries ----------------------------
(* What the extraction worker does with the entries it has read from a     *)
(* page: extract-worker.js orders them (orderPageEntries, on layout-layer.js),*)
(* merges wrapped headings, drawings made of characters and source code into *)
(* one entry each, drops repeated formulas, and hands the result to          *)
(* document-ir.js as typed blocks whose captions are linked.                 *)
(* An entry is its kind, its heading level (0: none), the type the layout     *)
(* analysis gave it, its place and its lines. A word is a record: the word,   *)
(* and where it comes from, which tells two readings of a word apart. The     *)
(* code's tests of a text are tests of its words: CONSTANTS say which words   *)
(* are capitalised, all capitals, numbers, strokes of a drawing or signs.     *)
(* Distances are in lines of body text.                                       *)
EXTENDS Integers, FiniteSetsExt, SequencesExt

CONSTANTS
    Capitals,   \* words that begin with a capital letter
    Acronyms,   \* those of them that have no other letters
    Numbers,    \* page numbers
    Strokes,    \* words made of |, +, - and _
    Signs,      \* relation signs, the = of an assignment among them
    Stops,      \* words that end a sentence
    Hashes      \* the marks of headings, from # to ######, each with its level

ASSUME WordsAssumption ==
    /\ Acronyms \subseteq Capitals
    /\ Capitals \cap (Numbers \cup Strokes \cup Signs \cup Stops) = {}
    /\ Hashes \in [DOMAIN Hashes -> 1 .. 6]

HeadingGap == 3
DiagramGap == 4
CodeGap == 3
EquationGap == 3
CaptionGap == 4
TitleDepth == 8     \* entries at the top of a page searched for a repeated title
TitleReach == 3     \* how far below it the heading may be

Words(line) == [i \in DOMAIN line |-> line[i].word]
WordSet(line) == {line[i].word : i \in DOMAIN line}
Smaller(a, b) == IF a < b THEN a ELSE b
Apart(a, b) == IF a.y < b.y THEN b.y - a.y ELSE a.y - b.y

\* The text of an entry and whether two entries have the same one.
Says(e) == [i \in DOMAIN e.lines |-> Words(e.lines[i])]
IsText(e) == e.kind = "text"
IsEquation(e) == e.kind \in {"equation", "equation-fallback"}
IsHeading(e) == e.level > 0

-----------------------------------------------------------------------------
(* Choosing and sorting *)

\* The elements of a set, each before those it precedes in the order R.
Enumerated(set, R) ==
    [n \in 1 .. Cardinality(set) |->
        CHOOSE i \in set : Cardinality({j \in set : <<j, i>> \in R}) = n - 1]
Ascends(places) == {r \in places \X places : r[1] < r[2]}
InOrder(places) == Enumerated(places, Ascends(places))
\* What is left of a sequence, in its order.
Kept(s, places) == LET order == InOrder(places) IN [n \in DOMAIN order |-> s[order[n]]]

\* The places of entries as a stable sort orders them.
Precedence(es, places, Before(_, _)) ==
    {r \in places \X places :
        Before(es[r[1]], es[r[2]]) \/ (~Before(es[r[2]], es[r[1]]) /\ r[1] < r[2])}
Sorted(es, places, Before(_, _)) == Enumerated(places, Precedence(es, places, Before))

-----------------------------------------------------------------------------
(* Reading order *)

Narrow(es) == {i \in DOMAIN es : es[i].col # "wide"}
InColumn(es, c) == {i \in DOMAIN es : es[i].col = c}

\* A gutter is believed when enough narrow entries start on either side of it.
TwoColumns(es) ==
    /\ Cardinality(Narrow(es)) >= 4
    /\ \A c \in {"left", "right"} : Cardinality(InColumn(es, c)) >= 2

Across(c) == IF c = "right" THEN 1 ELSE 0
\* Mutant: the side is forgotten.
ByColumnHeight(a, b) == a.y < b.y
ByColumn(a, b) == \/ Across(a.col) < Across(b.col)
                  \/ Across(a.col) = Across(b.col) /\ a.y < b.y
ByHeight(a, b) == \/ a.y < b.y
                  \/ a.y = b.y /\ Across(a.col) < Across(b.col)

\* Wide entries divide a page of two columns into bands: each band is read column
\* by column before the entry below it; what stands beside a wide entry comes last.
\* The result is the sequence of the places of the entries.
OrderedByGeometry(es) ==
    LET content == {i \in DOMAIN es : es[i].kind # "source-page"}
        anchors == Sorted(es, {i \in content : es[i].col = "wide"}, ByHeight)
        Bottom(k) == es[anchors[k]].y + es[anchors[k]].h
        Above(k) == {i \in content \cap Narrow(es) : /\ k = 1 \/ es[i].y >= Bottom(k - 1)
                                                     /\ es[i].y < es[anchors[k]].y}
        banded == FlattenSeq([k \in DOMAIN anchors |->
                                 Append(Sorted(es, Above(k), ByColumn), anchors[k])])
        rest == content \ Range(banded)
    IN  (IF TwoColumns(es) THEN banded \o Sorted(es, rest, ByColumn) ELSE Sorted(es, content, ByHeight))
            \o InOrder(DOMAIN es \ content)

OrderEntries(es, flows) ==
    LET ordered == OrderedByGeometry(es)
        places == IF flows /\ Len(ordered) = Len(es) THEN ordered ELSE Sorted(es, DOMAIN es, ByHeight)
    IN  [n \in DOMAIN places |-> es[places[n]]]

-----------------------------------------------------------------------------
(* Wrapped headings and the repeated title *)

HeadingLike(line) == line # <<>> /\ WordSet(line) \subseteq Capitals
LevelOf(e) == IF IsHeading(e) THEN e.level ELSE 1

CanMerge(p, e) ==
    /\ IsText(p) /\ IsText(e) /\ Apart(p, e) <= HeadingGap
    /\ \/ /\ IsHeading(p) /\ IsHeading(e) /\ p.level = e.level
          /\ HeadingLike(p.lines[1]) /\ HeadingLike(e.lines[1])
       \/ IsHeading(p) /\ ~IsHeading(e) /\ HeadingLike(e.lines[1])
       \/ ~IsHeading(p) /\ IsHeading(e) /\ HeadingLike(p.lines[1])

\* The merged entry keeps the place and the type of the first; a line that is no
\* heading counts as one of the first level.
Merged(p, e) == [p EXCEPT !.level = Smaller(LevelOf(p), LevelOf(e)),
                          !.lines = <<p.lines[1] \o e.lines[1]>>]

Joining(done, e) ==
    IF done # <<>> /\ CanMerge(Last(done), e)
    THEN Append(Front(done), Merged(Last(done), e)) ELSE Append(done, e)
\* What the first n entries have become.
JoinWrapped(es) ==
    LET Joined[n \in 0 .. Len(es)] ==
          IF n = 0 THEN <<>> ELSE Joining(Joined[n - 1], es[n])
    IN  Joined[Len(es)]

RepeatedTitles(es) ==
    {i \in DOMAIN es : /\ i <= TitleDepth
                       /\ IsText(es[i]) /\ ~IsHeading(es[i]) /\ HeadingLike(es[i].lines[1])
                       /\ \E j \in DOMAIN es : /\ j > i /\ j <= i + TitleReach
                                               /\ IsHeading(es[j]) /\ Says(es[j]) = Says(es[i])}
DropTitle(es) == IF RepeatedTitles(es) = {} THEN es
                 ELSE Kept(es, DOMAIN es \ {Min(RepeatedTitles(es))})

MergeWrappedHeadingEntries(es) == DropTitle(JoinWrapped(es))

-----------------------------------------------------------------------------
(* Runs of entries that become one fenced block *)

\* A run of entries that fit, each within reach of the one before, becomes one block of
\* their lines if two of them are anchors.
Fenced(run, kind) == [run[1] EXCEPT !.kind = kind, !.level = 0,
                                    !.lines = FlattenSeq([k \in DOMAIN run |-> run[k].lines])]
GatherRuns(es, fits, anchors, gap, kind) ==
    LET GoesOn(k) == k - 1 \in fits /\ k \in fits /\ es[k].y - es[k - 1].y <= gap
        starts == InOrder({k \in DOMAIN es : ~GoesOn(k)})
        End(n) == IF n = Len(starts) THEN Len(es) ELSE starts[n + 1] - 1
        Gathered(run, signs) == IF Cardinality(signs) >= 2 THEN <<Fenced(run, kind)>> ELSE run
    IN  FlattenSeq([n \in DOMAIN starts |->
            Gathered(SubSeq(es, starts[n], End(n)), anchors \cap (starts[n] .. End(n)))])

\* Drawings made of strokes, with the labels between them.
DrawnLine(line) == WordSet(line) \cap Strokes # {}
\* A label may have marks of a heading before its capitals: its letters are what counts.
DiagramLabel(line) == /\ Len(line) <= 6 /\ WordSet(line) \cap Acronyms # {}
                      /\ WordSet(line) \subseteq Acronyms \cup DOMAIN Hashes
IsDrawn(e) == IsText(e) /\ DrawnLine(e.lines[1])
MayBeDrawn(e) == IsText(e) /\ (DrawnLine(e.lines[1]) \/ DiagramLabel(e.lines[1]))
\* (The code also takes a label before the run into it; one within reach is in the run already.)
MergeDiagramEntries(es) ==
    GatherRuns(es, {i \in DOMAIN es : MayBeDrawn(es[i])}, {i \in DOMAIN es : IsDrawn(es[i])},
               DiagramGap, "diagram")

\* Source code: assignments and requests are strong signals, a single word is a weak one.
CodeSignal(line) == IF line = <<>> \/ line[1].word \in Numbers \cup Strokes \cup DOMAIN Hashes THEN 0
                    ELSE IF Len(line) >= 3 /\ line[2].word \in Signs THEN 2
                    ELSE IF Len(line) = 1 THEN 1 ELSE 0
MayBeCode(e) == IsText(e) /\ CodeSignal(e.lines[1]) > 0
IsCode(e) == IsText(e) /\ CodeSignal(e.lines[1]) >= 2
MergeCodeEntries(es) ==
    GatherRuns(es, {i \in DOMAIN es : MayBeCode(es[i])}, {i \in DOMAIN es : IsCode(es[i])},
               CodeGap, "code")

\* A formula that repeats the last one of the same text nearby is dropped.
Earlier(done, e) == {k \in DOMAIN done : IsEquation(done[k]) /\ Says(done[k]) = Says(e)}
Repeats(done, e) == /\ IsEquation(e) /\ Earlier(done, e) # {}
                    /\ Apart(done[Max(Earlier(done, e))], e) <= EquationGap
Deduping(done, e) == IF Repeats(done, e) THEN done ELSE Append(done, e)
DedupeNearbyEquationEntries(es) ==
    LET Deduped[n \in 0 .. Len(es)] ==
          IF n = 0 THEN <<>> ELSE Deduping(Deduped[n - 1], es[n])
    IN  Deduped[Len(es)]

-----------------------------------------------------------------------------
(* The entries as blocks of DocumentIR *)

\* The layout's type comes before the kind: a table read from a paragraph's lines is a paragraph.
InferredType(e) ==
    CASE e.layout \in {"heading", "paragraph", "table", "equation", "caption", "footnote"} -> e.layout
      [] e.layout = "list-item" -> "list"
      [] e.kind = "table" -> "table"
      [] IsEquation(e) -> "equation"
      [] e.kind \in {"visual", "source-page", "diagram"} -> "figure"
      [] e.kind \notin {"table", "visual", "source-page", "diagram"} /\ IsHeading(e) -> "heading"
      [] OTHER -> "paragraph"

Overlap(a, b) == a.col = b.col \/ "wide" \in {a.col, b.col}
Distance(a, b) == IF a.y + a.h < b.y THEN b.y - (a.y + a.h)
                  ELSE IF b.y + b.h < a.y THEN a.y - (b.y + b.h) ELSE 0

\* A caption belongs to the nearest figure, table or formula: first of those above or
\* below it, at whatever distance, then of those beside it within reach.
CaptionTargets(es, c) ==
    {i \in DOMAIN es : /\ i # c /\ InferredType(es[i]) \in {"figure", "table", "equation"}
                       /\ Overlap(es[c], es[i]) \/ Distance(es[c], es[i]) <= CaptionGap}
Nearer(es, c, i, j) ==
    LET far(k) == IF Overlap(es[c], es[k]) THEN 0 ELSE 1
    IN  \/ far(i) < far(j)
        \/ /\ far(i) = far(j)
           /\ \/ Distance(es[c], es[i]) < Distance(es[c], es[j])
              \/ Distance(es[c], es[i]) = Distance(es[c], es[j]) /\ i < j
LinkCaptionRelationships(es) ==
    {r \in [from : DOMAIN es, to : {c \in DOMAIN es : InferredType(es[c]) = "caption"}] :
        /\ r.from \in CaptionTargets(es, r.to)
        /\ \A i \in CaptionTargets(es, r.to) \ {r.from} : Nearer(es, r.to, r.from, i)}

=============================================================================

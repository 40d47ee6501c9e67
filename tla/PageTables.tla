----------------------------- MODULE PageTables -----------------------------
(* How extract-worker.js finds tables: in the grid of rules drawn on a page  *)
(* (pageTableFromVectors), in lines that stand in columns                    *)
(* (pageTableFromBlocks), in the gaps within the lines of one block           *)
(* (tableFor), and in the words recognised on a scan (ocrTableModel).         *)
(* A rule stands at a height in half rows, so that a line of text, at twice   *)
(* its row, lies between two rules. A table is the sequence of its rows, a    *)
(* row that of its cells, a cell the sequence of its words.                   *)
EXTENDS StructuredLines

CONSTANTS
    PageWidth,  \* in quarters of the body size
    Drawing,    \* words that are strokes of a drawing
    Prose       \* words that only sentences have

ASSUME PageWidth \in Nat \ {0}

SpanSlack == 8      \* how far the ends of the rules of one grid may lie apart
StartSlack == 9     \* how far the starts of the cells of one column may lie apart
RowReach == 4       \* rows between two rows of one table
BeyondReach == 6    \* half rows that a vertical rule may reach beyond the outer rules
PageLines == 6      \* lines of text a page needs before columns are looked for
NoTable == [rows |-> <<>>, lines |-> {}, box |-> <<>>]
Within(a, b, d) == a - b <= d /\ b - a <= d
Middle(line) == (Left(line) + Right(line)) \div 2

\* Lines of text that a table may hold.
TableLines(blocks) == {l \in Range(LinesIn(blocks)) : ~Begins(l, Drawing)}
LeftToRight(ls) ==
    LET xs == Ascending({Left(l) : l \in ls})
    IN  FlattenSeq([k \in DOMAIN xs |-> SetToSeq({l \in ls : Left(l) = xs[k]})])

-----------------------------------------------------------------------------
(* The grid of rules *)

Broad(h) == 4 * (h.x1 - h.x0) >= PageWidth
\* The rules at one height are one rule.
JoinedAt(across, y) ==
    LET members == {h \in across : Broad(h) /\ h.y = y}
    IN  [y |-> y, x0 |-> Min({h.x0 : h \in members}), x1 |-> Max({h.x1 : h \in members})]
JoinedRules(across) == {JoinedAt(across, y) : y \in {h.y : h \in {g \in across : Broad(g)}}}
AlignedWith(r, rules) == {q \in rules : Within(q.x0, r.x0, SpanSlack) /\ Within(q.x1, r.x1, SpanSlack)}
\* The largest set of rules that begin and end together, the uppermost of equals.
BestRules(rules) ==
    LET size(r) == Cardinality(AlignedWith(r, rules))
        best == {r \in rules : \A q \in rules :
                    size(r) > size(q) \/ (size(r) = size(q) /\ r.y <= q.y)}
    IN  UNION {AlignedWith(r, rules) : r \in best}

Coverage(down, x) == MapThenSumSet(LAMBDA v : v.bottom - v.top, {v \in down : v.x = x})
Grid(rules) ==
    LET best == BestRules(JoinedRules(rules.across))
        left == Min({r.x0 : r \in best})
        right == Max({r.x1 : r \in best})
        first == Min({r.y : r \in best})
        last == Max({r.y : r \in best})
        down == {v \in rules.down : /\ v.x > left /\ v.x < right
                                    /\ v.bottom >= first - BeyondReach
                                    /\ v.top <= last + BeyondReach}
        inner == {x \in {v.x : v \in down} : 20 * Coverage(down, x) >= 9 * (last - first)}
        kept == {v \in down : v.x \in inner}
        above == {v.top : v \in {w \in kept : w.top < first /\ first - w.top <= BeyondReach}}
        below == {v.bottom : v \in {w \in kept : w.bottom > last /\ w.bottom - last <= BeyondReach}}
        heights == {r.y : r \in best} \cup {Min({first} \cup above), Max({last} \cup below)}
    IN  IF Cardinality(best) < 3 \/ inner = {} \/ Cardinality(heights) < 4
        THEN [xs |-> <<>>, ys |-> <<>>]
        ELSE [xs |-> Ascending({left, right} \cup inner),
              ys |-> Ascending(heights)]

\* The column of a line's middle; a line beside the grid goes to the nearest one.
ColumnOf(line, xs) ==
    LET inside == {c \in 1 .. Len(xs) - 1 : Middle(line) >= xs[c] /\ Middle(line) <= xs[c + 1]}
    IN  IF inside # {} THEN Min(inside) ELSE IF Middle(line) < xs[1] THEN 1 ELSE Len(xs) - 1
Crosses(line, xs) == \E c \in 2 .. Len(xs) - 1 : Left(line) < xs[c] /\ Right(line) > xs[c]
Centre(line) == Top(line) + Bottom(line)
InRow(lines, ys, r) == {l \in lines : Centre(l) > ys[r] /\ Centre(l) < ys[r + 1]}
CellOf(lines, xs, c) == FlattenSeq(LeftToRight({l \in lines : ColumnOf(l, xs) = c}))

\* The rows of a grid with the lines in them. A row with one occupied cell or a line
\* across two columns refuses the whole grid.
RowsInGrid(lines, grid) ==
    [r \in 1 .. Len(grid.ys) - 1 |->
        [c \in 1 .. Len(grid.xs) - 1 |-> CellOf(InRow(lines, grid.ys, r), grid.xs, c)]]
Occupied(row) == Cardinality({c \in DOMAIN row : row[c] # <<>>})
Filled(rows, taken, grid) ==
    IF \/ grid.xs = <<>>
       \/ \E r \in DOMAIN rows : Occupied(rows[r]) < 2
       \/ \E l \in taken : Crosses(l, grid.xs)
       \/ 100 * FoldLeft(LAMBDA n, row : n + Occupied(row), 0, rows)
            < 35 * Len(rows) * (Len(grid.xs) - 1)
    THEN NoTable
    ELSE [rows |-> rows, lines |-> taken,
          box |-> <<grid.xs[1], grid.ys[1], Last(grid.xs), Last(grid.ys)>>]
InGrid(lines, grid) ==
    Filled(RowsInGrid(lines, grid),
           UNION {InRow(lines, grid.ys, r) : r \in 1 .. Len(grid.ys) - 1}, grid)
GridTable(blocks, rules) == InGrid(TableLines(blocks), Grid(rules))

-----------------------------------------------------------------------------
(* Lines in columns *)

ProseCells(rows) == {<<r, c>> \in {<<i, j>> \in (1 .. Len(rows)) \X (1 .. MaxColumns) :
                                       j <= Len(rows[i])} :
                         \E i \in DOMAIN rows[r][c] : rows[r][c][i].word \in Prose}
CellTotal(rows) == FoldLeft(LAMBDA n, row : n + Len(row), 0, rows)
SentenceLike(rows) == 100 * Cardinality(ProseCells(rows)) > 28 * CellTotal(rows)

\* Rows of two to eight lines side by side, from top to bottom.
CellRows(lines) ==
    LET Row(r) == LeftToRight({l \in lines : Top(l) = r})
        tops == Ascending({Top(l) : l \in lines})
    IN  SelectSeq([k \in DOMAIN tops |-> Row(tops[k])], LAMBDA row : Len(row) \in 2 .. MaxColumns)
Continues(rows, s, k) ==
    /\ Len(rows[k]) = Len(rows[s])
    /\ Top(rows[k][1]) - Top(rows[k - 1][1]) <= RowReach
    /\ \A c \in DOMAIN rows[s] : Within(Left(rows[k][c]), Left(rows[s][c]), StartSlack)
RunsOf(rows) == {<<s, e>> \in (DOMAIN rows) \X (DOMAIN rows) :
                    /\ s <= e /\ \A k \in s + 1 .. e : Continues(rows, s, k)
                    /\ e = Len(rows) \/ ~Continues(rows, s, e + 1)}
\* The longest run of rows in columns, the first of equals.
BestRun(rows) ==
    CHOOSE a \in RunsOf(rows) : \A b \in RunsOf(rows) :
        \/ a[2] - a[1] > b[2] - b[1]
        \/ a[2] - a[1] = b[2] - b[1] /\ a[1] <= b[1]

ColumnTable(blocks) ==
    LET lines == TableLines(blocks)
        rows == CellRows(lines)
        run == BestRun(rows)
        best == SubSeq(rows, run[1], run[2])
        taken == UNION {Range(best[r]) : r \in DOMAIN best}
    IN  IF \/ Cardinality(lines) < PageLines \/ Len(rows) < TableRows
           \/ Len(best) < TableRows \/ SentenceLike(best) \/ 100 * Len(best) < 28 * Len(rows)
        THEN NoTable
        ELSE [rows |-> best, lines |-> taken,
              box |-> <<Min({Left(l) : l \in taken}), 2 * Min({Top(l) : l \in taken}),
                        Max({Right(l) : l \in taken}), 2 * Max({Bottom(l) : l \in taken})>>]

OrElse(table, other) == IF table # NoTable THEN table ELSE other
PageTable(blocks, rules) == OrElse(GridTable(blocks, rules), ColumnTable(blocks))

-----------------------------------------------------------------------------
(* Gaps within the lines of a block *)

CellsFrom(line, positions) ==
    LET starts == Ascending(positions)
    IN  [c \in DOMAIN starts |->
            SubSeq(line, starts[c], IF c = Len(starts) THEN Len(line) ELSE starts[c + 1] - 1)]
\* A gap is measured from the character before: a cell begins only where no blank comes
\* between, other than where native lines are counted.
TableStarts(line) == {i \in CellStarts(line) : i = 1 \/ line[i].glued}
CellsOf(line) == CellsFrom(line, TableStarts(line))
\* Lines of one cell are left out before the rows are compared.
BlockRows(block) == SelectSeq([i \in DOMAIN block |-> CellsOf(block[i])], LAMBDA row : Len(row) >= 2)
BlockTable(block) ==
    LET rows == BlockRows(block)
    IN  IF /\ Len(rows) >= TableRows /\ Len(rows[1]) <= MaxColumns
           /\ \A r \in DOMAIN rows : Len(rows[r]) = Len(rows[1])
        THEN rows ELSE <<>>

-----------------------------------------------------------------------------
(* Words recognised on a scan *)

\* A recognised word has a "sure" field: whether its confidence suffices.
ScanRow(words) ==
    LET line == SelectSeq(SortSeq(words, ByPlace), LAMBDA w : w.sure)
    IN  IF Len(line) < 2 THEN <<>> ELSE CellsFrom(line, CellStarts(line))
ScanRows(scan) == SelectSeq([i \in DOMAIN scan |-> ScanRow(scan[i])], LAMBDA row : Len(row) >= 2)
CommonCount(rows) ==
    LET Of(n) == Cardinality({r \in DOMAIN rows : Len(rows[r]) = n})
    IN  CHOOSE n \in 2 .. MaxColumns : \A m \in 2 .. MaxColumns : Of(n) >= Of(m)
ColumnStart(rows, c) == MedianOf([r \in DOMAIN rows |-> Left(rows[r][c])])
\* Rows of another shape or out of line are left out, up to a fifth each.
\* Mutant: rows of the common number of cells are taken wherever they stand.
ScanTableLoose(scan) ==
    LET rows == ScanRows(scan)
    IN  IF Len(rows) < TableRows THEN <<>>
        ELSE SelectSeq(rows, LAMBDA row : Len(row) = CommonCount(rows))
ScanTable(scan) ==
    LET rows == ScanRows(scan)
        alike == SelectSeq(rows, LAMBDA row : Len(row) = CommonCount(rows))
        aligned == SelectSeq(alike, LAMBDA row : \A c \in DOMAIN row :
                                 Within(Left(row[c]), ColumnStart(alike, c), StartSlack))
    IN  IF \/ Len(rows) < TableRows \/ Len(alike) < TableRows
           \/ 100 * Len(alike) < 78 * Len(rows) \/ 100 * Len(aligned) < 82 * Len(alike)
           \/ SentenceLike(aligned)
        THEN <<>> ELSE aligned
=============================================================================

----------------------------- MODULE WordExport -----------------------------
(***************************************************************************)
(* The two writers of Word files (web-app features/export): the default    *)
(* one, built on a document library, and the streaming one, which large    *)
(* documents get and which writes its own package.                         *)
(*                                                                         *)
(* A line of Markdown is a sequence of parts; a part has a kind and the    *)
(* words it holds.  A page marker and the marker of a source visual may    *)
(* stand inside a line of text, every other kind of part is a line of its  *)
(* own.  A Word file is the sequence of the blocks the writer puts into    *)
(* it.  Fonts, sizes and wording are left out, and so is the repair of     *)
(* words hyphenated at a line's end.  The tokens of a formula are taken to *)
(* be written with blanks between them.                                    *)
(***************************************************************************)
EXTENDS WordFormula

CONSTANTS
    CanRasterise,   \* the browser can draw an SVG into a canvas
    Statements,     \* Theorem, Lemma: words that a statement begins with
    Prepositions,   \* of, from: words that a torn sentence begins with
    Cues,           \* the, and, must: words that only sentences have
    Capitals        \* words with a capital letter

Part(k, v) == [k |-> k, v |-> v]
Text(v) == <<Part("text", v)>>
BlankLine == Part("blank", <<>>)
PageMarker == Part("page", <<>>)
Markers == {"page", "visual"}
CellEnd == "|"

-----------------------------------------------------------------------------
(* Displayed formulas that are none: cleanup.js, repairDisplayMathProse.   *)

Tokens(lines) == FlattenSeq([i \in DOMAIN lines |-> FlattenSeq([j \in DOMAIN lines[i] |-> lines[i][j].v])])
HoldsKind(lines, kinds) == \E i \in DOMAIN lines : \E j \in DOMAIN lines[i] : lines[i][j].k \in kinds

MathCommands == {"frac", "sqrt", "sum", "prod", "int", "sin", "log", "begin", "end"}
Arithmetic == {"=", "+", "*", "/", "^", "_"}
Relations == {"=", "<", ">"}
HasAny(ts, words) == Range(ts) \cap words # {}

\* falseDisplayMathBody: a comment or a heading stands in it, or it reads as prose.
FalseDisplayMath(body) ==
    LET ts == Tokens(body)
        Mathematical == HasAny(ts, MathCommands)
    IN \/ HoldsKind(body, {"page", "comment", "heading"})
       \/ Len(ts) > 60
       \/ Len(ts) > 14 /\ ~Mathematical
       \/ Len(ts) > 5 /\ HasAny(ts, Cues) /\ ~Mathematical /\ ~HasAny(ts, Arithmetic)
       \/ Len(ts) > 2 /\ HasAny(ts, {"<", ">"}) /\ ~Mathematical /\ ~HasAny(ts, Arithmetic)
       \/ Len(ts) > 5 /\ ts[1] \in Statements /\ HasAny(ts, {",", ";"})
       \/ Len(ts) > 5 /\ ts[1] \in Prepositions /\ HasAny(ts, Cues)

\* splitEquationProse: the full stops that end an equation and begin a sentence.
SentenceStarts(ts) ==
    {i \in 2 .. Len(ts) - 2 :
        /\ ts[i] = "." /\ ts[i + 1] \in Capitals
        /\ ts[1] \notin Cues
        /\ HasAny(SubSeq(ts, 1, i - 1), Relations)
        /\ HasAny(SubSeq(ts, 1, i - 1), Arithmetic \cup {"-"})}

\* What becomes of the formula between two dollar lines.  The full stop is lost.
DollarLine == <<Part("dollar", <<>>)>>
RepairedFormula(body) ==
    LET ts == Tokens(body)
        cut == Min(SentenceStarts(ts))
    IN IF FalseDisplayMath(body) THEN body
       ELSE IF SentenceStarts(ts) = {} THEN <<DollarLine>> \o body \o <<DollarLine>>
       ELSE <<DollarLine, Text(SubSeq(ts, 1, cut - 1)), DollarLine, <<BlankLine>>,
              Text(SubSeq(ts, cut + 1, Len(ts)))>>

\* What is unwrapped is not looked at again, not even for fences.
RepairDisplayMathProse(lines) ==
    LET Closing2(i) == Min({j \in i + 1 .. Len(lines) : lines[j] = DollarLine} \cup {Len(lines) + 1})
        Opens(c, i) == lines[i] = DollarLine /\ ~c.fenced /\ Closing2(i) <= Len(lines)
        Repaired(c, i) ==
            IF i < c.next THEN c
            ELSE IF Opens(c, i)
            THEN [c EXCEPT !.out = @ \o RepairedFormula(SubSeq(lines, i + 1, Closing2(i) - 1)),
                           !.next = Closing2(i) + 1]
            ELSE [c EXCEPT !.out = Append(@, lines[i]),
                           !.fenced = @ # (lines[i] # <<>> /\ lines[i][1].k = "fence")]
    IN FoldLeft(Repaired, [out |-> <<>>, fenced |-> FALSE, next |-> 1], [i \in DOMAIN lines |-> i]).out

-----------------------------------------------------------------------------
(* The Markdown that both writers start from.                              *)

\* The parts of a line that are not markers stay together, and the kind of the
\* line is that of the first of them.
Rest(parts) ==
    IF parts = <<>> THEN BlankLine
    ELSE Part(parts[1].k, FlattenSeq([i \in DOMAIN parts |-> parts[i].v]))

\* A line with its markers on lines of their own, or without page markers when
\* no page breaks are asked for.
SplitLine(line, pageBreaks) ==
    LET kept == IF pageBreaks THEN line ELSE SelectSeq(line, LAMBDA p : p.k # "page")
        Put(c, p) == IF p.k \in Markers
                     THEN [done |-> c.done \o <<Rest(c.run), p>>, run |-> <<>>]
                     ELSE [c EXCEPT !.run = Append(@, p)]
        cut == FoldLeft(Put, [done |-> <<>>, run |-> <<>>], kept)
    IN Append(cut.done, Rest(cut.run))

\* normalizeExportMarkdown: lines inside a fence are left alone; any fence line
\* opens or closes one.
NormalizeExportMarkdown(lines, pageBreaks) ==
    LET Line(c, line) ==
            [out |-> c.out \o (IF c.fenced THEN <<Rest(line)>> ELSE SplitLine(line, pageBreaks)),
             fenced |-> c.fenced # (Rest(line).k = "fence")]
    IN FoldLeft(Line, [out |-> <<>>, fenced |-> FALSE], lines).out

\* The Markdown of a semantic document: its pages in order, each after its
\* marker, and in a page the nodes that are not omitted, apart from each other.
OnPage(nodes) ==
    LET kept == SelectSeq(nodes, LAMBDA n : n.disposition # "omitted-decoration" /\ n.lines # <<>>)
    IN FlattenSeq([i \in DOMAIN kept |-> Append(kept[i].lines, <<>>)])

SemanticDocumentToMarkdown(pages) ==
    FlattenSeq([i \in DOMAIN pages |-> <<<<PageMarker>>, <<>>>> \o OnPage(pages[i].nodes)])

\* The cells of a table row: the tokens between two bars, where an escaped bar
\* is a token like any other.
MarkdownTableCells(v) ==
    LET tail == IF v # <<>> /\ v[1] = "|" THEN Tail(v) ELSE v
        inner == IF tail # <<>> /\ Last(tail) = "|" THEN Front(tail) ELSE tail
        Put(c, t) == IF t = "|" THEN Append(c, <<>>)
                     ELSE Append(Front(c), Append(Last(c), t))
    IN FoldLeft(Put, <<<<>>>>, inner)

\* The rows of a table without the rule below the header, padded to one width.
MarkdownTableRows(rows) ==
    LET cells == [i \in DOMAIN rows |-> MarkdownTableCells(rows[i])]
        kept == SubSeq(cells, 1, 1) \o SubSeq(cells, 3, Len(cells))
        width == CHOOSE w \in {Len(kept[i]) : i \in DOMAIN kept} :
                    \A i \in DOMAIN kept : Len(kept[i]) <= w
    IN [i \in DOMAIN kept |-> kept[i] \o [j \in 1..(width - Len(kept[i])) |-> <<>>]]

TableWords(rows) ==
    LET all == FlattenSeq(MarkdownTableRows(rows))
    IN FlattenSeq([i \in DOMAIN all |-> Append(all[i], CellEnd)])

-----------------------------------------------------------------------------
(* Source visuals.  An asset is what the session knows of one: its picture *)
(* ("raster", "svg" or "none"), whether there is SVG text, whether the SVG *)
(* has a raster to fall back on, and the facts of its visual               *)
(* representation, {"none"} when it has none.                              *)

NoAsset == [data |-> "none", svg |-> FALSE, fallback |-> FALSE, ir |-> {"none"}]

\* What keeps a representation from being drawn with native shapes.
Refusals ==
    {"none", "invalid", "not-accepted", "unsure", "warned", "no-diagram", "grouped", "styled",
     "odd-shape", "no-box", "no-label", "edge-label", "odd-connector", "unknown-end"}
MapsToDrawing(ir) == ir \cap Refusals = {}

\* The routes a representation may take; only a Mermaid one is drawn here.
RoutesToMermaid(ir) == "mermaid" \in ir

IsSvgAsset(asset) == asset.svg \/ asset.data = "svg"
RasterFallback(asset) == asset.fallback \/ (~IsSvgAsset(asset) /\ asset.data # "none")

\* How the default writer shows a visual: as native shapes, as an SVG with a
\* raster behind it, as its raster, or as a sentence about it.
VisualTier(asset) ==
    LET svg == IsSvgAsset(asset) \/ RoutesToMermaid(asset.ir)
    IN IF MapsToDrawing(asset.ir) THEN "native"
       ELSE IF svg /\ (RasterFallback(asset) \/ CanRasterise) THEN "svg"
       ELSE IF asset.data # "none" /\ ~IsSvgAsset(asset) THEN "image"
       ELSE "preserved"

\* How the streaming writer shows it: its picture, of whatever type, or the
\* sentence.
StreamedTier(asset) == IF asset.data # "none" THEN "image" ELSE "preserved"

\* A fenced block is its source, except a Mermaid one that can be drawn.
FencedBlock(tag, words) ==
    Part(IF Len(tag) > 1 /\ tag[2] = "mermaid" /\ CanRasterise THEN "diagram" ELSE "code", words)

-----------------------------------------------------------------------------
(* The scan.  c.mode says what the lines before belong to: a paragraph, a  *)
(* table, a fence, a formula or nothing; c.buf holds them and c.tag the    *)
(* line that opened a fence.                                               *)

Scan0 == [mode |-> "none", buf |-> <<>>, tag |-> <<>>, out |-> <<>>]
Emit(c, block) == [c EXCEPT !.mode = "none", !.buf = <<>>, !.out = Append(@, block)]

EquationOf(written) == Part(IF written.editable THEN "equation" ELSE "source", written.runs)
Equation(streamed, ts) == EquationOf(Written(ParseLatex(ts), streamed, ts))

\* The end of a paragraph or of a table.
Close(c) ==
    CASE c.mode = "para" -> Emit(c, Part("paragraph", c.buf))
      [] c.mode = "table" -> Emit(c, Part("table", TableWords(c.buf)))
      [] OTHER -> c

PageBreak(c, streamed, pageBreaks) ==
    IF pageBreaks /\ (streamed \/ c.out # <<>>)
    THEN [c EXCEPT !.out = Append(@, Part("break", <<>>))] ELSE c

\* A line that starts something new; next is the line behind it.
StartLine(c, p, next, w) ==
    CASE p.k = "page" -> PageBreak(c, w.streamed, w.pageBreaks)
      [] p.k \in {"comment", "blank"} -> c
      [] p.k = "dollar" -> [c EXCEPT !.mode = "math"]
      [] p.k = "fence" -> [c EXCEPT !.mode = "fence", !.tag = p.v]
      [] p.k \in {"row", "rule"} /\ next = "rule" -> [c EXCEPT !.mode = "table", !.buf = <<p.v>>]
      [] p.k \in {"heading", "bullet", "numbered", "placeholder"} -> Emit(c, p)
      [] p.k = "visual" ->
           LET asset == IF p.v[1] \in DOMAIN w.assets THEN w.assets[p.v[1]] ELSE NoAsset
           IN Emit(c, Part(IF w.streamed THEN StreamedTier(asset) ELSE VisualTier(asset), p.v))
      [] OTHER -> [c EXCEPT !.mode = "para", !.buf = p.v]

\* Inside a formula that is not closed a page marker still breaks the page and a
\* comment is still dropped; in any other it has made a text of the formula.
MathLine(c, p, w) ==
    CASE p.k = "page" -> PageBreak(c, w.streamed, w.pageBreaks)
      [] p.k = "comment" -> c
      [] p.k = "dollar" -> Emit(c, Equation(w.streamed, c.buf))
      [] OTHER -> [c EXCEPT !.buf = @ \o p.v]

ScanLine(c, p, next, w) ==
    CASE c.mode = "fence" ->
           IF p.k = "fence" /\ p.v = <<c.tag[1]>> THEN Emit(c, IF w.streamed THEN Part("code", c.buf)
                                                              ELSE FencedBlock(c.tag, c.buf))
           ELSE [c EXCEPT !.buf = @ \o p.v]
      [] c.mode = "math" -> MathLine(c, p, w)
      [] c.mode = "table" /\ p.k \in {"row", "rule"} -> [c EXCEPT !.buf = Append(@, p.v)]
      [] c.mode = "para" /\ p.k = "text" -> [c EXCEPT !.buf = @ \o p.v]
      [] OTHER -> StartLine(Close(c), p, next, w)

ScannedLines(ls, w) ==
    LET NextKind(i) == IF i < Len(ls) THEN ls[i + 1].k ELSE "end"
        ScanNext(c, i) == ScanLine(c, ls[i], NextKind(i), w)
    IN FoldLeft(ScanNext, Scan0, [i \in DOMAIN ls |-> i])

Scanned(lines, w) ==
    ScannedLines(NormalizeExportMarkdown(RepairDisplayMathProse(lines), w.pageBreaks), w)

\* A fence that is never closed is a block all the same.
CloseFence(c, streamed) ==
    IF c.mode # "fence" THEN Close(c)
    ELSE Emit(c, IF streamed THEN Part("code", c.buf) ELSE FencedBlock(c.tag, c.buf))

\* The default writer forgets a formula that is never closed and never leaves
\* a file without a paragraph.
SomeBlocks(blocks) == IF blocks = <<>> THEN <<Part("paragraph", <<>>)>> ELSE blocks
DocxBlocks(lines, pageBreaks, assets) ==
    SomeBlocks(CloseFence(Scanned(lines, [streamed |-> FALSE, pageBreaks |-> pageBreaks,
                                          assets |-> assets]), FALSE).out)

\* The streaming writer writes its words instead.
OpenFormula(c) ==
    IF c.mode = "math" /\ c.buf # <<>> THEN Append(c.out, Part("paragraph", c.buf)) ELSE c.out
StreamedBlocks(lines, pageBreaks, assets) ==
    OpenFormula(CloseFence(Scanned(lines, [streamed |-> TRUE, pageBreaks |-> pageBreaks,
                                           assets |-> assets]), TRUE))

-----------------------------------------------------------------------------
(* The package of the streaming writer: parts in the order they are        *)
(* written, and a directory that says at which part an entry begins.       *)

Header(name) == [header |-> name, body |-> <<>>]
Body(v) == [header |-> "", body |-> v]
NoEntries == [parts |-> <<>>, entries |-> <<>>]

\* addStored, and startDeflated with the finalize that ends it: the entry is
\* where its header was pushed.
AddEntry(zip, name, body) ==
    [parts |-> zip.parts \o <<Header(name), Body(body)>>,
     entries |-> Append(zip.entries, [name |-> name, offset |-> Len(zip.parts)])]

Pictures(blocks) == SelectSeq(blocks, LAMBDA b : b.k = "image")
MediaName == [i \in 1..4 |-> <<"image-1", "image-2", "image-3", "image-4">>[i]]

\* markdownToStreamingDocx from the first block to finish(): the document, the
\* pictures in the order they were met, the relationships, which count on from
\* the seven fixed ones, and the parts that every file has.
FixedRelationships == 7
Relationships(blocks) ==
    [i \in 1..Len(Pictures(blocks)) |->
        [id |-> FixedRelationships + i, target |-> MediaName[i]]]

StreamedPackage(blocks) ==
    LET pictures == Pictures(blocks)
        Picture(zip, i) == AddEntry(zip, MediaName[i], pictures[i].v)
        document == AddEntry(NoEntries, "document", <<>>)
        media == FoldLeft(Picture, document, [i \in DOMAIN pictures |-> i])
    IN AddEntry(AddEntry(media, "relationships", <<>>), "styles", <<>>)

\* The relationship by which the i-th picture of the document is embedded.
Embeds(i) == FixedRelationships + i

-----------------------------------------------------------------------------
(* What a reader finds in a file.                                          *)

BlockWords(blocks) == UNION {Range(blocks[i].v) : i \in DOMAIN blocks}
LineWords(lines) ==
    UNION {UNION {Range(lines[i][j].v) : j \in {x \in DOMAIN lines[i] :
                                                  lines[i][x].k \notin {"page", "comment"}}} :
             i \in DOMAIN lines}

=============================================================================

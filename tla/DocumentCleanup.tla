-------------------------- MODULE DocumentCleanup --------------------------
(* cleanup.js: the passes that turn the pages of a document into one text.   *)
(* Running headers and footers are classified over all pages and taken out   *)
(* of every page's blocks (classifyRunningMatter,                             *)
(* applyRunningMatterToDocumentIR); the blocks are written as lines           *)
(* (semantic-document-ir.js, semanticDocumentToMarkdown); headings, split     *)
(* paragraphs, wrapped hyphens and displayed formulas are then repaired line  *)
(* by line. A page is its number, its edges (the texts the worker found near  *)
(* its top and bottom) and its blocks, entries of PageEntries with an id; a   *)
(* line of the document is a kind, a level and words.                         *)
EXTENDS PageEntries

CONSTANTS
    Openers,    \* words that open a chapter, an appendix, an index ...
    Halves      \* words that end in a hyphen

Label(line) == Len(line) = 1 /\ line[1].word \in Numbers
Structural(line) ==
    /\ line # <<>>
    /\ \/ line[1].word \in Openers
       \/ Len(line) > 1 /\ line[1].word \in Numbers /\ line[2].word \in Capitals

-----------------------------------------------------------------------------
(* Classifying running matter *)

\* What is compared from page to page: a text without the page number at either end.
Signature(line) ==
    LET w == Words(line)
        led == IF Len(w) > 1 /\ Head(w) \in Numbers THEN Tail(w) ELSE w
    IN  IF Len(led) > 1 /\ Last(led) \in Numbers THEN Front(led) ELSE led

SelectedEdges(page, opts) ==
    [header |-> IF opts.removeHeaders THEN page.edges.headers ELSE <<>>,
     footer |-> IF opts.removeFooters THEN page.edges.footers ELSE <<>>]
EdgeSignatures(page, opts) ==
    {Signature(e) : e \in {x \in ToSet(SelectedEdges(page, opts).header
                                        \o SelectedEdges(page, opts).footer) : ~Label(x)}}

\* A quarter of the pages, but no fewer than two and no more than three.
\* Mutant: one page is enough.
RepeatThresholdNone(n) == 1
RepeatThreshold(n) == IF n <= 8 THEN 2 ELSE 3
RepeatedEdgeSignatures(pages, opts) ==
    {key \in UNION {EdgeSignatures(pages[i], opts) : i \in DOMAIN pages} :
        Cardinality({i \in DOMAIN pages : key \in EdgeSignatures(pages[i], opts)})
            >= RepeatThreshold(Len(pages))}

\* The first header or the last footer of a page; a page of a single line lends that line.
PageLines(page) == FlattenSeq([i \in DOMAIN page.blocks |-> page.blocks[i].lines])
EdgeLine(page, opts, side) ==
    LET edges == SelectedEdges(page, opts)[side]
    IN  IF edges # <<>> THEN (IF side = "header" THEN Head(edges) ELSE Last(edges))
        ELSE IF Len(PageLines(page)) = 1 THEN PageLines(page)[1] ELSE <<>>

EdgeToken(w) == IF w \in Numbers THEN "<page>" ELSE w
Token(line, side, k) ==
    EdgeToken(line[IF side = "header" THEN k ELSE Len(line) + 1 - k].word)
RunningFragment(words) ==
    \/ words # <<>> /\ Range(words) \subseteq Capitals
    \/ /\ Range(words) \subseteq Acronyms \cup Numbers /\ Range(words) \cap Acronyms # {}

\* How many words at the outer end all pages' edge lines share: two at least, and a
\* number of them that reads like running matter; 0 when there are none.
CommonEdgeTokens(pages, opts, side) ==
    LET lines == [i \in DOMAIN pages |-> EdgeLine(pages[i], opts, side)]
        Shared(n) == \A i \in DOMAIN lines : /\ Len(lines[i]) >= n
                        /\ \A k \in 1 .. n : Token(lines[i], side, k) = Token(lines[1], side, k)
        Sample(n) == [k \in 1 .. n |->
            lines[1][IF side = "header" THEN k ELSE Len(lines[1]) - n + k].word]
        usable == {n \in 2 .. 12 : Shared(n) /\ RunningFragment(Sample(n))}
    IN  IF Len(pages) < 2 \/ usable = {} THEN <<>> ELSE Sample(Max(usable))

EdgeCommonMatch(line, common, side) ==
    /\ common # <<>> /\ Len(line) >= Len(common)
    /\ \A k \in DOMAIN common :
          EdgeToken(line[IF side = "header" THEN k ELSE Len(line) - Len(common) + k].word)
              = EdgeToken(common[k])

\* Chapter and section edges are kept, whatever repeats them.
ClassifyEdge(line, side, repeated, common) ==
    [side |-> side, text |-> line, key |-> Signature(line), label |-> Label(line),
     action |-> IF Structural(line) THEN "KEEP"
                ELSE IF Label(line) \/ Signature(line) \in repeated THEN "REMOVE"
                ELSE IF EdgeCommonMatch(line, common, side) THEN "MERGE" ELSE "KEEP"]

\* The decisions of each page, one per side and signature.
Decided(done, d) ==
    d.text = <<>> \/ \E k \in DOMAIN done : done[k].key = d.key /\ done[k].side = d.side
Deciding(done, d) == IF Decided(done, d) THEN done ELSE Append(done, d)
Once(ds) ==
    LET Decisions[n \in 0 .. Len(ds)] ==
          IF n = 0 THEN <<>> ELSE Deciding(Decisions[n - 1], ds[n])
    IN  Decisions[Len(ds)]
Removes(opts, side) ==
    (side = "header" /\ opts.removeHeaders) \/ (side = "footer" /\ opts.removeFooters)
ClassifySide(pages, i, opts, side) ==
    LET edges == SelectedEdges(pages[i], opts)[side]
        common == IF Removes(opts, side) THEN CommonEdgeTokens(pages, opts, side) ELSE <<>>
    IN  [k \in DOMAIN edges |->
            ClassifyEdge(edges[k], side, RepeatedEdgeSignatures(pages, opts), common)]
ClassifyRunningMatter(pages, opts) ==
    [i \in DOMAIN pages |-> Once(ClassifySide(pages, i, opts, "header")
                                 \o ClassifySide(pages, i, opts, "footer"))]

-----------------------------------------------------------------------------
(* Taking it out *)

\* The text of an edge is stripped off the end of a line that has it there.
StripEdgeFragment(line, d) ==
    LET n == Len(d.text)
        here == IF d.side = "header" THEN SubSeq(line, 1, n)
                                     ELSE SubSeq(line, Len(line) - n + 1, Len(line))
    IN  IF d.label \/ n > Len(line) \/ n = 0 THEN line
        ELSE IF Words(here) # Words(d.text) THEN line
        ELSE IF d.side = "header" THEN SubSeq(line, n + 1, Len(line))
                                  ELSE SubSeq(line, 1, Len(line) - n)

CleanLine(line, d) ==
    IF Structural(line) THEN line
    ELSE IF d.action = "REMOVE" /\ (Signature(line) = d.key \/ (d.label /\ Label(line))) THEN <<>>
    ELSE StripEdgeFragment(line, d)

\* The lines of a block that are near its top (for a header) or its bottom: the first
\* or last three that are not blank.
EdgeDepth == 3
Filled(lines) == {i \in DOMAIN lines : lines[i] # <<>>}
NearEdge(lines, side) ==
    LET full == Filled(lines)
        Rank(i) == Cardinality({j \in full : IF side = "header" THEN j <= i ELSE j >= i})
    IN  {i \in full : Rank(i) <= EdgeDepth}

CleanLines(lines, d) ==
    IF d.action = "KEEP" THEN lines
    ELSE [i \in DOMAIN lines |-> IF i \in NearEdge(lines, d.side) THEN CleanLine(lines[i], d)
                                                                 ELSE lines[i]]
CleanBlockRunningMatter(lines, decisions) ==
    LET Cleaned[n \in 0 .. Len(decisions)] ==
          IF n = 0 THEN lines ELSE CleanLines(Cleaned[n - 1], decisions[n])
        cleaned == Cleaned[Len(decisions)]
    IN  Kept(cleaned, Filled(cleaned))

\* Fenced blocks are never edited; tables and pictures are written with marks of
\* their own around the text, so that no edge text matches.
\* Mutant: fences are not looked for.
EditableFences(b) == b.kind \in {"text", "equation", "diagram", "code"}
Editable(b) == b.kind \in {"text", "equation"}
ApplyToPage(page, decisions) ==
    LET cleaned == [i \in DOMAIN page.blocks |->
            IF Editable(page.blocks[i])
            THEN [page.blocks[i] EXCEPT !.lines = CleanBlockRunningMatter(@, decisions)]
            ELSE page.blocks[i]]
        kept == Kept(cleaned, {i \in DOMAIN cleaned : cleaned[i].lines # <<>>})
        ids == {kept[i].id : i \in DOMAIN kept}
    IN  IF decisions = <<>> THEN page
        ELSE [page EXCEPT !.blocks = kept,
                          !.relations = {r \in @ : r.from \in ids /\ r.to \in ids}]
ApplyRunningMatter(pages, classified) ==
    [i \in DOMAIN pages |-> ApplyToPage(pages[i], classified[i])]

-----------------------------------------------------------------------------
(* The document as lines *)

Written(kind, level, words) == [kind |-> kind, level |-> level, words |-> words]
Blank == Written("blank", 0, <<>>)
Marker(page) == Written("marker", page, <<>>)
Fence == Written("fence", 0, <<>>)
MathFence == Written("math", 0, <<>>)
Plain(lines) == [i \in DOMAIN lines |-> Written("text", 0, lines[i])]

\* A line between fences that begins with the mark of a heading is one to whoever does not
\* look for fences.
Listed(words) ==
    IF Len(words) > 1 /\ words[1].word \in DOMAIN Hashes
    THEN Written("heading", Hashes[words[1].word], Tail(words)) ELSE Written("text", 0, words)
Listing(lines) == [i \in DOMAIN lines |-> Listed(lines[i])]

BlockLines(b) ==
    CASE b.kind \in {"diagram", "code"} -> <<Fence>> \o Listing(b.lines) \o <<Fence>>
      [] b.kind = "equation" -> <<MathFence>> \o Plain(b.lines) \o <<MathFence>>
      [] b.kind \in {"visual", "equation-fallback", "source-page"} ->
            [i \in DOMAIN b.lines |-> Written("picture", 0, b.lines[i])]
      [] b.kind = "table" -> [i \in DOMAIN b.lines |-> Written("row", 0, b.lines[i])]
      [] b.kind = "text" /\ IsHeading(b) -> <<Written("heading", b.level, b.lines[1])>>
      [] OTHER -> Plain(b.lines)

\* Parts separated by a blank line; empty parts leave no trace.
Beneath(done, part) ==
    IF part = <<>> THEN done ELSE IF done = <<>> THEN part ELSE done \o <<Blank>> \o part
Separated(parts) ==
    LET Upto[n \in 0 .. Len(parts)] ==
          IF n = 0 THEN <<>> ELSE Beneath(Upto[n - 1], parts[n])
    IN  Upto[Len(parts)]
PageParts(p, preserveMarkers) ==
    (IF preserveMarkers THEN <<<<Marker(p.page)>>>> ELSE <<>>)
        \o [i \in DOMAIN p.blocks |-> BlockLines(p.blocks[i])]
ToMarkdown(pages, preserveMarkers) ==
    Separated([i \in DOMAIN pages |-> Separated(PageParts(pages[i], preserveMarkers))])

\* A heading that repeats the heading before it goes; one that is numbered or a chapter
\* has the level its number says; no other may be more than one level below the last.
\* The pass does not look for fences: a line between them that reads as a heading is one.
NumberedLevel(words) ==
    IF Head(words).word \in Numbers /\ Len(words) > 1 THEN 1
    ELSE IF Head(words).word \in Openers /\ Len(words) > 1 /\ words[2].word \in Numbers THEN 1
    ELSE 0
LevelUnder(done, line) ==
    IF NumberedLevel(line.words) > 0 THEN NumberedLevel(line.words)
    ELSE IF done.level > 0 THEN Smaller(line.level, done.level + 1) ELSE line.level
Heading(done, line) ==
    IF line.kind # "heading" THEN [done EXCEPT !.out = Append(@, line)]
    ELSE IF Words(line.words) = done.text THEN done
    ELSE [out |-> Append(done.out, Written("heading", LevelUnder(done, line), line.words)),
          level |-> LevelUnder(done, line), text |-> Words(line.words)]
NormalizeHeadingHierarchy(lines) ==
    LET Upto[n \in 0 .. Len(lines)] ==
          IF n = 0 THEN [out |-> <<>>, level |-> 0, text |-> <<>>] ELSE Heading(Upto[n - 1], lines[n])
    IN  Upto[Len(lines)].out

Lower(word) == word \notin Capitals \cup Numbers \cup Strokes \cup Signs \cup DOMAIN Hashes
StartsLower(line) == line.kind = "text" /\ line.words # <<>> /\ Lower(Head(line.words).word)
IsProse(line) == line.kind = "text" /\ line.words # <<>>

\* A paragraph that a page marker splits is put together unless markers are to stay.
Splits(lines, i) ==
    /\ i + 4 <= Len(lines)
    /\ lines[i + 1] = Blank /\ lines[i + 2].kind = "marker" /\ lines[i + 3] = Blank
    /\ IsProse(lines[i]) /\ Last(lines[i].words).word \notin Stops
    /\ StartsLower(lines[i + 4])
JoinedAcrossMarkers(lines) ==
    LET Joined[i \in 1 .. Len(lines) + 1] ==
          IF i > Len(lines) THEN <<>>
          ELSE IF Splits(lines, i)
               THEN <<Written("text", 0, lines[i].words \o lines[i + 4].words)>> \o Joined[i + 5]
               ELSE <<lines[i]>> \o Joined[i + 1]
    IN  Joined[1]
JoinPageParagraphs(lines, preserveMarkers) ==
    IF preserveMarkers THEN lines ELSE JoinedAcrossMarkers(lines)

\* A word that a line break splits is put together, outside fences.
InFence(lines, i) == Cardinality({j \in 1 .. i - 1 : lines[j].kind = "fence"}) % 2 = 1
Broken(line) == IsProse(line) /\ Last(line.words).word \in Halves
RepairLineWrapHyphens(lines) ==
    LET Repaired[i \in 1 .. Len(lines) + 1] ==
          IF i > Len(lines) THEN <<>>
          ELSE LET rest == Repaired[i + 1]
               IN  IF /\ ~InFence(lines, i) /\ Broken(lines[i])
                      /\ i < Len(lines) /\ StartsLower(lines[i + 1])
                   THEN <<Written("text", 0, lines[i].words \o rest[1].words)>> \o Tail(rest)
                   ELSE <<lines[i]>> \o rest
    IN  Repaired[1]

FalseDisplayMath(words) == Len(words) > 5 /\ WordSet(words) \cap Signs = {}
ProseAfter(words) ==
    {i \in 1 .. Len(words) - 2 : /\ words[i].word \in Stops /\ words[i + 1].word \in Capitals
                                 /\ WordSet(SubSeq(words, 1, i)) \cap Signs # {}}
\* The mark that closes the formula opened at i, and what stands between the two.
Close(lines, i) == Min({j \in i + 1 .. Len(lines) : lines[j].kind = "math"} \cup {Len(lines) + 1})
Enclosed(lines, i) == FlattenSeq([k \in 1 .. Close(lines, i) - i - 1 |-> lines[i + k].words])
Repair(body) ==
    LET cut == Min(ProseAfter(body))
    IN  <<MathFence, Written("text", 0, SubSeq(body, 1, cut)), MathFence, Blank,
          Written("text", 0, SubSeq(body, cut + 1, Len(body)))>>
RepairDisplayMathProse(lines) ==
    LET Repaired[i \in 1 .. Len(lines) + 1] ==
          IF i > Len(lines) THEN <<>>
          ELSE IF lines[i].kind # "math" \/ InFence(lines, i) \/ Close(lines, i) > Len(lines)
               THEN <<lines[i]>> \o Repaired[i + 1]
          ELSE (IF FalseDisplayMath(Enclosed(lines, i)) THEN SubSeq(lines, i + 1, Close(lines, i) - 1)
                ELSE IF ProseAfter(Enclosed(lines, i)) # {} THEN Repair(Enclosed(lines, i))
                ELSE SubSeq(lines, i, Close(lines, i))) \o Repaired[Close(lines, i) + 1]
    IN  Repaired[1]

\* With the option off, everything from a mark of a displayed formula to the next goes.
WithoutFormulas(lines) ==
    LET Left[i \in 1 .. Len(lines) + 1] ==
          IF i > Len(lines) THEN <<>>
          ELSE IF lines[i].kind = "math" /\ Close(lines, i) <= Len(lines)
               THEN Left[Close(lines, i) + 1]
          ELSE <<lines[i]>> \o Left[i + 1]
    IN  Left[1]

-----------------------------------------------------------------------------
(* The audit of the result *)

\* qualityAudit: the issues of a document, from its pages, the warnings of the
\* extraction and what was selected.
Issue(code, severity) == [code |-> code, severity |-> severity]
When(condition, issue) == IF condition THEN {issue} ELSE {}
QualityAudit(pages, failed, selected, source) ==
    LET ocr == {i \in DOMAIN pages : pages[i].quality.ocr}
    IN  When(\E i \in DOMAIN pages : pages[i].quality.empty, Issue("LOW_TEXT_PAGES", "warning"))
        \cup When(\E i \in DOMAIN pages : pages[i].quality.corrupt, Issue("TEXT_ENCODING_DAMAGE", "warning"))
        \cup When(\E i \in ocr : pages[i].quality.empty, Issue("OCR_ONLY_PAGES", "warning"))
        \cup When(pages # <<>> /\ ocr = DOMAIN pages, Issue("OCR_ONLY_DOCUMENT", "warning"))
        \cup When(\E i \in DOMAIN pages : pages[i].quality.unsaved, Issue("SOURCE_EVIDENCE_MISSING", "error"))
        \cup When(failed # {}, Issue("PAGE_EXTRACTION_ERRORS", "error"))
        \cup When(selected > Len(pages) /\ failed = {}, Issue("INCOMPLETE_DOCUMENT", "error"))
        \cup When(source > selected, Issue("PARTIAL_DOCUMENT", "warning"))
AuditStatus(issues) ==
    IF \E i \in issues : i.severity = "error" THEN "needs-review"
    ELSE IF issues # {} THEN "warnings" ELSE "pass"
=============================================================================

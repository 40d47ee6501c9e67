---------------------------- MODULE DocumentText ----------------------------
(* From the entries of the pages to the text of the document. The worker runs *)
(* each page's entries through PageEntries (pageMarkdown, extract-worker.js   *)
(* 2900-2925); pages of the Companion come as blocks (app.js 900-925). finalize *)
(* (app.js 1174-1183) then runs cleanupDocument over all of them, pass by pass. *)
(* Each call is a step, so that what a pass may do to the text is an action   *)
(* property, and what the passes before it have made is an invariant.         *)
EXTENDS DocumentCleanup

CONSTANTS
    Sources,    \* what became of a page: what was read from it, and by whom
    Settings,   \* the options
    PageCount   \* selected pages

\* What is read: entries of words and edges of words. A heading is one line, and so is a
\* paragraph's entry from the worker, which takes nothing for a drawing or a listing before
\* it has read the page; the Companion's blocks keep their lines. What is on a page has a
\* height. No line of a formula begins with the mark of a heading; one of the Companion's
\* texts that does is a heading, and one of the worker's is written with an escape.
Texts == Seq(Seq(STRING))
Kinds == {"text", "table", "visual", "source-page", "equation", "equation-fallback", "diagram", "code"}
ReadEntries == [kind : Kinds, level : 0 .. 6, layout : STRING, col : {"left", "right", "wide"},
                y : Int, h : Nat \ {0}, lines : Texts]
Qualities == [empty : BOOLEAN, ocr : BOOLEAN, corrupt : BOOLEAN, unsaved : BOOLEAN]
Readings == [from : {"worker", "companion", "nobody"}, failed : BOOLEAN, entries : Seq(ReadEntries),
             headers : Texts, footers : Texts, quality : Qualities]
Options == [flows : BOOLEAN, removeHeaders : BOOLEAN, removeFooters : BOOLEAN,
            preserveMarkers : BOOLEAN, detectHeadings : BOOLEAN, joinParagraphs : BOOLEAN,
            extractEquations : BOOLEAN, partial : BOOLEAN]

ASSUME DocumentAssumption ==
    /\ PageCount \in Nat \ {0}
    /\ Settings \subseteq Options
    /\ \A s \in Sources :
          /\ s \in Readings
          /\ \A e \in ToSet(s.entries) :
                /\ IsText(e) /\ (s.from = "worker" \/ IsHeading(e)) => Len(e.lines) = 1
                /\ s.from = "worker" => e.kind \notin {"diagram", "code"}
                /\ e.kind = "equation" \/ (IsText(e) /\ s.from = "companion") =>
                      \A line \in ToSet(e.lines) : line = <<>> \/ Head(line) \notin DOMAIN Hashes

VARIABLES
    given,      \* given[p]: what became of page p
    opts,       \* the options of the extraction
    todo,       \* the pages whose entries the worker has still to process
    stage,      \* the pass that comes next
    entries,    \* entries[p]: the entries of page p so far
    pages,      \* the pages as DocumentIR
    decisions,  \* what was decided about the pages' edges
    lines,      \* the document's lines
    issues      \* what the audit has found

vars == <<given, opts, todo, stage, entries, pages, decisions, lines, issues>>
Pages == 1 .. PageCount
From(who) == {p \in Pages : given[p].from = who}
Present == From("worker") \cup From("companion")

Stages == {"order", "headings", "diagrams", "code", "equations", "ir", "classify", "apply", "write",
           "hierarchy", "paragraphs", "hyphens", "formulas", "audit", "done"}

\* The entries of a page, each word with the page and entry it is read from; and the
\* texts of its edges, which the Companion does not tell.
Tagged(words, p, i, k) ==
    [n \in DOMAIN words |-> [word |-> words[n], page |-> p, entry |-> i, at |-> <<k, n>>]]
TaggedEntries(source, p) ==
    [i \in DOMAIN source.entries |->
        [source.entries[i] EXCEPT !.lines = [k \in DOMAIN @ |-> Tagged(@[k], p, i, k)]]]
TaggedEdges(source, p) ==
    [headers |-> [k \in DOMAIN source.headers |-> Tagged(source.headers[k], p, 0, k)],
     footers |-> [k \in DOMAIN source.footers |-> Tagged(source.footers[k], p, 0, k)]]

Init ==
    /\ given \in [Pages -> Sources]
    /\ Present # {}
    /\ opts \in Settings
    /\ todo = From("worker")
    /\ stage = IF todo = {} THEN "ir" ELSE "order"
    /\ entries = [p \in Pages |-> TaggedEntries(given[p], p)]
    /\ pages = <<>>
    /\ decisions = <<>>
    /\ lines = <<>>
    /\ issues = {}

\* A pass of pageMarkdown over the entries of the page whose turn it is.
Turn == Min(todo)
PagePass(now, next, made) ==
    /\ stage = now /\ stage' = next
    /\ entries' = [entries EXCEPT ![Turn] = made]
    /\ UNCHANGED <<given, opts, todo, pages, decisions, lines, issues>>

Order == PagePass("order", "headings", OrderEntries(entries[Turn], opts.flows))
Headings == PagePass("headings", "diagrams", MergeWrappedHeadingEntries(entries[Turn]))
Diagrams == PagePass("diagrams", "code", MergeDiagramEntries(entries[Turn]))
Code == PagePass("code", "equations", MergeCodeEntries(entries[Turn]))
Equations ==
    /\ stage = "equations"
    /\ entries' = [entries EXCEPT ![Turn] = DedupeNearbyEquationEntries(@)]
    /\ todo' = todo \ {Turn}
    /\ stage' = IF todo' = {} THEN "ir" ELSE "order"
    /\ UNCHANGED <<given, opts, pages, decisions, lines, issues>>

\* pageDocumentIR: blocks with ids, and the captions linked where there is geometry.
PageIR(p) ==
    LET es == entries[p]
    IN  [page |-> p,
         blocks |-> [i \in DOMAIN es |-> [id |-> i, kind |-> es[i].kind, level |-> es[i].level,
                                          type |-> InferredType(es[i]), lines |-> es[i].lines]],
         relations |-> IF given[p].from = "worker" THEN LinkCaptionRelationships(es) ELSE {},
         edges |-> TaggedEdges(given[p], p), quality |-> given[p].quality]

DocumentIRFromPages ==
    /\ stage = "ir" /\ stage' = "classify"
    /\ pages' = LET order == InOrder(Present) IN [i \in DOMAIN order |-> PageIR(order[i])]
    /\ UNCHANGED <<given, opts, todo, entries, decisions, lines, issues>>

Classify ==
    /\ stage = "classify" /\ stage' = "apply"
    /\ decisions' = ClassifyRunningMatter(pages, opts)
    /\ UNCHANGED <<given, opts, todo, entries, pages, lines, issues>>

Apply ==
    /\ stage = "apply" /\ stage' = "write"
    /\ pages' = ApplyRunningMatter(pages, decisions)
    /\ UNCHANGED <<given, opts, todo, entries, decisions, lines, issues>>

LinePass(now, next, made) ==
    /\ stage = now /\ stage' = next
    /\ lines' = made
    /\ UNCHANGED <<given, opts, todo, entries, pages, decisions, issues>>

Write == LinePass("write", "hierarchy", ToMarkdown(pages, opts.preserveMarkers))
Hierarchy == LinePass("hierarchy", "paragraphs",
    IF opts.detectHeadings THEN NormalizeHeadingHierarchy(lines) ELSE lines)
Paragraphs == LinePass("paragraphs", "hyphens",
    IF opts.joinParagraphs THEN JoinPageParagraphs(lines, opts.preserveMarkers) ELSE lines)
Hyphens == LinePass("hyphens", "formulas", RepairLineWrapHyphens(lines))
Formulas == LinePass("formulas", "audit",
    IF opts.extractEquations THEN RepairDisplayMathProse(lines) ELSE WithoutFormulas(lines))

\* updateOutput: the audit of the result. A warning about a page stays when a later
\* run extracts it, so that a page that is there may have failed.
Audit ==
    /\ stage = "audit" /\ stage' = "done"
    /\ issues' = QualityAudit(pages, {p \in Pages : given[p].failed}, PageCount,
                              IF opts.partial THEN PageCount + 1 ELSE PageCount)
    /\ UNCHANGED <<given, opts, todo, entries, pages, decisions, lines>>
Done == stage = "done" /\ UNCHANGED vars

Next == \/ Order \/ Headings \/ Diagrams \/ Code \/ Equations
        \/ DocumentIRFromPages \/ Classify \/ Apply
        \/ Write \/ Hierarchy \/ Paragraphs \/ Hyphens \/ Formulas
        \/ Audit \/ Done

Spec == Init /\ [][Next]_vars

-----------------------------------------------------------------------------
(* Properties *)

\* Every variable has its type; a block has its own id.
PagesInv ==
    /\ stage \in Stages
    /\ todo \subseteq From("worker")
    /\ \A i \in DOMAIN pages : /\ pages[i].page \in Present
                               /\ \A j, k \in DOMAIN pages[i].blocks :
                                     pages[i].blocks[j].id = pages[i].blocks[k].id => j = k
LinesInv == \A i \in DOMAIN lines : lines[i].level \in 0 .. PageCount + 6

TokensOf(texts) == UNION {ToSet(texts[k]) : k \in DOMAIN texts}
LineTokens == UNION {ToSet(lines[i].words) : i \in DOMAIN lines}

\* Where the words ws stand in the line: they follow its first n words.
Follows(ws, line, n) == /\ n + Len(ws) <= Len(line)
                        /\ \A k \in DOMAIN ws : line[n + k].word = ws[k]
Reads(ws, line) == \E n \in 0 .. Len(line) : Follows(ws, line, n)

\* However entries are ordered, merged, fenced or dropped as repetitions, every line
\* that was read from a page can still be read on it (orderPageEntries,
\* mergeWrappedHeadingEntries, mergeDiagramEntries, mergeCodeEntries,
\* dedupeNearbyEquationEntries).
LinesAreStillRead ==
    \A p \in Present : \A i \in DOMAIN given[p].entries :
        \A k \in DOMAIN given[p].entries[i].lines :
            \E e \in ToSet(entries[p]) : \E line \in ToSet(e.lines) :
                Reads(given[p].entries[i].lines[k], line)

\* On a page of two columns, what stands between the same wide entries is read down
\* the left column and then down the right one, and before what stands below the next
\* wide entry; what is beside a wide entry is not between any
\* (orderPageEntries, orderedByGeometry).
Content(es) == {i \in DOMAIN es : es[i].kind # "source-page"}
WideEntries(es) == {w \in Content(es) : es[w].col = "wide"}
Band(es, i) == {w \in WideEntries(es) : es[w].y <= es[i].y}
Between(es) ==
    {i \in Content(es) \cap Narrow(es) :
        \A w \in WideEntries(es) : es[i].y < es[w].y \/ es[i].y >= es[w].y + es[w].h}
Sooner(es, i, j) ==
    \/ /\ Band(es, i) = Band(es, j)
       /\ \/ es[i].col = es[j].col /\ es[i].y < es[j].y
          \/ es[i].col = "left" /\ es[j].col = "right"
    \/ Band(es, i) # Band(es, j) /\ Band(es, i) \subseteq Band(es, j)
ReadDown(es) == \A i, j \in Between(es) : Sooner(es, i, j) => i < j
ColumnsReadDown ==
    stage = "headings" /\ opts.flows /\ TwoColumns(entries[Turn]) => ReadDown(entries[Turn])

\* What stands between fences, without the lines that read as headings where the pass over
\* the headings has been there.
FenceLine(text, line, passed) ==
    IF passed /\ line.kind = "heading" THEN text ELSE Append(text, line)
FenceText(ls, passed) ==
    LET Text[n \in 0 .. Len(ls)] ==
          IF n = 0 THEN <<>> ELSE FenceLine(Text[n - 1], ls[n], passed)
    IN  Text[Len(ls)]
FencedEntries == {e \in UNION {ToSet(entries[p]) : p \in From("worker")} :
                      e.kind \in {"diagram", "code"}}

\* A drawing made of characters or a listing stands between its fences line by line as it
\* was read, whatever its lines repeat of the page's edges and wherever they break; only a
\* line that reads as a heading may have another level or be gone, and only where headings
\* are put in order (mergeDiagramEntries, applyRunningMatterToDocumentIR,
\* normalizeHeadingHierarchy, repairLineWrapHyphens).
FencesAreKept ==
    stage \in {"hierarchy", "paragraphs", "hyphens", "formulas", "audit", "done"} =>
        \A e \in FencedEntries : \E a, b \in DOMAIN lines :
            /\ a < b /\ lines[a] = Fence /\ lines[b] = Fence
            /\ FenceText(SubSeq(lines, a + 1, b - 1), opts.detectHeadings)
                  = FenceText(Listing(e.lines), opts.detectHeadings)

\* What the edges of the pages say, with the running number left out.
EdgesOf(page) == ToSet(page.edges.headers) \cup ToSet(page.edges.footers)
SharesEnds(a, b) ==
    /\ Len(a) >= 2 /\ Len(b) >= 2
    /\ \/ \A k \in {1, 2} : EdgeToken(a[k].word) = EdgeToken(b[k].word)
       \/ \A k \in {0, 1} : EdgeToken(a[Len(a) - k].word) = EdgeToken(b[Len(b) - k].word)
Repeated(edge, i) ==
    \E j \in DOMAIN pages \ {i} :
        \/ \E other \in EdgesOf(pages[j]) : Signature(other) = Signature(edge) \/ SharesEnds(edge, other)
        \/ Len(PageLines(pages[j])) = 1 /\ SharesEnds(edge, PageLines(pages[j])[1])

\* Running matter is matter that is repeated: a word is taken out of a line only as
\* part of a text that stands at the edge of its page and of another one too, or as a
\* number of a line that goes as a whole
\* (classifyRunningMatter, cleanBlockRunningMatter).
Explained(line, rest, i) ==
    \A t \in ToSet(line) \ ToSet(rest) :
        \/ t.word \in Numbers /\ rest = <<>>
        \/ \E edge \in EdgesOf(pages[i]) : Repeated(edge, i) /\ t.word \in WordSet(edge)
NotRepeatedStays ==
    [][Apply => \A i \in DOMAIN pages : \A b \in ToSet(pages[i].blocks) : \A line \in ToSet(b.lines) :
          \/ Explained(line, <<>>, i)
          \/ \E kept \in ToSet(pages'[i].blocks) :
                kept.id = b.id /\ \E rest \in ToSet(kept.lines) : Explained(line, rest, i)]_vars

\* A line that opens a chapter or a section stays whole, even when the pages repeat it
\* at their edges (structuralEdge).
ChaptersStay ==
    [][Apply => \A i \in DOMAIN pages : \A b \in ToSet(pages[i].blocks) : \A line \in ToSet(b.lines) :
          Structural(line) => \E kept \in ToSet(pages'[i].blocks) : line \in ToSet(kept.lines)]_vars

\* Captions are linked to at most one figure, table or formula of their page, and a
\* link whose block went with the running matter goes too
\* (linkCaptionRelationships, applyRunningMatterToDocumentIR).
RelationsHold ==
    \A i \in DOMAIN pages :
        LET ids == {b.id : b \in ToSet(pages[i].blocks)}
        IN  \A r \in pages[i].relations :
                /\ r.from \in ids /\ r.to \in ids /\ r.from # r.to
                /\ \A s \in pages[i].relations : s.to = r.to => s = r

Outline == {n \in DOMAIN lines : lines[n].kind = "heading"}
\* What is left after the running matter has gone reaches the text of the document,
\* word for word; only formulas that were not asked for may be missing, and a heading, or a
\* line between fences that reads as one, that the heading before it repeats
\* (semanticDocumentToMarkdown, normalizeHeadingHierarchy, joinPageParagraphs,
\* repairLineWrapHyphens, repairDisplayMathProse).
TextReachesTheEnd ==
    stage \in {"hierarchy", "paragraphs", "hyphens", "formulas", "audit", "done"} =>
        \A i \in DOMAIN pages : \A b \in ToSet(pages[i].blocks) :
            \/ TokensOf(b.lines) \subseteq LineTokens
            \/ b.kind = "equation" /\ ~opts.extractEquations
            \/ /\ opts.detectHeadings /\ b.kind = "text" /\ b.level > 0
               /\ \E n \in Outline : Words(lines[n].words) = Words(b.lines[1])
            \/ /\ b.kind \in {"diagram", "code"}
               /\ \A line \in ToSet(b.lines) :
                     \/ ToSet(line) \subseteq LineTokens
                     \/ /\ Listed(line).kind = "heading"
                        /\ \E n \in Outline : Words(lines[n].words) = Words(Tail(line))

Marked(p) == {n \in DOMAIN lines : lines[n].kind = "marker" /\ lines[n].level = p}
PageOf(line) == line.words[1].page
\* The text is in the order of the pages; with markers kept, each page has one, its own
\* words are between it and the next one, and nothing is carried across it
\* (semanticDocumentToMarkdown, joinPageParagraphs, repairLineWrapHyphens).
PagesInOrder ==
    stage \in {"hierarchy", "paragraphs", "hyphens", "formulas", "audit", "done"} =>
        LET worded == {n \in DOMAIN lines : lines[n].words # <<>>}
        IN  /\ \A m, n \in worded : m < n => PageOf(lines[m]) <= PageOf(lines[n])
            /\ opts.preserveMarkers =>
                /\ \A p \in Present : Cardinality(Marked(p)) = 1
                /\ \A n \in worded : \A t \in ToSet(lines[n].words) : \A p \in Present :
                      \A m \in Marked(p) : (p <= t.page) <=> (m < n)

\* Once formulas are repaired, the marks of displayed formulas are paired and what
\* stands between two of them is no sentence (repairDisplayMathProse).
FormulasAreFormulas ==
    stage \in {"audit", "done"} =>
        LET marks == {n \in DOMAIN lines : lines[n].kind = "math" /\ ~InFence(lines, n)}
            opening == {n \in marks : Cardinality({m \in marks : m < n}) % 2 = 0}
            Closing(n) == Min({m \in marks : m > n})
        IN  /\ Cardinality(marks) % 2 = 0
            /\ opts.extractEquations => \A n \in opening :
                  LET body == FlattenSeq([k \in 1 .. Closing(n) - n - 1 |-> lines[n + k].words])
                  IN  Len(body) <= 5 \/ WordSet(body) \cap Signs # {}

\* The outline can be walked: no two headings in a row say the same, and none is more
\* than one level below the one before it unless its number says so; lines between fences
\* that read as headings count (normalizeHeadingHierarchy, and what the later passes leave
\* of it).
OutlineDescends ==
    stage \in {"paragraphs", "hyphens", "formulas", "audit", "done"} /\ opts.detectHeadings =>
        \A m, n \in Outline :
            m < n /\ ~(\E k \in Outline : m < k /\ k < n) =>
                /\ Words(lines[m].words) # Words(lines[n].words)
                /\ lines[n].level <= lines[m].level + 1

\* A document with a page missing, or with a damaged page of which no picture could be
\* kept, is never called good (qualityAudit).
NothingMissingPasses ==
    stage = "done" /\ (Present # Pages \/ \E p \in Present : given[p].quality.unsaved) =>
        AuditStatus(issues) = "needs-review"

\* What was read of the pages is still there when they are handed over as blocks, columns
\* one after the other; the blocks can be told apart, their captions lead to blocks, and
\* what is missing is told.
PagesAreKept ==
    PagesInv /\ LinesAreStillRead /\ ColumnsReadDown /\ RelationsHold /\ NothingMissingPasses

\* What the pages hold is in the document's text, as what it was read as and in the order
\* of the document, under the headings it had, after all passes.
TextIsKept ==
    /\ LinesInv /\ TextReachesTheEnd /\ FencesAreKept /\ FormulasAreFormulas
    /\ PagesInOrder /\ OutlineDescends

\* Only what is repeated at the edges of pages is taken for running matter.
OnlyRunningMatterGoes == NotRepeatedStays /\ ChaptersStay

-----------------------------------------------------------------------------
(* What the repository says of these passes and the code does not do      *)

\* README.md and the interface offer the repair of paragraphs split between pages: with
\* the option on, no sentence ends on the next page as a paragraph of its own.
\* The code does not have this property: see "Divergences" in the README.
SplitParagraphsAreJoined ==
    stage = "done" /\ opts.joinParagraphs /\ ~opts.preserveMarkers =>
        ~\E n \in DOMAIN lines :
            /\ n + 2 <= Len(lines) /\ IsProse(lines[n]) /\ lines[n + 1] = Blank
            /\ Last(lines[n].words).word \notin Stops /\ StartsLower(lines[n + 2])
            /\ PageOf(lines[n]) # PageOf(lines[n + 2])
            /\ ~InFence(lines, n) /\ ~InFence(lines, n + 2)

\* cleanup.test.js:274 "preserves code and diagram fences while removing running matter":
\* a drawing or a listing is in the document as it was read.
\* The code does not have this property: see "Divergences" in the README.
Segment(ls) == \E n \in 0 .. Len(lines) - Len(ls) :
                   \A k \in DOMAIN ls : lines[n + k] = ls[k]
FencesAreWhole ==
    stage \in {"hierarchy", "paragraphs", "hyphens", "formulas", "audit", "done"} =>
        \A e \in FencedEntries : Segment(<<Fence>> \o Listing(e.lines) \o <<Fence>>)

=============================================================================

--------------------------- MODULE DocumentReader ---------------------------
(***************************************************************************)
(* The invariants that the proofs about the text of a document rest on.    *)
(* Up to the blocks they say what every pass keeps of the pages. From the  *)
(* first line that is written they say that the document can be read: a    *)
(* reader who follows it line by line is never where a line has no place,  *)
(* and has in the end read what the blocks say.                            *)
(***************************************************************************)
EXTENDS DocumentText

-----------------------------------------------------------------------------
(* Computations step by step, and orders.                                     *)

\* f is computed from base in m steps, the n-th of which G[n] makes.
Solves(f, m, S, base, G) ==
    /\ f \in [0 .. m -> S] /\ f[0] = base
    /\ \A n \in 1 .. m : f[n] = G[n][f[n - 1]]

\* x stands before y, and no element stands twice.
Leads(s, x, y) == \E m, n \in DOMAIN s : m < n /\ s[m] = x /\ s[n] = y
Distinct(s) == \A m, n \in DOMAIN s : s[m] = s[n] => m = n

\* A flattened sequence is made by one concatenation after the other.
Joins(h, seqs, T) ==
    /\ h \in [0 .. Len(seqs) -> Seq(T)] /\ h[0] = <<>>
    /\ \A n \in 1 .. Len(seqs) : seqs[n] \in Seq(T) /\ h[n] = h[n - 1] \o seqs[n]
    /\ h[Len(seqs)] = FlattenSeq(seqs)

\* f is computed from the end: what comes from i on needs what comes from Jump[i] on.
SolvesBack(f, N, S, base, Jump, G) ==
    /\ f \in [1 .. N + 1 -> S] /\ f[N + 1] = base
    /\ \A i \in 1 .. N : f[i] = G[i][f[Jump[i]]]

\* The equations of a pass that writes a chunk and goes on further down.
Chunks(F, N, Jump, chunk) ==
    F[N + 1] = <<>> /\ \A i \in 1 .. N : F[i] = chunk[i] \o F[Jump[i]]

\* R tells any two elements of S apart, and which of them comes first.
Orders(R, S) ==
    /\ \A i \in S : <<i, i>> \notin R
    /\ \A i, j \in S : i # j => <<i, j>> \in R \/ <<j, i>> \in R
    /\ \A i, j, k \in S : <<i, j>> \in R /\ <<j, k>> \in R => <<i, k>> \in R

\* What Kept takes of a sequence, as one fact about the result.
Picked(k, s, P) ==
    /\ ToSet(k) = {s[n] : n \in P}
    /\ \E order \in [DOMAIN k -> P] :
          /\ \A n \in DOMAIN k : k[n] = s[order[n]]
          /\ \A m, n \in DOMAIN k : order[m] = order[n] => m = n
          /\ \A n \in P : \E m \in DOMAIN k : order[m] = n
-----------------------------------------------------------------------------
(* The entries of a page.                                                     *)

\* A word with its place, the lines of an entry, and an entry of a page.
Tokens == [word : STRING, page : Int, entry : Int, at : Int \X Int]
TokenLines == Seq(Seq(Tokens))
Entries == [kind : Kinds, level : 0 .. 6, layout : STRING, col : {"left", "right", "wide"},
            y : Int, h : Nat \ {0}, lines : TokenLines]

\* The line can still be read among these entries.
StillRead(line, es) == \E e \in ToSet(es) : \E l \in ToSet(e.lines) : Reads(Words(line), l)

\* All lines of es can still be read among fs.
Carried(es, fs) == \A e \in ToSet(es) : \A line \in ToSet(e.lines) : StillRead(line, fs)

\* A text has one line, a drawing or a listing has some, and all words are from the page.
OnPage(ls, home) == \A line \in ToSet(ls) : \A t \in ToSet(line) : t.page = home
Fine(e, home) == /\ IsText(e) => Len(e.lines) = 1
                 /\ e.kind \in {"diagram", "code"} => e.lines # <<>>
                 /\ OnPage(e.lines, home)
Proper(es, home) == es \in Seq(Entries) /\ \A e \in ToSet(es) : Fine(e, home)

\* The wide entries down the page, what stands above each of them, and a band of both.
Anchors(es) == Sorted(es, WideEntries(es), ByHeight)
Above(es, k) ==
    {i \in Content(es) \cap Narrow(es) :
        /\ k = 1 \/ es[i].y >= es[Anchors(es)[k - 1]].y + es[Anchors(es)[k - 1]].h
        /\ es[i].y < es[Anchors(es)[k]].y}
Bands(es) == [k \in DOMAIN Anchors(es) |->
                 Append(Sorted(es, Above(es, k), ByColumn), Anchors(es)[k])]

\* What the bands hold, what stands below the last of them, and the whole text in order.
Banded(es) == FlattenSeq(Bands(es))
Beside(es) == Content(es) \ ToSet(Banded(es))
Body(es) == IF TwoColumns(es) THEN Banded(es) \o Sorted(es, Beside(es), ByColumn)
                              ELSE Sorted(es, Content(es), ByHeight)

\* Drawings and listings come last.
Pictures(es) == InOrder(DOMAIN es \ Content(es))
-----------------------------------------------------------------------------
(* Pages, and what is decided about their edges.                              *)

\* What a block is, and the page it stands on.
Types == {"heading", "paragraph", "table", "equation", "caption", "footnote", "list", "figure"}
Blocks == [id : Nat, kind : Kinds, level : 0 .. 6, type : Types, lines : TokenLines]
PageIRs == [page : Pages, blocks : Seq(Blocks), relations : SUBSET [from : Nat, to : Nat],
            edges : [headers : TokenLines, footers : TokenLines], quality : Qualities]

\* What a decision about an edge of page i says.
SoundDecision(d, i) ==
    /\ d.text \in Seq(Tokens) /\ d.text \in EdgesOf(pages[i])
    /\ d.key = Signature(d.text) /\ d.label = Label(d.text)
    /\ d.side \in {"header", "footer"} /\ d.action \in {"KEEP", "REMOVE", "MERGE"}
    /\ d.action = "REMOVE" => Label(d.text) \/ Repeated(d.text, i)
    /\ d.action = "MERGE" => Repeated(d.text, i)
Decisions(i) ==
    {d \in [side : {"header", "footer"}, text : Seq(Tokens), key : Seq(STRING), label : BOOLEAN,
            action : {"KEEP", "REMOVE", "MERGE"}] : SoundDecision(d, i)}

\* What a pass of a decision, and all of them, leave of a block's lines.
Leaves(ls, ms, i) ==
    /\ ms \in Seq(Seq(Tokens)) /\ Len(ms) = Len(ls)
    /\ \A k \in 1 .. Len(ls) : /\ Explained(ls[k], ms[k], i)
                               /\ Structural(ls[k]) => ms[k] = ls[k]
                               /\ ls[k] = <<>> => ms[k] = <<>>
                               /\ ToSet(ms[k]) \subseteq ToSet(ls[k])

\* What is left of a block.
LeftOf(b, c) ==
    /\ c.kind = b.kind /\ c.level = b.level /\ (Len(b.lines) = 1 => Len(c.lines) = 1)
    /\ \A rest \in ToSet(c.lines) : \E line \in ToSet(b.lines) : ToSet(rest) \subseteq ToSet(line)

\* What a page is when the running matter has gone: its lines are explained, its chapters
\* stay, and what is not edited is there as it was.
Cleared(page, made, i) ==
    /\ made.page = page.page /\ made.quality = page.quality
    /\ \A b \in ToSet(page.blocks) : \A line \in ToSet(b.lines) :
          /\ \/ Explained(line, <<>>, i)
             \/ \E kept \in ToSet(made.blocks) :
                   kept.id = b.id /\ \E rest \in ToSet(kept.lines) : Explained(line, rest, i)
          /\ Structural(line) => \E kept \in ToSet(made.blocks) : line \in ToSet(kept.lines)
    /\ \A c \in ToSet(made.blocks) : \E b \in ToSet(page.blocks) : LeftOf(b, c)
    /\ \A b \in ToSet(page.blocks) : ~Editable(b) /\ b.lines # <<>> => b \in ToSet(made.blocks)

\* A text line by line, with the places of its words.
TaggedLines(ts, p, i) == [k \in DOMAIN ts |-> Tagged(ts[k], p, i, k)]

\* A heading has one line, and all words are from the page.
Read(e, home) == (IsText(e) /\ IsHeading(e) => Len(e.lines) = 1) /\ OnPage(e.lines, home)

\* What RelationsHold says of a page, and its blocks' ids.
LinkedPage(page) ==
    /\ \A j, k \in DOMAIN page.blocks : page.blocks[j].id = page.blocks[k].id => j = k
    /\ \A r \in page.relations : /\ \E b, c \in ToSet(page.blocks) : r.from = b.id /\ r.to = c.id
                                 /\ r.from # r.to
                                 /\ \A s \in page.relations : s.to = r.to => s = r

\* A block that says what an entry says.
SameText(b, e) == b.kind = e.kind /\ b.level = e.level /\ b.lines = e.lines
-----------------------------------------------------------------------------
(* The invariant of the pages.                                                *)

\* The passes over the entries of the pages.
EntryStages == {"order", "headings", "diagrams", "code", "equations"}

\* What the variables are.
TypesHold ==
    /\ given \in [Pages -> Sources] /\ opts \in Settings /\ stage \in Stages
    /\ entries \in [Pages -> Seq(Entries)]
    /\ pages \in Seq(PageIRs)

\* A drawing or a listing is a block.
InBlocks(e, bs) ==
    e.kind \in {"diagram", "code"} => \E b \in ToSet(bs) : b.kind = e.kind /\ b.lines = e.lines

\* The passes over the entries have a page to work on, and what they need of it; the
\* decisions that are applied are those made about these pages.
PassesCanRun ==
    /\ todo \subseteq From("worker")
    /\ stage \in EntryStages => todo # {}
    /\ \A p \in From("worker") : Proper(entries[p], p)
    /\ \A p \in Pages : \A e \in ToSet(entries[p]) : Read(e, p)
    /\ stage = "apply" => decisions = ClassifyRunningMatter(pages, opts)

\* Every page that is there is handed over, once and in its place, with what was read of
\* it, its drawings and listings whole, and with what is known of its quality.
PagesAreThere ==
    /\ \A i \in DOMAIN pages :
          /\ pages[i].page \in Present /\ LinkedPage(pages[i])
          /\ \A b \in ToSet(pages[i].blocks) : Read(b, pages[i].page)
          /\ \A j \in DOMAIN pages : i < j => pages[i].page < pages[j].page
    /\ stage \notin EntryStages \cup {"ir"} =>
          /\ Len(pages) = Cardinality(Present)
          /\ \A p \in Present : \E i \in DOMAIN pages :
                /\ pages[i].page = p /\ pages[i].quality = given[p].quality
                /\ given[p].from = "worker" => \A e \in ToSet(entries[p]) : InBlocks(e, pages[i].blocks)

\* The inductive invariant of the passes up to the blocks.
TextInv == TypesHold /\ PassesCanRun /\ PagesAreThere /\ LinesAreStillRead /\ NothingMissingPasses
-----------------------------------------------------------------------------
(* Reading a document line by line. What a reader knows after some lines is   *)
(* a state: every pass of the cleanup is shown to leave a document that takes *)
(* the reader from the same beginning to the same end.                        *)

\* A line of the document.
LineKinds == {"text", "heading", "blank", "marker", "fence", "math", "picture", "row"}
Lines == [kind : LineKinds, level : 0 .. PageCount + 6, words : Seq(Tokens)]

\* Where the reader is (in the text, between fences or in a formula), on which page and
\* under which heading, what is open there, and what has been read: words, titles, markers
\* and fenced texts.
Readers == [at : {"text", "fence", "math"}, page : Int, level : Nat, title : Seq(STRING),
            body : Seq(Tokens), fence : Seq(Lines), said : SUBSET Tokens,
            titles : SUBSET (Seq(STRING) \cup Seq(Tokens)), marked : SUBSET Int,
            fences : SUBSET Seq(Lines)]

\* Which document it is: whether formulas are wanted and headings are cleaned up, and
\* whether the headings are in order and the formulas repaired by now.
Manners == [formulas : BOOLEAN, detect : BOOLEAN, ordered : BOOLEAN, repaired : BOOLEAN]

\* How a heading is known, and a formula that the repair lets stand.
Title(m, l) == IF m.detect THEN Words(l.words) ELSE l.words
GoodFormula(body) == Len(body) <= 5 \/ WordSet(body) \cap Signs # {}

\* A line leads to a page: a marker to its own, a blank line to this one or a later one.
TurnsTo(q, l, p) ==
    IF l.kind = "marker" THEN q.page < p /\ p = l.level
    ELSE IF l.kind = "blank" THEN q.page <= p ELSE p = q.page

\* The line may come next: fences and formulas hold text only, fences also what reads as a
\* heading; the words are from the page that is being read, and headings that are in order do
\* not repeat and skip no level.
Fits(m, q, l) ==
    /\ q.at # "text" => l.kind \in {"text", q.at} \/ (q.at = "fence" /\ l.kind = "heading")
    /\ l.kind \in {"blank", "marker", "math"} => l.words = <<>>
    /\ l.kind = "fence" => l = Fence
    /\ \A t \in ToSet(l.words) : t.page = q.page
    /\ l.kind = "heading" => /\ l.level > 0
                             /\ m.ordered => Words(l.words) # q.title
                             /\ m.ordered /\ q.level > 0 => l.level <= q.level + 1
    /\ l.kind = "math" /\ q.at = "math" /\ m.repaired => GoodFormula(q.body)

\* Where the line leads, and what is known behind it.
GoesTo(q, l) == IF q.at = "text" THEN IF l.kind \in {"fence", "math"} THEN l.kind ELSE "text"
                ELSE IF l.kind = q.at THEN "text" ELSE q.at
Reading(m, q, l, p) ==
    [at |-> GoesTo(q, l), page |-> p,
     level |-> IF l.kind = "heading" THEN l.level ELSE q.level,
     title |-> IF l.kind = "heading" THEN Words(l.words) ELSE q.title,
     body |-> IF q.at = "math" /\ l.kind # "math" THEN q.body \o l.words ELSE <<>>,
     fence |-> IF q.at = "fence" /\ l.kind # "fence" THEN FenceLine(q.fence, l, m.detect) ELSE <<>>,
     said |-> IF l.kind = "heading" \/ (q.at = "math" /\ ~m.formulas) THEN q.said
              ELSE q.said \cup ToSet(l.words),
     titles |-> IF l.kind = "heading" THEN q.titles \cup {Title(m, l)} ELSE q.titles,
     marked |-> IF l.kind = "marker" THEN q.marked \cup {l.level} ELSE q.marked,
     fences |-> IF q.at = "fence" /\ l.kind = "fence" THEN q.fences \cup {q.fence} ELSE q.fences]

\* One line, line by line, and a document as a whole.
Moves(m, q, l, r) == Fits(m, q, l) /\ TurnsTo(q, l, r.page) /\ r = Reading(m, q, l, r.page)
Walk(m, ls, w) ==
    /\ w \in [0 .. Len(ls) -> Readers]
    /\ \A i \in 1 .. Len(ls) : Moves(m, w[i - 1], ls[i], w[i])
Takes(m, ls, q, e) == \E w : Walk(m, ls, w) /\ w[0] = q /\ w[Len(ls)] = e
-----------------------------------------------------------------------------
(* What lines do to a reader.                                                 *)

\* Nothing is open that is not being read.
Rested(q) == /\ q.at # "math" => q.body = <<>>
             /\ q.at # "fence" => q.fence = <<>>

\* What has been read stays read.
Grows(q, e) == /\ q.page <= e.page
               /\ q.said \subseteq e.said /\ q.titles \subseteq e.titles
               /\ q.marked \subseteq e.marked /\ q.fences \subseteq e.fences

\* A heading that is in force has been read.
TitleKnown(m, q) == m.detect => q.title \in q.titles

\* A reader behind some lines of words.
After(m, q, words, ls) ==
    [q EXCEPT !.said = IF q.at = "math" /\ ~m.formulas THEN @ ELSE @ \cup ToSet(words),
              !.body = IF q.at = "math" THEN @ \o words ELSE @,
              !.fence = IF q.at = "fence" THEN @ \o ls ELSE @]

\* The words of lines, and lines that are words.
Texted(ls) == [k \in DOMAIN ls |-> ls[k].words]
Worded(ls) == \A k \in DOMAIN ls : ls[k].kind \in {"text", "picture", "row"}

\* The readers along such lines, and what they have in common.
Runs(m, q, ls, f) ==
    /\ f \in [0 .. Len(ls) -> Readers] /\ f[0] = q
    /\ \A n \in 1 .. Len(ls) : f[n] = Reading(m, f[n - 1], ls[n], q.page)
Stays(q, r) == r.at = q.at /\ r.page = q.page /\ r.level = q.level /\ r.title = q.title
-----------------------------------------------------------------------------
(* Blocks and pages as lines.                                                 *)

\* The lines of a block, all of one kind.
OfKind(kind, ls) == [i \in DOMAIN ls |-> Written(kind, 0, ls[i])]

\* A listing's words, or the titles that its lines read as, have been read.
ListingRead(m, e, ls) ==
    \A line \in ToSet(ls) : \/ ToSet(line) \subseteq e.said
                            \/ Listed(line).kind = "heading" /\ Title(m, Listed(line)) \in e.titles

\* What a document says of a block.
Held(m, e, b) ==
    /\ \/ TokensOf(b.lines) \subseteq e.said
       \/ b.kind = "equation" /\ ~m.formulas
       \/ /\ b.kind = "text" /\ b.level > 0
          /\ (IF m.detect THEN Words(b.lines[1]) ELSE b.lines[1]) \in e.titles
       \/ b.kind \in {"diagram", "code"} /\ ListingRead(m, e, b.lines)
    /\ b.kind \in {"diagram", "code"} => FenceText(Listing(b.lines), m.detect) \in e.fences

\* A document as it is first written.
Raw(m) == m \in Manners /\ ~m.ordered /\ ~m.repaired

\* Where a reader is between two blocks.
Free(q) == q \in Readers /\ q.at = "text" /\ Rested(q)

\* Lines between the marks of a formula, or between fences.
FormulaEnd(m, ls, q, e) ==
    /\ Takes(m, <<MathFence>> \o Plain(ls) \o <<MathFence>>, q, e)
    /\ <<MathFence>> \o Plain(ls) \o <<MathFence>> \in Seq(Lines)
    /\ Free(e) /\ e.page = q.page /\ e.marked = q.marked
    /\ m.formulas => TokensOf(ls) \subseteq e.said
FencedEnd(m, ls, q, e) ==
    /\ Takes(m, <<Fence>> \o Listing(ls) \o <<Fence>>, q, e)
    /\ <<Fence>> \o Listing(ls) \o <<Fence>> \in Seq(Lines)
    /\ Free(e) /\ e.page = q.page /\ e.marked = q.marked
    /\ ListingRead(m, e, ls) /\ FenceText(Listing(ls), m.detect) \in e.fences

\* The prefixes of parts that are separated by blank lines.
Separates(U, parts) ==
    /\ U \in [0 .. Len(parts) -> Seq(Lines)] /\ U[0] = <<>>
    /\ \A n \in 1 .. Len(parts) : U[n] = Beneath(U[n - 1], parts[n])
    /\ U[Len(parts)] = Separated(parts)

\* A blank line, after which the next page may begin.
BlankEnd(m, q, p, r) ==
    /\ Takes(m, <<Blank>>, q, r) /\ Free(r) /\ r.page = p /\ r.marked = q.marked
    /\ r.said = q.said /\ r.titles = q.titles /\ r.fences = q.fences

\* A marker, behind which its page begins.
MarkerEnd(m, q, p, r) ==
    /\ Takes(m, <<Marker(p)>>, q, r) /\ Free(r) /\ r.page = p
    /\ r.marked = q.marked \cup {p}

\* How many parts of a page come before its blocks.
Ahead(preserve) == IF preserve THEN 1 ELSE 0

\* Before the first line.
Start(p) ==
    [at |-> "text", page |-> p, level |-> 0, title |-> <<>>, body |-> <<>>, fence |-> <<>>,
     said |-> {}, titles |-> {<<>>}, marked |-> {}, fences |-> {}]

\* Blocks, and a page with them, that can be read.
Holds(m, e, bs) == \A b \in ToSet(bs) : Held(m, e, b)
ReadsPage(m, page, preserve, q, e) ==
    /\ Separated(PageParts(page, preserve)) \in Seq(Lines)
    /\ Takes(m, Separated(PageParts(page, preserve)), q, e)
    /\ Free(e) /\ e.page = page.page
    /\ e.marked = q.marked \cup IF preserve THEN {page.page} ELSE {}
    /\ Holds(m, e, page.blocks)

\* How a document is read.
ReadsAll(m, ps, preserve, ls, e) ==
    /\ ls \in Seq(Lines)
    /\ \E s \in Int : Takes(m, ls, Start(s), e)
    /\ Free(e)
    /\ e.marked = IF preserve THEN {ps[k].page : k \in DOMAIN ps} ELSE {}
    /\ \A k \in DOMAIN ps : Holds(m, e, ps[k].blocks)
-----------------------------------------------------------------------------
(* The passes over the lines.                                                 *)

\* The document with its headings in order, and a reader under another level.
InOrdered(m) == [m EXCEPT !.ordered = TRUE]
Leveled(r, k) == [r EXCEPT !.level = k]

\* A reader that differs in the level only.
Alike(r, q, k) ==
    /\ r.level = k /\ r.at = q.at /\ r.page = q.page /\ r.title = q.title /\ r.body = q.body
    /\ r.fence = q.fence /\ r.said = q.said /\ r.titles = q.titles /\ r.marked = q.marked
    /\ r.fences = q.fences

\* What normalizeHeadingHierarchy keeps track of.
Dones == [out : Seq(Lines), level : 0 .. PageCount + 6, text : Seq(STRING)]

\* What the headings' levels were changed to, line by line.
Outlines(h, ls) ==
    /\ h \in [0 .. Len(ls) -> Dones] /\ h[0] = [out |-> <<>>, level |-> 0, text |-> <<>>]
    /\ \A n \in 1 .. Len(ls) : h[n] = Heading(h[n - 1], ls[n])
    /\ h[Len(ls)].out = NormalizeHeadingHierarchy(ls)

\* The headings in order, and the level they end with.
HierarchyEnd(m, ls, s, e, k) ==
    /\ NormalizeHeadingHierarchy(ls) \in Seq(Lines)
    /\ Takes(InOrdered(m), NormalizeHeadingHierarchy(ls), Start(s), Leveled(e, k))

\* A line that goes on in the next one, the two as one, and the lines put together.
Wraps(ls, i) == /\ ~InFence(ls, i) /\ Broken(ls[i])
                /\ i < Len(ls) /\ StartsLower(ls[i + 1])
Together(l, rest) == <<Written("text", 0, l.words \o rest[1].words)>> \o Tail(rest)
Unwraps(F, ls) ==
    /\ F[Len(ls) + 1] = <<>>
    /\ \A i \in 1 .. Len(ls) : F[i] = IF Wraps(ls, i) THEN Together(ls[i], F[i + 1])
                                                     ELSE <<ls[i]>> \o F[i + 1]
    /\ F[1] = RepairLineWrapHyphens(ls)

\* A mark that opens a formula is followed by one that closes it, with text between them.
Closed(ls, w, i) ==
    /\ Close(ls, i) \in i + 1 .. Len(ls) /\ ls[Close(ls, i)].kind = "math"
    /\ \A j \in i + 1 .. Close(ls, i) - 1 : ls[j].kind = "text"
    /\ \A j \in i .. Close(ls, i) - 1 : w[j].at = "math"

\* The words between the marks, and what the reader knows of them behind the second.
Inside(ls, i) == SubSeq(ls, i + 1, Close(ls, i) - 1)
Said(m, q, words) == [q EXCEPT !.said = IF m.formulas THEN @ \cup ToSet(words) ELSE @]
Anatomy(m, ls, w, i) ==
    /\ \A k \in DOMAIN Inside(ls, i) : \A t \in ToSet(Inside(ls, i)[k].words) : t.page = w[i - 1].page
    /\ w[Close(ls, i) - 1].body = Enclosed(ls, i)
    /\ w[Close(ls, i)] = Said(m, w[i - 1], Enclosed(ls, i))

\* The document with its formulas repaired.
Repairing(m) == [m EXCEPT !.repaired = TRUE]

\* The repair of formulas, chunk by chunk.
Opens(ls, i) == ls[i].kind = "math" /\ ~InFence(ls, i) /\ Close(ls, i) <= Len(ls)
Past(ls) == [i \in 1 .. Len(ls) |-> IF Opens(ls, i) THEN Close(ls, i) + 1 ELSE i + 1]
Mended(ls, i) ==
    IF FalseDisplayMath(Enclosed(ls, i)) THEN Inside(ls, i)
    ELSE IF ProseAfter(Enclosed(ls, i)) # {} THEN Repair(Enclosed(ls, i))
    ELSE SubSeq(ls, i, Close(ls, i))
Mendings(ls) == [i \in 1 .. Len(ls) |-> IF Opens(ls, i) THEN Mended(ls, i) ELSE <<ls[i]>>]

\* Leaving formulas out, chunk by chunk.
Drops(ls, i) == ls[i].kind = "math" /\ Close(ls, i) <= Len(ls)
Beyond(ls) == [i \in 1 .. Len(ls) |-> IF Drops(ls, i) THEN Close(ls, i) + 1 ELSE i + 1]
Leavings(ls) == [i \in 1 .. Len(ls) |-> IF Drops(ls, i) THEN <<>> ELSE <<ls[i]>>]
-----------------------------------------------------------------------------
(* The invariant of the document.                                             *)

\* The passes over the lines, and what holds of the document before each of them.
LateStages == {"hierarchy", "paragraphs", "hyphens", "formulas", "audit", "done"}
Manner(o, now) ==
    [formulas |-> o.extractEquations, detect |-> o.detectHeadings,
     ordered |-> o.detectHeadings /\ now # "hierarchy",
     repaired |-> o.extractEquations /\ now \in {"audit", "done"}]

\* The document can be read, and to the end that the pages lead to.
CanBeRead(m, ps, preserve, ls) == \E e : ReadsAll(m, ps, preserve, ls, e)
LinesAreRead ==
    IF stage \in LateStages THEN CanBeRead(Manner(opts, stage), pages, opts.preserveMarkers, lines)
                            ELSE lines = <<>>

\* The inductive invariant of all passes.
DocumentInv == TextInv /\ LinesAreRead
-----------------------------------------------------------------------------
(* What is true of a document that can be read.                               *)

\* A whole document, read from the beginning to the end.
Whole(m, ls, w) ==
    /\ m \in Manners /\ ls \in Seq(Lines) /\ Walk(m, ls, w)
    /\ \E s \in Int : w[0] = Start(s)
    /\ Free(w[Len(ls)])

\* What a line changes of what the reader knows.
Moved(m, q, l, r) ==
    /\ Fits(m, q, l) /\ r.at = GoesTo(q, l) /\ TurnsTo(q, l, r.page)
    /\ l.kind \notin {"blank", "marker"} => r.page = q.page
    /\ r.level = IF l.kind = "heading" THEN l.level ELSE q.level
    /\ r.title = IF l.kind = "heading" THEN Words(l.words) ELSE q.title
    /\ r.fence = IF q.at = "fence" /\ l.kind # "fence" THEN FenceLine(q.fence, l, m.detect) ELSE <<>>
    /\ r.said \subseteq q.said \cup ToSet(l.words)
    /\ r.titles = IF l.kind = "heading" THEN q.titles \cup {Title(m, l)} ELSE q.titles
    /\ r.marked = IF l.kind = "marker" THEN q.marked \cup {l.level} ELSE q.marked
    /\ r.fences = IF q.at = "fence" /\ l.kind = "fence" THEN q.fences \cup {q.fence} ELSE q.fences

\* A fenced text stands between two fences.
Bracketed(m, ls, x, a, b) == /\ a < b /\ ls[a] = Fence /\ ls[b] = Fence
                             /\ x = FenceText(SubSeq(ls, a + 1, b - 1), m.detect)
OpenAt(m, ls, x, a, n) == a <= n /\ ls[a] = Fence /\ x = FenceText(SubSeq(ls, a + 1, n), m.detect)
=============================================================================

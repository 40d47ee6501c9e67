---------------------------- MODULE ReviewSession ----------------------------
(***************************************************************************)
(* What a user does with an extracted document (web-app src/app.js with    *)
(* shared/review-queue.js, storage/workspace-db.js and                     *)
(* bundle-import-ui.js): edits the Markdown, decides on the equations of   *)
(* the review queue, saves Word files, bundles and workspace files, opens  *)
(* them again, and reloads the application.                                *)
(*                                                                         *)
(* A page is what the extraction left of it: the nodes of its semantic     *)
(* document, its assets and its equations.  The ids of both carry the      *)
(* number of their page, so that an id is that of one asset and of one     *)
(* equation; they are kept as sets, for their order decides nothing here.  *)
(* An action is a task up to its next await; restore() is one action,      *)
(* since its awaits against a running extraction are the business of       *)
(* ExtractionSession.  A saved bundle keeps a note of the document it was  *)
(* made of, for the properties.                                            *)
(***************************************************************************)
EXTENDS WordExport, DocumentBundle

CONSTANTS
    Documents,      \* documents a session may begin with
    ForeignFiles,   \* documents in workspace files of other sessions
    MarkdownFiles,  \* Markdown files the user may open
    Texts,          \* what the user may make of the Markdown
    Formulas,       \* what the user may make of an equation
    Pdfs,           \* PDFs the user may open
    MaxPage,
    Words,          \* the words of the documents, as opposed to their formulas
    MaxSteps        \* bound on what the user does

-----------------------------------------------------------------------------
(* Pages.                                                                  *)

Dispositions == {"queued", "accepted", "review", "preserved"}
PartType == [k : STRING, v : Seq(STRING)]
TextType == Seq(Seq(PartType))
ContentType == [of : {"none", "png", "svg", "clean svg"}, v : Seq(STRING)]
AssetType ==
    [id : Ids, source : Ids, sourceKind : Kinds, page : 1..MaxPage, kind : Kinds,
     mime : {"png", "svg"}, data : ContentType, svg : ContentType,
     ir : SUBSET (Refusals \cup {"mermaid"}),
     disposition : Dispositions, latex : Seq(STRING)]
ItemType ==
    [id : Ids, page : 1..MaxPage, source : Ids, latex : Seq(STRING),
     disposition : Dispositions, mandatory : BOOLEAN]
PageType ==
    [nodes : Seq([lines : TextType, disposition : STRING]),
     assets : SUBSET AssetType, items : SUBSET ItemType]
ArePages(ps) == DOMAIN ps \subseteq 1..MaxPage /\ ps \in [DOMAIN ps -> PageType]

\* An equation is its own source and has a formula.  It is accepted only when its
\* validation passed, and that needs the formula to parse.
ItemValid(item) ==
    /\ item.source = item.id
    /\ item.latex # <<>>
    /\ item.mandatory => ParseLatex(item.latex).accepted
    /\ item.disposition = "accepted" => item.mandatory

\* An asset is its own source: a drawing, or a picture with perhaps a drawing.
AssetValid(a) ==
    /\ a.source = a.id
    /\ a.mime = "svg" => a.data = NoContent
    /\ a.mime = "png" /\ a.data = NoContent => a.svg = NoContent
    /\ a.disposition = "accepted" /\ a.latex # <<>> => ParseLatex(a.latex).accepted

\* The things of all pages have ids of their own.
OneOfEachId(f) ==
    \A p, q \in DOMAIN f : \A x \in f[p], y \in f[q] : x.id = y.id => p = q /\ x = y

PagesValid(ps) ==
    /\ \A p \in DOMAIN ps :
          /\ \A item \in ps[p].items : ItemValid(item)
          /\ \A a \in ps[p].assets : AssetValid(a)
    /\ OneOfEachId([p \in DOMAIN ps |-> ps[p].items])
    /\ OneOfEachId([p \in DOMAIN ps |-> ps[p].assets])

ASSUME SessionAssumption ==
    /\ MaxPage \in Nat
    /\ MaxSteps \in Nat
    /\ "none" \notin Pdfs
    /\ Formulas \subseteq Seq(STRING) \ {<<>>}
    /\ MarkdownFiles \cup Texts \subseteq TextType
    /\ \A d \in Documents : d.steps \in 0..MaxSteps
    /\ \A d \in Documents \cup ForeignFiles :
          d.markdown \in TextType /\ ArePages(d.pages) /\ PagesValid(d.pages)

VARIABLES
    pdf,       \* state.pdfBytes, "none" for null
    pages,     \* state.pages
    markdown,  \* state.markdown
    queue,     \* state.reviewQueue
    timer,     \* state.saveTimer is set
    saves,     \* calls of saveResult that have not written yet
    stored,    \* the workspace in the database
    building,  \* a bundle of which the Word file is made, the rest is not
    word,      \* the Word file saved last
    bundle,    \* the bundle saved last
    file,      \* the workspace file saved last
    steps

session == <<pdf, pages, markdown, queue>>
saved == <<word, bundle, file>>
vars == <<session, timer, saves, stored, building, saved, steps>>

PdfNames == Pdfs \cup {"none"} \cup {d.pdf : d \in Documents \cup ForeignFiles}
NoPages == [p \in {} |-> <<>>]

Step == steps < MaxSteps /\ steps' = steps + 1

-----------------------------------------------------------------------------
(* The review queue.                                                       *)

\* buildReviewQueue: the equations of all pages, each with the page it is on.
BuildReviewQueue(ps) ==
    UNION {{[item EXCEPT !.page = p] : item \in ps[p].items} : p \in DOMAIN ps}

CanAccept(item) == item.mandatory /\ item.disposition # "preserved"

\* reviewQueueDecide.
Accepted(item) == [item EXCEPT !.disposition = IF CanAccept(item) THEN "accepted" ELSE "review"]
Preserved(item) == [item EXCEPT !.disposition = "preserved"]
\* Mutant: what was validated before the edit stays validated.
EditedUnchecked(item, latex) == [item EXCEPT !.latex = latex, !.disposition = "review"]

Edited(item, latex) ==
    LET accepted == ParseLatex(latex).accepted
    IN [item EXCEPT !.latex = latex, !.mandatory = accepted,
                    !.disposition = IF accepted THEN "review" ELSE "preserved"]

\* The pages with an equation replaced.
WithItem(ps, item) ==
    [ps EXCEPT ![item.page].items =
        {IF other.id = item.id THEN item ELSE other : other \in @}]

-----------------------------------------------------------------------------
(* The workspace in the database.                                          *)

Meta(text, items) == [pdf |-> pdf, markdown |-> text, queue |-> items]

\* persist: nothing is saved of a session without a PDF.
Persist(text, items) ==
    saves' = IF pdf = "none" THEN saves ELSE Append(saves, Meta(text, items))

\* { ...old, ...new }.
Over(new, old) ==
    [key \in DOMAIN new \cup DOMAIN old |-> IF key \in DOMAIN new THEN new[key] ELSE old[key]]

\* Mutant: saveResult keeps what was stored.
SaveResultOld(previous, meta) == Over(previous, meta)

\* saveResult: what is stored and not given stays.
SaveResult(previous, meta) == Over(meta, previous)

Commit ==
    /\ saves # <<>>
    /\ saves' = Tail(saves)
    /\ stored' = [stored EXCEPT !.meta = <<SaveResult(@[1], Head(saves))>>]
    /\ UNCHANGED <<session, timer, building, saved, steps>>

SaveTimer ==
    /\ timer
    /\ timer' = FALSE
    /\ Persist(markdown, queue)
    /\ UNCHANGED <<session, stored, building, saved, steps>>

\* startWorkspace and, after an import, savePage for each page.
Workspace(d, items) ==
    [meta |-> <<[pdf |-> d.pdf, markdown |-> d.markdown, queue |-> items,
                 version |-> ExtractionVersion]>>,
     pdf |-> d.pdf, pages |-> d.pages]

-----------------------------------------------------------------------------
(* Opening a document, editing it and deciding on its equations.           *)

Init ==
    /\ \E d \in Documents :
          /\ pdf = d.pdf
          /\ pages = d.pages
          /\ markdown = d.markdown
          /\ queue = BuildReviewQueue(d.pages)
          /\ stored = IF d.pdf = "none" THEN [meta |-> <<>>, pdf |-> "none", pages |-> NoPages]
                      ELSE Workspace(d, queue)
          /\ steps = d.steps
    /\ timer = FALSE
    /\ saves = <<>>
    /\ building = <<>>
    /\ word = <<>>
    /\ bundle = <<>>
    /\ file = <<>>

\* The session shows another document; a pending timer stays.
Show(d) ==
    /\ pdf' = d.pdf
    /\ pages' = d.pages
    /\ markdown' = d.markdown
    /\ queue' = BuildReviewQueue(d.pages)

\* openFile.
OpenFile(name) ==
    /\ Step
    /\ LET d == [pdf |-> name, pages |-> NoPages, markdown |-> <<>>]
       IN Show(d) /\ stored' = Workspace(d, {})
    /\ UNCHANGED <<timer, saves, building, saved>>

OpenMarkdown(text) ==
    /\ Show([pdf |-> "none", pages |-> NoPages, markdown |-> text])
    /\ UNCHANGED stored

\* markdownInput.onchange.
OpenMarkdownFile(text) ==
    /\ Step
    /\ OpenMarkdown(text)
    /\ UNCHANGED <<timer, saves, building, saved>>

\* markdownEditor.oninput.
EditMarkdown(text) ==
    /\ Step
    /\ text # markdown
    /\ markdown' = text
    /\ timer' = TRUE
    /\ UNCHANGED <<pdf, pages, queue, saves, stored, building, saved>>

\* setReviewItemDisposition, then persist; an id is that of one equation.  The
\* Markdown stays as it is, and so do the stored pages.
SetReviewItemDisposition(item) ==
    /\ Step
    /\ pages' = WithItem(pages, item)
    /\ queue' = BuildReviewQueue(pages')
    /\ Persist(markdown, queue')
    /\ UNCHANGED <<pdf, markdown, timer, stored, building, saved>>

\* The button Accept is disabled for an equation that was not validated.
AcceptItem ==
    \E item \in queue : item.mandatory /\ SetReviewItemDisposition(Accepted(item))

\* An empty text in the editor means the formula as it was.
EditItem ==
    \E item \in queue : \E latex \in Formulas \cup {item.latex} :
        SetReviewItemDisposition(Edited(item, latex))

KeepOriginal ==
    \E item \in queue : SetReviewItemDisposition(Preserved(item))

-----------------------------------------------------------------------------
(* Saving files.  Everything that is saved needs some Markdown.            *)

\* assetMap.
AssetMap(ps) ==
    LET all == UNION {ps[p].assets : p \in DOMAIN ps}
    IN [id \in {a.id : a \in all} |-> CHOOSE a \in all : a.id = id]

\* An asset as the Word writers see it.
AsVisual(a) ==
    [data |-> IF a.data = NoContent THEN "none" ELSE IF a.mime = "svg" THEN "svg" ELSE "raster",
     svg |-> a.svg # NoContent, fallback |-> FALSE, ir |-> a.ir]

\* currentSemanticDocument: the pages' own semantic documents.  The pages of a
\* restored bundle have none, and no text to make one of.
CurrentSemanticDocument ==
    SelectSeq([p \in 1..MaxPage |-> IF p \in DOMAIN pages THEN [page |-> p, nodes |-> pages[p].nodes]
                                    ELSE [page |-> 0, nodes |-> <<>>]],
              LAMBDA s : s.page # 0)

\* markdownToDocx: of the semantic document if there is one, else of the
\* Markdown.
WordOf(lines, streamed, breaks, assets) ==
    [lines |-> lines, streamed |-> streamed, breaks |-> breaks, assets |-> assets,
     blocks |-> IF streamed THEN StreamedBlocks(lines, breaks, assets)
                ELSE DocxBlocks(lines, breaks, assets)]

WordFile(streamed, breaks) ==
    WordOf(IF CurrentSemanticDocument = <<>> THEN markdown
           ELSE SemanticDocumentToMarkdown(CurrentSemanticDocument),
           streamed, breaks, [id \in DOMAIN AssetMap(pages) |-> AsVisual(AssetMap(pages)[id])])

\* saveDocx; large documents are streamed.
SaveDocx ==
    /\ Step
    /\ markdown # <<>>
    /\ \E streamed, breaks \in BOOLEAN : word' = <<WordFile(streamed, breaks)>>
    /\ UNCHANGED <<session, timer, saves, stored, building, bundle, file>>

\* saveBundle up to the await for the Word file.  One bundle is built at a time
\* here; the application lets the user begin another once the page is redrawn.
BeginBundle ==
    /\ Step
    /\ markdown # <<>>
    /\ building = <<>>
    /\ building' = <<[semantic |-> CurrentSemanticDocument, word |-> WordFile(FALSE, TRUE).blocks]>>
    /\ UNCHANGED <<session, timer, saves, stored, saved>>

\* The rest of it, with what the session holds by now.
FinishBundle ==
    /\ building # <<>>
    /\ building' = <<>>
    /\ LET d == [markdown |-> markdown, pdf |-> pdf, assets |-> AssetMap(pages), items |-> queue,
                 semantic |-> building[1].semantic, word |-> building[1].word]
           made == BuildReconstructableBundle(d)
       IN bundle' = IF made.built THEN <<[zip |-> made.zip, of |-> d, damaged |-> FALSE]>> ELSE bundle
    /\ UNCHANGED <<session, timer, saves, stored, word, file, steps>>

\* save("workspace").
SaveWorkspaceFile ==
    /\ Step
    /\ file' = <<[pdf |-> pdf, pages |-> pages, markdown |-> markdown]>>
    /\ UNCHANGED <<session, timer, saves, stored, building, word, bundle>>

-----------------------------------------------------------------------------
(* Opening what was saved.                                                 *)

\* restore() of a workspace file or of a bundle.
Restore(d) == Show(d) /\ stored' = Workspace(d, d.queue)

\* A file without a PDF fails in preparePdf, after the session has taken it over.
ImportWorkspace(d) ==
    /\ Step
    /\ IF d.pdf = "none" THEN Show(d) /\ UNCHANGED stored
       ELSE Restore([pdf |-> d.pdf, pages |-> d.pages, markdown |-> d.markdown,
                     queue |-> BuildReviewQueue(d.pages)])
    /\ UNCHANGED <<timer, saves, building, saved>>

ImportFile ==
    \/ \E d \in ForeignFiles : ImportWorkspace(d)
    \/ file # <<>> /\ ImportWorkspace(file[1])

\* The bundle that is imported is checked first, then handed on as a workspace
\* file or, without a PDF, as a Markdown file.
HandOff(zip) ==
    IF BundlePdf(zip) # "none" /\ BundleVersion(zip) >= 0
    THEN LET ps == BundlePages(zip)
         IN Restore([pdf |-> BundlePdf(zip), pages |-> ps, markdown |-> BundleMarkdown(zip),
                     queue |-> BuildReviewQueue(ps)])
    ELSE OpenMarkdown(BundleMarkdown(zip))

ImportBundle ==
    /\ Step
    /\ bundle # <<>>
    /\ IF Sound(bundle[1].zip) THEN HandOff(bundle[1].zip) ELSE UNCHANGED <<session, stored>>
    /\ UNCHANGED <<timer, saves, building, saved>>

\* loadWorkspace and restore() in an application that was loaded anew.
Reload ==
    /\ Step
    /\ stored.meta # <<>>
    /\ LET meta == stored.meta[1]
           current == meta.version = ExtractionVersion
       IN Show([pdf |-> stored.pdf, pages |-> IF current THEN stored.pages ELSE NoPages,
                markdown |-> IF current THEN meta.markdown ELSE <<>>])
    /\ timer' = FALSE
    /\ saves' = <<>>
    /\ building' = <<>>
    /\ UNCHANGED <<stored, saved>>

\* Something happens to the saved bundle on its way.
Extra == <<"extra">>
With(f, p, v) == [q \in DOMAIN f \cup {p} |-> IF q = p THEN v ELSE f[q]]
Without(f, p) == [q \in DOMAIN f \ {p} |-> f[q]]
Altered(content) == IF content = NoContent THEN Content("altered", <<>>) ELSE NoContent
Damages(zip) ==
    {[zip EXCEPT !.files[p] = Altered(@)] : p \in DOMAIN zip.files}
      \cup {[zip EXCEPT !.files = Without(@, p), !.directory = Without(@, p)] :
               p \in DOMAIN zip.files}
      \cup {[zip EXCEPT !.files = With(@, Extra, NoContent), !.directory = With(@, Extra, 1)],
            [zip EXCEPT !.manifest = <<>>, !.directory = Without(@, ManifestPath)]}
      \cup {[zip EXCEPT !.directory[p] = 2] : p \in DOMAIN zip.directory}
      \cup {[zip EXCEPT !.flaws = {flaw}] : flaw \in Flaws}

DamageBundle ==
    /\ Step
    /\ bundle # <<>>
    /\ ~bundle[1].damaged
    /\ \E zip \in Damages(bundle[1].zip) :
          bundle' = <<[zip |-> zip, of |-> bundle[1].of, damaged |-> TRUE]>>
    /\ UNCHANGED <<session, timer, saves, stored, building, word, file>>

-----------------------------------------------------------------------------
Next ==
    \/ Commit
    \/ SaveTimer
    \/ \E name \in Pdfs : OpenFile(name)
    \/ \E text \in MarkdownFiles : OpenMarkdownFile(text)
    \/ \E text \in Texts : EditMarkdown(text)
    \/ AcceptItem
    \/ EditItem
    \/ KeepOriginal
    \/ SaveDocx
    \/ BeginBundle
    \/ FinishBundle
    \/ SaveWorkspaceFile
    \/ ImportFile
    \/ ImportBundle
    \/ Reload
    \/ DamageBundle

\* Timers fire and transactions of the database end.
Spec == Init /\ [][Next]_vars /\ WF_vars(SaveTimer) /\ WF_vars(Commit)

-----------------------------------------------------------------------------
(* Properties of the session.                                              *)

\* Every variable has its type; an equation has a disposition that the queue
\* knows (review-queue.js, REVIEW_STATUSES).
TypeOK ==
    /\ pdf \in PdfNames
    /\ ArePages(pages)
    /\ markdown \in TextType
    /\ queue \subseteq ItemType
    /\ timer \in BOOLEAN
    /\ saves \in Seq([pdf : PdfNames, markdown : TextType, queue : SUBSET ItemType])
    /\ Len(stored.meta) <= 1
    /\ stored.pdf \in PdfNames
    /\ ArePages(stored.pages)
    /\ steps \in 0..MaxSteps
    /\ \A f \in {word, bundle, file, building} : Len(f) <= 1

\* What the user sees in the queue is what the pages hold, after any sequence
\* of decisions, imports and reloads (app.js, syncReviewQueue): a decision made
\* on a queue that has fallen behind would be a decision on another document.
QueueMirrorsPages == queue = BuildReviewQueue(pages)

\* An accepted equation was validated as it stands (review-queue.js,
\* reviewQueueCanAccept), wherever it came from: accepted here, stored, or
\* restored from a bundle.
AcceptedWasValidated ==
    \A ps \in {pages, stored.pages} : \A p \in DOMAIN ps : \A item \in ps[p].items :
        item.disposition = "accepted" => item.mandatory /\ ParseLatex(item.latex).accepted

\* Pages but for the decisions on their equations.
Undecided(ps) ==
    [p \in DOMAIN ps |-> [nodes |-> ps[p].nodes, assets |-> ps[p].assets,
                          ids |-> {item.id : item \in ps[p].items}]]

\* The database holds the pages of the document that is open, whatever was
\* imported before, so that a reload finds them (workspace-db.js, app.js restore);
\* only the decisions on their equations may be newer in memory.
StoreHoldsThePages ==
    pdf # "none" => stored.pdf = pdf /\ Undecided(stored.pages) = Undecided(pages)

\* What is open can be resumed: the stored metadata carries the version that
\* restore() asks for, also after saveResult has been given metadata without it.
StoredIsResumable ==
    stored.meta # <<>> =>
        "version" \in DOMAIN stored.meta[1] /\ stored.meta[1].version = ExtractionVersion

\* The queue, the pages and the database agree, and no equation passes as accepted
\* that was not validated.
ReviewInv ==
    /\ TypeOK
    /\ QueueMirrorsPages
    /\ AcceptedWasValidated
    /\ StoreHoldsThePages
    /\ StoredIsResumable

\* An edit reaches the database once the user pauses (app.js, the timer of
\* markdownEditor.oninput), unless the text or the document changes before.
EditsReachTheStore ==
    \A text \in Texts :
        timer /\ pdf # "none" /\ markdown = text
          ~> \/ markdown # text \/ pdf = "none"
             \/ stored.meta # <<>> /\ stored.meta[1].markdown = text

\* PROGRESS.md says that the state of the review queue survives reload
\* checkpoints: the queue after a reload is the queue that was saved.
\* The code does not have this property: see "Divergences" in the README.
DecisionsSurviveReload == [][Reload => queue' = stored.meta[1].queue]_vars

-----------------------------------------------------------------------------
(* Properties of Word files.                                               *)

\* The formulas of some lines: what stands between two dollar lines outside of
\* fences.
FormulasIn(lines, breaks) ==
    LET Line(c, p) ==
            CASE p.k = "fence" /\ ~c.math -> [c EXCEPT !.fenced = ~@]
              [] c.fenced -> c
              [] p.k = "dollar" /\ c.math ->
                   [c EXCEPT !.math = FALSE, !.done = Append(@, c.run), !.run = <<>>]
              [] p.k = "dollar" -> [c EXCEPT !.math = TRUE]
              [] c.math /\ p.k \notin {"page", "comment"} -> [c EXCEPT !.run = @ \o p.v]
              [] OTHER -> c
    IN FoldLeft(Line, [math |-> FALSE, fenced |-> FALSE, run |-> <<>>, done |-> <<>>],
                NormalizeExportMarkdown(lines, breaks))

\* What both writers take for formulas, in a file whose last formula is closed.
Repaired(w) == FormulasIn(RepairDisplayMathProse(w.lines), w.breaks)
Closed(w) == ~Repaired(w).math
Equations(w) == SelectSeq(w.blocks, LAMBDA b : b.k \in {"equation", "source"})

\* Every word of the document is in its Word file, however its lines open,
\* interrupt and close paragraphs, tables, fences and formulas (docx-export.js,
\* streaming-docx.js).  The default writer loses a formula that nobody closes.
WordKeepsText ==
    word # <<>> =>
        LET w == word[1]
        IN Closed(w) \/ w.streamed => LineWords(w.lines) \cap Words \subseteq BlockWords(w.blocks)

\* The kinds of the blocks that hold something.
Kind(b) ==
    CASE b.k \in {"native", "svg", "image", "preserved"} -> "visual"
      [] b.k = "diagram" -> "code"
      [] OTHER -> b.k
Shape(blocks) ==
    LET shown == SelectSeq(blocks, LAMBDA b : b.k # "break" /\ b # Part("paragraph", <<>>))
    IN [i \in DOMAIN shown |-> Kind(shown[i])]

\* Both writers divide a document into the same blocks: a large document reads
\* like a small one.
WritersAgree ==
    word # <<>> =>
        LET w == word[1]
        IN Closed(w) => Shape(DocxBlocks(w.lines, w.breaks, w.assets))
                          = Shape(StreamedBlocks(w.lines, w.breaks, w.assets))

\* What is kept of a formula: all of it as its source, else its operands.
Lossy == Accents \cup Styles \cup Matrices \cup {"begin"}
Times(op, runs) == Len(SelectSeq(runs, LAMBDA t : t = op))
Survives(formula, block) ==
    IF block.k = "source" THEN block.v = formula
    ELSE Range(formula) \cap Lossy = {} =>
            \A op \in Range(formula) \cap Names : Times(op, formula) <= Times(op, block.v)
EachSurvives(formulas, shown) ==
    /\ Len(shown) = Len(formulas)
    /\ \A i \in DOMAIN formulas : Survives(formulas[i], shown[i])

\* What nobody takes for prose: short, with a relation and without a word of a sentence.
IsFormula(f) == Len(f) <= 14 /\ "=" \in Range(f) /\ Range(f) \cap (Words \cup {".", ","}) = {}
\* The formulas of the document as it stands, outside of fences and with no marker inside.
Displayed(lines) ==
    {SubSeq(lines, q[1] + 1, q[2] - 1) : q \in
        {p \in (DOMAIN lines) \X (DOMAIN lines) :
            /\ p[1] < p[2] /\ lines[p[1]] = DollarLine /\ lines[p[2]] = DollarLine
            /\ \A k \in DOMAIN lines : HoldsKind(<<lines[k]>>, {"fence"}) => k > p[2]
            /\ Cardinality({k \in 1 .. p[1] : lines[k] = DollarLine}) % 2 = 1
            /\ \A k \in p[1] + 1 .. p[2] - 1 : HoldsKind(<<lines[k]>>, {"text"})
                                               /\ ~HoldsKind(<<lines[k]>>, Markers)}}

\* A formula the parser accepts keeps each of its operands, as often as it
\* holds it, in the order of the formulas; one that it does not accept is its
\* source, unchanged.  Accents, styles and matrices are left out: the writers
\* lose parts of them.  What is taken out of formulas as prose is no formula.
FormulasSurvive ==
    word # <<>> =>
        LET w == word[1]
        IN /\ Closed(w) => EachSurvives(Repaired(w).done, Equations(w))
           /\ \A body \in Displayed(w.lines) :
                 IsFormula(Tokens(body)) =>
                    \E i \in DOMAIN Equations(w) : Survives(Tokens(body), Equations(w)[i])

\* The package of a streamed file can be read: the directory finds each entry
\* where its header stands, and a picture of the document leads through its
\* relationship to its own image (streaming-docx.js).
PackageIsReadable ==
    word # <<>> /\ word[1].streamed =>
        LET zip == StreamedPackage(word[1].blocks)
            pictures == Pictures(word[1].blocks)
            relations == Relationships(word[1].blocks)
            At(name) == {e \in DOMAIN zip.entries : zip.entries[e].name = name}
        IN /\ \A e \in DOMAIN zip.entries :
                 zip.parts[zip.entries[e].offset + 1].header = zip.entries[e].name
           /\ \A i \in DOMAIN pictures : \E r \in DOMAIN relations :
                 /\ relations[r].id = Embeds(i)
                 /\ \E e \in At(relations[r].target) :
                       zip.parts[zip.entries[e].offset + 2].body = pictures[i].v

\* A Word file holds the document: its words, its formulas and its pictures, from
\* whichever writer.
WordFilesAreWhole == WordKeepsText /\ WritersAgree /\ FormulasSurvive /\ PackageIsReadable

-----------------------------------------------------------------------------
(* Properties of bundles.                                                  *)

\* What came back of an asset and of an equation.
HoldsAsset(ps, a) ==
    /\ a.page \in DOMAIN ps
    /\ \E b \in ps[a.page].assets :
          /\ b.id = a.id
          /\ a.mime = "png" => b.data = a.data
          /\ a.svg # NoContent => b.svg # NoContent /\ b.svg.v = a.svg.v
          /\ b.ir = a.ir
HoldsItem(ps, item) ==
    /\ item.page \in DOMAIN ps
    /\ \E other \in ps[item.page].items :
          /\ other.id = item.id /\ other.latex = item.latex
          /\ other.disposition = item.disposition

\* A bundle that nobody touched is accepted and gives back what was saved: the
\* Markdown, the PDF, each asset with its own picture on its page, and each
\* equation with its formula and decision, unless an asset has its id.
BundleHoldsTheDocument ==
    bundle # <<>> /\ ~bundle[1].damaged =>
        LET zip == bundle[1].zip
            of == bundle[1].of
        IN /\ Sound(zip)
           /\ BundleMarkdown(zip) = of.markdown
           /\ BundlePdf(zip) = of.pdf
           /\ \A id \in DOMAIN of.assets : HoldsAsset(BundlePages(zip), of.assets[id])
           /\ \A item \in of.items :
                 item.id \notin DOMAIN of.assets => HoldsItem(BundlePages(zip), item)

\* A bundle in which any file was changed, lost or added, or whose records
\* were, is refused, and the session and its workspace stay as they are
\* (reconstructable-bundle-import.js).
DamagedBundleIsRefused ==
    [][ImportBundle /\ bundle[1].damaged => UNCHANGED <<session, stored>>]_vars

=============================================================================

# GlyphMend: verification of the extraction

TLA+ models of the parts of GlyphMend that keep state across steps, the TLC
runs that check them on small instances, and TLAPS proofs of what matters most.
Paths are relative to the repository; `lib.rs` without a path is
`companion/crates/companion-service/src/lib.rs`.

## The system

GlyphMend turns PDFs into Markdown or DOCX. A web application extracts pages in
Web Workers, or hands the document to a native *Companion*: a Rust service
reached over a loopback HTTP bridge from a browser, or over Tauri IPC from the
desktop application.

```
 app.js ──(worker messages)── extract-worker.js
   │  └─(IndexedDB)── workspace-db.js
   │
   └─ bridge.js ──HTTP── companion-bridge ─┐
      desktop-bridge.js ──IPC── Tauri main ┴─ JobManager ── provider thread
                                                              (companion-extractor)
```

| Component | State | Operations | Hard behaviour |
|---|---|---|---|
| Job manager (`companion-service`) | job records, idempotency map, storage ledger and directory, semaphore | create, append_chunk, complete_input, run_queued, cancel, events_after, result, acknowledge_result, cleanup_expired | every operation interleaves with a task per job, a blocking thread per provider, timers and the sweep; removals and writes fail |
| Job state machine (`companion-core`) | none | `JobState::transition` | some states are assigned without it |
| Bridge (`companion-bridge`) | pairing code, sessions | pair, authenticate, handlers | one-use code under concurrent requests, idle expiry between two requests, handlers dropped with their connection |
| Tauri host | parts of the chunk being received | append_chunk_part, complete | parts of an abandoned chunk |
| Extractor (`companion-extractor`) | bounded queue, two OCR workers | extract_document | back pressure, cancellation while the queue is full |
| Companion client (`bridge.js`) | session token, last event sequence | createJob, upload, events, result, cancel | retries, lost responses, gaps in the event history |
| Extraction session (`app.js`) | pages, pending checkpoint writes, active worker or job | openFile, extract, stop, resume, fallback | an old extraction that goes on after its successor started, results fetched but not yet durable |
| Workspace (`workspace-db.js`) | four IndexedDB stores | startWorkspace, savePage, saveResult, loadWorkspace, clearWorkspace | several transactions per operation, a reload between any two |
| Extraction worker (`extract-worker.js`, `worker-startup.js`) | the page being read: entries, pictures, what is preserved; the messages of a batch | one stage after the other of `pageMarkdown`; boot, engine, page, done | every stage may fail or find nothing and the next one must still know what is left; a worker that hangs while it starts |
| Native text and tables (`structured-*.js`, `extract-worker.js`) | captured blocks, native images, the layers of two wrapped walks | walk, recovery, finalizer, reader, table search | three layers each keep, replay or destroy the same images and words |
| Document cleanup (`layout-layer.js`, `document-ir.js`, `cleanup.js`) | pages as entries, then as blocks, then as lines | fifteen passes, each over the result of the one before | a pass undoes or misreads what an earlier one made |
| Review and saving (`app.js`, `review-queue.js`, `workspace-db.js`) | pages, Markdown, the queue, a save timer, pending saves | edits, decisions, saves, imports, reload | the same fact is kept in four places |
| Word export (`docx-export.js`, `streaming-docx.js`, `mathir-parser.js`) | none | Markdown and formulas to blocks, two writers | two writers of one format; fences, formulas, tables and markers in any order |
| Bundles (`reconstructable-bundle*.js`) | none | build, preflight, validate, restore | a damaged file must be refused, names must not clash |
| Recognition, rendering, shell, scripts | none that matters | see "Not modelled" | |

What makes each one correct:

- **Job manager**: permits are conserved and bound the providers; the ledger
  equals the disk; quotas hold; a working provider keeps its record and its
  verified input; a cancelled job never completes; each key leads to one job;
  jobs leave the queue and end; records follow `JobState::transition`.
- **Event log and client**: every event reaches a subscriber once and in order or
  is announced as missed, a wait ends, a subscription outlives its job.
- **Bridge**: at most one session per pairing code, and it stays alive as long as
  its client follows a job.
- **Companion client**: what it returns is the whole document, and an extraction
  that is over leaves no job behind.
- **Workspace and extraction session**: a page shown as done after a reload was
  stored, a result is acknowledged only when its pages are durable, a resumed
  extraction mixes no versions, a stopped extraction writes nothing more.
- **Extractor**: every page is produced once, in order, and cancellation drains
  the queue.
- **Extraction worker**: what a page holds is in its answer once or its loss is
  told; a batch answers for its pages in order and ends.
- **Text**: words are kept, once, in reading order; a table holds the lines of its
  place; only what is repeated at the edges is taken for running matter.
- **Review**: the queue mirrors the pages, an accepted equation was validated, the
  database holds what is open.
- **Export**: both writers keep the text and the formulas and write a package that
  can be opened; a bundle holds its document and is refused when it is damaged.

## Modules

| Module | Models |
|---|---|
| `JobManager` | the job manager, one action per critical section |
| `JobLifecycle` | what the manager promises of a job: phases and the availability of its result |
| `JobEvents` | the event log of a job, `events_after`, the progress monitor and the client's subscription |
| `OcrPool` | `extract_document`: the provider's thread, its OCR workers and the two channels between them |
| `ExtractionSession` | the web application's extraction over its workspace in IndexedDB |
| `CompanionClient` | pairing and the extraction of a document over the bridge: client, routes and sessions, lost and late requests; its jobs are those of `JobLifecycle` |
| `PageExtraction` | the stages that turn the contents of one page into entries and pictures |
| `ExtractionWorker` | a batch in the browser's worker with its messages and watchdog; extends `PageExtraction` |
| `StructuredLines`, `PageTables`, `StructuredText` | from the engine's callbacks to blocks: the geometry of lines, the search for tables, and the layers of the walk as a state machine; each extends the one before |
| `PageEntries`, `DocumentCleanup`, `DocumentText` | from entries to the document's text: passes over one page, passes over the document, and the pipeline as a state machine; each extends the one before |
| `WordFormula`, `WordExport` | the parser of formulas and both Word writers; the second extends the first |
| `DocumentBundle` | the bundle: writing, checking, restoring |
| `ReviewSession` | what the user does with an extracted document; extends `WordExport` and `DocumentBundle` |
| `MC...` | the instances for TLC, and symmetry where it is sound |
| `DocumentReader` | what the proofs about `DocumentText` need to say: its inductive invariants, and how a document is read line by line |
| `...Proofs` | the theorems about the module of that name |

The modules are parts of one chain. `ExtractionSession` asks an engine for a batch
and sees one answer. If that is the Companion, `CompanionClient` is what happens
between the two: it uses the manager only through `JobLifecycle`, which
`JobManager` is shown to implement, so that what is checked of the client holds
with the real manager behind it. `JobEvents` is the polling that `CompanionClient`
reduces to one answer per poll, and `OcrPool` is inside the provider that
`JobManager` knows only as `ProviderReturns`. If the engine is the browser's,
`ExtractionWorker` is the batch, `PageExtraction` a page of it, `StructuredText` how
the text of that page is read, and `DocumentText` what becomes of the pages when
all are there. `ReviewSession` begins with the document that is then open.

### JobManager

State. The fields of `JobRecord` (lib.rs:74-92) that decide anything are
functions from job ids: `state`, `owner`, `request`, `bytes`, `cancelled`,
`workerRunning`, `result`. `files`, `pieces` and `torn` are the storage
directory, `stored` the ledger `storage_bytes`. `idempotency` is the map of keys;
`purging` the sets of removed ids that a sweep has still to take out of it.
`permits`, `runner`, `provider` and `output` are the semaphore, where the
`run_queued` task of a job stands, its blocking thread and what that returned.

| Code | Actions |
|---|---|
| `create` 216-285 | `Create` (a repeated key changes nothing) |
| `append_chunk` 287-351 | `AppendChunk`, `TearChunk` (`write_all` fails half way) |
| `complete_input` 353-395 | `CompleteInput`, which also spawns the task, as the bridge and the Tauri host do when it answers true |
| `run_queued` 397-615 | `RunnerStart`, `AcquirePermit` or `LeaveQueue`, `BeginProvider` or `ReturnPermit`, `ProviderReturns`, then `JoinProvider`, `Settle` or `Timeout`, `Expire`, `Reap` |
| `cancel` 617-646 | `CancelPending`, `CancelRunning` |
| `acknowledge_result` 756-773 | `AcknowledgeResult` |
| `cleanup_expired` 784-826 | `Sweep`, then `PurgeIdempotency` or `DropSweep` |

Every operation calls `cleanup_expired` first. The lock is released after it, so
the sweep is an action of its own that can precede any other. Reads
(`result`, `capabilities`) change nothing.

Abstractions. A byte is a chunk. Deadlines are choices: `Sweep(E, R)` may take any
set of pending jobs as abandoned and any set of terminal ones as expired, which
covers every choice of `abandoned_ttl` and `retention`. The digest is the set of
accepted chunks, so that `torn` marks the files that differ from it. The
request body of a repeated `create` and `complete_input`, and the retry of a
chunk that was accepted, decide only which answer is given. A `removed` id keeps
what is left of its file, so the disk can be compared with the ledger.

### JobLifecycle

The abstract specification: a job's phase and whether its result can be fetched.
`JobManager` implements it with `phase <- state` and the jobs with a retained
result as `available`. It admits the step from `cancelling` to `failed` which
the code takes and `JobState::transition` does not list; see "Divergences".

### JobEvents

One job and one subscription. `state` and `runner` are an abstraction of
`JobManager`'s; `events` and `sequence` are the log (lib.rs:937-960), `channel` and
`monitor` the progress on its way into it (lib.rs:443-466), `poll` and `page` the
request that is under way, `cursor`, `seen` and `skipped` the client's
(`bridge.js:206-250`).

`Append` is `append_event` with its drain; `Check`, `Listen`, `Deadline` and
`AnswerLate` are the parts of `events_after` between its locks and awaits
(lib.rs:648-728): the lock is released before `notified()` is called, so
`Listen` is an action of its own and a notification can fall before it.
`ReceivePage`, `ReceiveGap` and `ReceiveError` are the loop of `subscribe`. The
constant `HandlesGap` tells the browser's client, which goes on after a gap,
from the desktop's, which fails; the runs take the first, the proofs hold for
both. A progress report appends three events under one lock; they are one kind
here.

The model shows two things, though no document says otherwise. A deadline's page
carries the current terminal flag and no events, so that a final event appended
since the last check ends the subscription without being delivered. And `abort`
does not stop a monitor that has received a report, so that progress can be
appended after `job-failed`.

### OcrPool

`stage`, `reading`, `error` and `outcome` are the provider's thread in
`extract_document` (`companion-extractor/src/lib.rs:143-457`), `queue` the bounded
work channel, `made` and `refused` the unbounded result channel, `worker` and
`holds` the threads. The token can be cancelled at any time, a page can fail to
be read or recognised, the output limit can be met, and up to `MaxPanics` workers
panic with what they hold. The work channel is a set, for pages enter it in
ascending order and leave it smallest first; the collected pages are a set, for
the code sorts them.

### ExtractionSession

JavaScript runs one task at a time, so an action is what a task does up to its
next `await`, and clicks, messages and answers come between two actions.

| Code | Actions |
|---|---|
| `openFile` (app.js:545-614) | `OpenFile`, `OpenPrepared`, `OpenFails`, the end in `Commit` |
| `restore`, `loadWorkspace` (app.js:1342-1407) | `Restore` |
| the page is closed or reloaded, an update is deployed | `Reload` |
| `extract` (app.js:967-1136) | `Start`, `Settle`, `Persisted`, `Finish` |
| `runBatch`, `runBrowserBatches` (app.js:636-846, 958-965) | `WorkerPage`, `WorkerPageFails`, `WorkerDone`, `WorkerCrash` |
| `runCompanionBatch`, `runWithBrowserFallback` (app.js:847-956) | `CompanionAnswers`, `CompanionFails`, `CompanionStops`, `Confirm`, `ConfirmFails`, `Acknowledged` |
| `stop` (app.js:1137-1173) | `Pause`, `Cancel` |
| `startWorkspace`, `savePage` (workspace-db.js:41-55) | `Commit`, `CommitFails` |

Each call of `extract` is a *run* with its own record: the engine, the pages it
wants, what of them is still to do, in the batch and with the worker, and the
number of transactions it waits for. What runs share is the global `state`
object: `pages`, `running`, `abortBatch` (here the number of the run it belongs
to) and `checkpointError`. A page's content is the document and the extraction
version it came from, since that is all the properties compare. IndexedDB runs
readwrite transactions with a store in common in the order of their creation, so
the pending ones are a queue; a reload loses it.

Abstractions. Persisting the metadata (`saveResult`) is a wait that changes
nothing the model looks at: of the metadata only the document and the
extraction version are kept, and `saveResult` changes neither. The startup
watchdog is one of the reasons for `WorkerCrash`; it is modelled in
`ExtractionWorker`. The review queue, edited Markdown and imported workspaces are in
`ReviewSession`. `clearWorkspace` is not modelled.

A PDF can be opened and an extraction started whenever the user interface allows it:
`openFile` asks for nothing, and a start is possible as soon as the last run was told to
stop, long before it is over. `Due` and `NothingDue` say that promises which have
settled come first: a wait that is over goes on before the next message or click.

What is wanted of the session is not true of this code in every such state, so
each property is there twice. As one wants it: `OneDocument`, `ControlsFollow`,
`StoppedIsQuiet`, `DurableBeforeReported`; the model violates each ("Divergences"). And as
far as the code has it, which is what the run checks and the theorems prove, with two
history variables to say how far that is. `home` follows the workspace: it is "own" while
the workspace was started for the document that is open, "other" after another PDF was
chosen, and "mixed" for good once an extraction has worked meanwhile; until then
`PagesFollowTheDocument` holds, with PDFs that replace others, fail to open, and restored
workspaces. `run[a].alone` says that no other run has worked beside run `a`; such a run
keeps its controls, is quiet when it was stopped, and its reports are true
(`ControlsAreTrue`, `StoppedRunsAreQuiet`, `ReportsAreTrue`). What these properties say of
all runs, overlapping or not: the controls never show an extraction that is not there, a
stop aborts a batch that is being worked on, and a batch that was aborted gives no page and
falls back to nothing.

### CompanionClient

State. `phase` and `available` are `JobLifecycle`'s, `got` the chunks a job was given;
`code`, `sessions` and `idle` the bridge's pairing code and its sessions with the
time since their last use; `pc` and `call` where each attempt to pair and each
extraction stands and what it waits for, `poll` its subscription, `strays` the
requests that were given up and may still be handled. An action of the client is
what runs up to its next `await`; a request is handled in one step, at any time
between its sending and, for a stray, any time after. Time advances in steps of
the wait of a poll (`Tick`), and never past a request's own timeout.

| Code | Actions |
|---|---|
| `connect` (bridge.js:89-122) and its caller (app.js:1944-1951) | `Connect`, `Paired`, `Connected`, `ConnectFails` |
| `extractDocumentWithBridge` (bridge.js:289-350) | `Extract`, `JobCreated`, `CreateFails`, `ChunkSent`, `InputCompleted`, `FollowingEnds`, `ResultArrives`, `Fail`, `Stop`, `CancelEnds` |
| `subscribe` (bridge.js:206-250) | `EventsArrive`, `PollFails` |
| `acknowledge` (app.js:935-949) | `Acknowledge`, `AcknowledgeEnds` |
| `companion-bridge/src/lib.rs` 237-453, 467-492 | `HandleCall`, `HandlePoll`, `HandleStray` (all by `Route`), `CodeExpires` |
| the manager | `Work`, `Sweep` |

Abstractions. One attempt at pairing is one session. A job has the name of its
extraction, since every extraction creates its own. The manager may refuse a job
when it is full. Pages of events are reduced to "more", "last" or an error, which is
what `JobEvents` resolves. Headers, origins and bodies are taken to be accepted.

### PageExtraction and ExtractionWorker

A page is blocks, images, groups of drawn paths and, if it is recognised, lines of
text, each at a *place*: a pair of a band and a column. Things in one band overlap
vertically, things in one place cover each other; that is all the code's tests of
boxes can tell apart. `stage` is the part of `pageMarkdown` (extract-worker.js:2240-2930)
that comes next, `entries` and `assets` are what it has pushed, and the flags have the
code's names. `given` records what an option or a failed crop gave up, for the
properties.

| Code (extract-worker.js) | Actions |
|---|---|
| 915-1028, 2242-2264 | `Read` |
| 2266-2315 table | `DetectTable` |
| 2317-2420, 2088-2146 recognition | `Recognise`, `RecogniseFails`, `SkipRecognition` |
| 2422-2483 images of formulas | `FormulaImages` |
| 2485-2659 blocks | `ReadBlocks` |
| 2661-2745 images | `KeepImages` |
| 2747-2826 drawings | `KeepGraphics` |
| 2828-2895 figures named by captions | `KeepCandidates` |
| 2897-2930 the page as a picture | `PreservePage` |

What a recogniser says, whether a crop succeeds and whether a formula is validated
is chosen by the environment.

`ExtractionWorker` adds `onmessage` (3047-3141: `Boot`, `LoadEngine`, `StartPage`,
`ExtractPage`, `PageThrows`, `AnswerPage`, `FailPage`, `FinishWorker`) and the promise of
`runBatch` (app.js:636-814: `Receive`, `Reject`, `StartupTimesOut`, `Abort`) with the
two phases of `worker-startup.js`. The channel is a queue that termination empties.

### StructuredLines, PageTables, StructuredText

MuPDF's walk over a page is wrapped twice by `mupdf-vite.js`. `StructuredText` is the
path of one page through the layers: `Open` (with or without JSON and drawn images),
`EndLine`, `EndTextBlock`, `OnImageBlock` (the callbacks, structured-recovery.js:890-926),
`Recover`, `ReplayBlock`, `ReplayImages` (929-958), `Finalize` (structured-fidelity-
finalizer.js:272-330), `ReadBlock`, `ReadPage`, `FindTable`, `ReadEntries`, `ReadScan`
(extract-worker.js). `handles` follows each native image from the engine to whoever
must destroy it.

`StructuredLines` has the geometry: merging spans of one visual line, splitting
collapsed lines, cutting blocks into headings, lists, tables and paragraphs.
`PageTables` has the four searches for tables: by rules, by columns, within a block
and on a scan. A word is a record of its row and its edges, in quarters of the body
size; what the code's regular expressions ask of a word is a constant set (titles,
section numbers, bullets, captions, numbers, ends of sentences). The thresholds are
the code's, rounded to that grid and named. Where two functions of the code look at
the same thing differently, so do the definitions: `CellStarts` skips the blanks
of a line where native cells are counted, `TableStarts` (`tableFor`) wants the character right
before a cell not to be blank (`glued`). Lines of the engine's plain text stand at one place, as in
`textFallbackBlocks`.

### PageEntries, DocumentCleanup, DocumentText

`PageEntries` holds the passes of the worker over the entries of one page (order,
headings, diagrams, code, repeated equations, captions), `DocumentCleanup` those of
`cleanup.js` over the document (running matter, headings, paragraphs, hyphens,
formulas, audit). The pass over the headings reads fenced lines as well: one that begins
with `#` is levelled, moved or dropped like a heading (`Hashes`, `NormalizeHeadingHierarchy`),
so that `FencesAreKept` says of fences what is left to say, and `FencesAreWhole` what is
not true. They are operators; `DocumentText` runs them, one action per pass in
the order of the code: `Order`, `Headings`, `Diagrams`, `Code`, `Equations` for each page,
then `DocumentIRFromPages`, `Classify`, `Apply`, `Write`, `Hierarchy`, `Paragraphs`, `Hyphens`,
`Formulas`, `Audit`. That makes "what no pass may do" an action property and "what
all passes together leave" an invariant of the later stages.

A word is a record with the page and the entry it was read from, so that a word that
is lost, doubled or moved is seen even if the same word occurs elsewhere. Distances
are in lines of body text.

### WordFormula and WordExport

`ParseLatex` is the parser as a recursive function over the tokens of a formula: it
gives a tree and whether it was accepted. `WordRuns` and `StreamedRuns` are what the
two writers make of the tree: the texts of the runs, in order. `DocxBlocks` and
`StreamedBlocks` are their loops over the lines of the Markdown with their states
(paragraph, table, formula, fence), after `RepairDisplayMathProse`, by which a displayed
formula that reads as prose or holds a comment or a heading becomes text for both, `VisualTier` and `StreamedTier` how a picture is
written, `StreamedPackage` the ZIP file the streaming writer assembles itself.
Fonts, sizes, wording and the XML around a run are left out.

### DocumentBundle and ReviewSession

`BuildReconstructableBundle`, `PreflightReconstructableZip`, `ValidateReconstructableBundle`
and `BundlePages` are the functions of the same names in the two bundle modules.
SHA-256 is taken to tell contents apart, a path is a tuple; byte limits, charts and
MathML are left out. The files of a bundle are a set of paths with contents, of which
`DuplicatePath` says that two disagree, and the entries of its manifest are looked up by
id: the sort of the assets matters only to `TokenOf`, which numbers equal tokens.

`ReviewSession` has the session (`pdf`, `pages`, `markdown`, `queue`), the save timer, the
calls of `saveResult` on their way, the database and the files saved last.

| Code | Actions |
|---|---|
| `openFile`, `markdownInput.onchange` (app.js:534-604, 2101-2127) | `OpenFile`, `OpenMarkdownFile` |
| `markdownEditor.oninput` (2128-2133) | `EditMarkdown`, `SaveTimer` |
| `setReviewItemDisposition` and its buttons (380-392, 1614-1641) | `AcceptItem`, `EditItem`, `KeepOriginal` |
| `persist`, `saveResult` (1329-1341, workspace-db.js:56-60) | `Commit` |
| `saveDocx`, `saveBundle`, `save` (1651-1757) | `SaveDocx`, `BeginBundle` and `FinishBundle` (the `await` between them), `SaveWorkspaceFile` |
| `workspaceInput.onchange` (2089-2100), `bundle-import-ui.js` (19-94) | `ImportFile`, `ImportBundle` |
| `restore`, `loadWorkspace` (1342-1407, workspace-db.js:64-87) | `Reload` |
| the file on its way | `DamageBundle` |

A page is what the extraction left of it: semantic nodes, assets and equations, the last
two as sets, since the extraction gives them ids with the number of their page
(`SessionAssumption`: `PagesValid`). The saved bundle keeps a note of the document it was
made of, for the properties.

## Runs

All limits are small, at the same proportions that make the code's guards bite.

| Run | Instance | Distinct states | Question |
|---|---|---|---|
| `scheduling` | 3 jobs, 1 session, 3 keys, 2 permits, 2 result slots of sizes up to 2 with 3 in all, no upload | 199,619 | do tasks, permits, results, keys and the sweep stay consistent under every interleaving |
| `faults` | 2 sessions, 2 keys, 2 jobs of up to 2 chunks, runtime quota 3, session quota 2, all failures on | 485,122 | do ledger, quotas and inputs survive torn writes, failed removals and dropped requests, and does the manager implement `JobLifecycle` |
| `progress` | 2 jobs, 1 permit, a provider need not return | 12,049 | do queued jobs leave the queue, started jobs end, and are the workers that do return reaped |
| `events` | log of 4 events, pages of 4, 4 reports | 10,964 | does a subscriber get every event or hear what it missed, and does its subscription end |
| `pool` | 6 pages, 2 workers, 1 panic | 141,233 | is every page in one place, memory bounded, and does the extraction return |
| `session` | 2 pages, 2 PDFs, 2 versions, 2 runs that may overlap, 1 opening at a time, batches of 1 and 2, failing writes and openings, 6 clicks | 699,768 | do pages, checkpoints, controls and reports agree as far as the code has it, and does every extraction end |
| `client` | 2 attempts to pair, 1 extraction of 2 chunks, requests time out after 2 steps, sessions after 6 | 82,312 | is a returned document whole and nothing left behind, with lost and late requests |
| `page` | batches of 2 out of 6 pages, 5 sets of options | 61,107 | does every content of a page arrive or have its loss told, and does a batch answer in order and end |
| `layout` | 24 pages of native text, rules, images and scans | 1,087 | does the text of a page reach the reader once, and do tables and pictures follow the page |
| `text` | 2 pages out of 11, 5 sets of options | 10,250 | do the passes from entries to text keep words and order |
| `export` | 3 steps of a user, 2 pages, 12 Markdown files, 2 foreign workspaces | 29,596 | do queue, pages and database agree, are Word files and bundles whole |
| `options` | as `client`, with minor version 4 | violated | see Findings |

A property of a run may be a conjunction of named parts, so that one run can
say which part failed and the theorems can cite the parts:
`NothingIsStranded` is `RunnerCoversJob` and `NoInputLeftBehind`; `RecordsAreAccounted`
is `RetainedResultsBounded`, `OneKeyPerJob` and `DanglingKeysArePurged`;
`StorageIsExact` is `LedgerMatchesDisk` and `QuotasHeld`; `JobsMoveOn` is
`QueuedJobLeavesQueue`, `StartedJobEnds` and `WorkersAreReaped`; `PagesAccounted`,
`EventsInv` and `SessionInv` add their module's type invariant. The modules of the
pages and of the review state the parts of their invariants next to them.

Three jobs over two permits is the least instance in which a job waits while
one provider is late and another ends, and the least in which a third result
must be refused. A session quota of 2 under a runtime quota of 3 lets either one
refuse first. Four reports append up to fourteen events to a log of four, so that
it is drained several times and gaps open and close between two polls, and a
page can end inside a report. Six pages over a channel of two and two workers
leave two pages unread while everything else is full. Two pages with batches
of one and two give a second batch, a fallback that splits the batch again, and a stop
that leaves one page to its successor; two runs are a run and the one that overlaps it;
two documents and two versions are what a mix needs. `MaxClicks` bounds what the user does
(open, start, pause, cancel, restore, reload): the start of an extraction counts as many
clicks as it wants pages. Six are enough to open a PDF, start, pause, start again and
reload or open another PDF, and each counterexample under "Divergences" but one is within
them. Two openings at a time are left to the proofs, which bound nothing.

Two attempts to pair race for one code. Two chunks tell a document that was cut
short from one that is whole. A session outlives three timeouts, so that it can
expire after an extraction, but not while a poll goes round. The pages of `page`
bring every stage to each of its outcomes: tables that can be read and that cannot,
formulas as text and as images, pages that must be recognised, drawings with the
caption of a table. Those of `layout` and `text` are one per thing the passes tell
apart: collapsed and flattened lines, overlaid blocks, lists, a table of contents,
four kinds of tables, running titles with a body that begins like them, columns
around a wide figure, listings, formulas, damaged and missing pages. Two pages are
enough for what crosses a page break, and the threshold for running matter is two.
Three steps of a user are an edit, a save and an import, or an import, a decision
and a reload; the Markdown files put every kind of line next to every other.

`CHECK_DEADLOCK FALSE` where a system really stops: ids are never reused and `Jobs` is
finite, an extraction returns and a subscription ends (`JobManager`, `OcrPool`,
`JobEvents`, `CompanionClient`), a batch ends (`page`), and the user has a number of steps
(`export`, `session`).
`text` and `layout` stutter when they are done. Symmetry is used for safety only. The
failures are constants: a property that needs one absent says so
(`NoInputLeftBehind` without `RemovalsMayFail`, `DanglingKeysArePurged` without
`RequestsMayDrop`).

### Fairness

`JobManager`'s `FairSpec` assumes weak fairness of each task's next step (tokio
polls every ready task and the timer fires), weak fairness of the sweep of a
queued job (`cleanup_loop` runs every 30 s and nothing renews `last_touched` of a
queued job) and strong fairness of `AcquirePermit` (tokio's semaphore is first
come, first served). It does not assume that a provider returns: a provider may
ignore its token. `WorkersAreReaped` is conditional on the provider's return.

`JobEvents` assumes that the server answers, timers fire and the client's loop goes
on (weak fairness of `PollStep` and of `Deadline`), and nothing of the job: both
liveness properties start from what the job has done. `OcrPool` assumes that its
threads are scheduled (weak fairness of the provider's and of each worker's
steps); `ExtractionReturns` requires that a worker is left.

`CompanionClient` assumes that requests are handled, that the page's scripts run, and
that the manager ends what it starts, which is what `JobsMoveOn` shows of it. It
assumes nothing of time, of users, of strays or of the sweep.

`ExtractionWorker` assumes that messages are delivered and the watchdog's timer
fires, and that the worker goes on once its engine is ready. Before that nothing is
assumed of it: `BatchEnds` holds for a worker that never starts. After it the
assumption is needed, for nothing watches a worker that hangs on a page.

`ExtractionSession` assumes weak fairness of each run and of the database: a
worker goes on to its end or fails, the Companion's requests have timeouts
(`bridge.js`), and IndexedDB completes or aborts every transaction (`Fairness`). That a
run ends then does not depend on the other runs, which is why `ExtractionsEnd` holds also
of those that overlap. `ReviewSession`
assumes that the save timer fires and transactions end. No fairness is assumed of the
user anywhere.

## Proofs

Each module is proved from the assumptions about its constants only.

`JobManagerProofs` proves, from `ConstantsAssumption`, for any number of
sessions, keys and jobs, any limits, with or without each failure:

- `Invariance`: `Spec => []IInv`, `IInv == TypeOK /\ TaskInv /\ PermitInv /\ DiskInv`;
- from it `TypeCorrect`, `PermitsAreConserved`, `JobsAreCovered`,
  `NoCancelledCompletion`, `ProviderKeepsInput`;
- with one more step lemma each, `LedgerIsExact`, `QuotasAreHeld` and
  `InputsAreRemoved`, and from these `NothingStranded` and `StorageExact`;
- `ResultsAreBounded`, `KeysLeadToJobs` and from them `RecordsAccounted`;
- `Refinement`: `Spec => Lifecycle!Spec`.

None of the checked invariants is inductive alone. That a provider keeps its
input, for instance, needs to know that only a record whose `worker_running` is
reset can be swept, that `worker_running` is set for exactly the points of
`run_queued` in `Working`, and that a job at such a point is busy, or over but
detached. `TaskInv` says how the point a task has reached restricts its record
and `DiskInv` how the record restricts the disk. Sums over jobs are cardinalities
of disjoint unions (`Units`), so that the library's facts about finite sets do
the arithmetic: a chunk adds one element, a removal subtracts a subset. For the
keys `KeyInv` is needed: a key leads to a job of the map or to one that is removed and
listed in a `purging` set, and each job of the map has exactly one key, which is its
owner's; the first is why a dangling key is always about to be cleaned, the second why
cleaning after one job takes no key of another.

`JobEventsProofs`, for any log and page size, any number of reports and both
clients: `TypeCorrect`, `NothingIsSkippedSilently`, `SettledLogsAreComplete`, both as
`EventsAreAccounted`, `SubscriptionsOutliveJobs` and the action property
`PagesAreContinuous`. The argument: the log's numbers are always the last `MaxQueue`
ones given out (`AppendLog`), so that a page for a cursor without a gap starts right
after it; `PageInv` carries this from the answer to its receipt, while the log moves
on.

`OcrPoolProofs`, for any pages, workers and panics: `TypeCorrect`,
`PagesAreConserved`, `RenderedPagesAreBounded`, all three as `PagesAreAccounted`, and
`DocumentsAreWhole`. The conservation of pages makes the collector's count the number
of pages it was given, which is why a document that is returned is whole.

`ExtractionSessionProofs`, for any PDFs, pages, selections, batch sizes, runs and
versions, with no condition on what is opened, started and stopped when: `TypeCorrect`,
`ControlsAreRight`, `StoppedRunsStayQuiet`, `PagesAreOfOneDocument` and
`WhatRunsReportIsTrue`. `RunChanges` first reduces the thirteen
steps of a run to what they do to its point, its signal and the controls. The
invariant `ControlInv` then says what is true of the controls whoever works: what is shown
as running is the latest run, and `abortBatch` belongs to a batch that is being worked on.
`AloneInv` says of a run beside which no other has worked that it is the only active one,
that `abortBatch` is its own wherever it can be aborted, and that a stopped one has no worker
and has been signalled. Until `home` is "mixed", `WorkspaceInv` adds the database: who works
works for the document that is open and in its workspace (`ScreenInv`); every page that waits
to be stored follows the start of the workspace of its document, whichever is open by then
(`QueueInv`, `Home`); what is stored has one document and no version later than
the application's (`StoredInv`); and for each page, what the last transaction that waits
for it will write, or else what is stored, is what is shown (`FollowInv`). That a page
is shown does not make it durable: `WorkInv` says of each page that a run has worked on
that its write is among those the run waits for (`DurableInv`), and of each page it
wants that it is to do, in hand, failed, or shown (`ProgressInv`).

`ExtractionWorkerProofs`, for a page (its first part) and for batches of any size, pages of any
blocks, images, drawings and lines and any settings of the types in `PageAssumption`:
`ContentsOfPagesArrive` and `BatchesAnswer`. `OpenInv` is what the stages of a page keep:
which things the entries made so far stand for (`EntryInv`), what is already known when
a stage begins (`ReadingInv`, `TextInv`), and what the loops over images, drawings and
captions have dealt with (`LoopInv`, over `todo`). Without `TextInv` nothing would say
that the stages for pictures find the text there that lets them pass over one.
`InOrder` chooses a listing of a set by place; `ListingExists` shows that there
is one. Of a batch, `OrderInv` says that the pages between the last that was heard of and
the one the worker is at are in the channel, in this order; `EndInv`, `StrictInv` and
`StartInv` say what the channel can hold when the batch ends, a page fails under strict
extraction, or the engine has not started.

`CompanionClientProofs`, for any number of attempts to pair, of extractions and of
chunks, any minor version and any limits: `TypeCorrect`, `DocumentsAreWhole`,
`NoJobIsLeftBehind` and, where a session may be idle for three timeouts of a request,
`SessionsAreHeld`; the code's fifteen minutes (companion-contract/src/lib.rs:32) are far
more than three times thirty seconds (protocol.js:14). `ServeMoves`, `RouteMoves` and `WorkMoves` first say what one request or one
step of the manager may do to a job, whoever sent it and however late: it gets its
input before it is queued, what is settled stays so, and a job that nobody asked
anything of stays new. On these rest the parts of the invariant. `DocumentInv`: a job
that was queued has all of its chunks. `LeftoverInv`: as long as the client does not
know its job the job is new, and once it has given up the job is new, settled, or its
cancel request failed. `AliveInv` measures how long a session was idle on the clock of
the request that its extraction waits for: a request is sent within one timeout of the
last one that was handled, it is given up within another, and the one that cancels
the job is within a third.

`ReviewSessionProofs`, for any documents, ids and tokens, any files, texts and formulas of
the user and any number of steps, from `SessionAssumption`: what is extracted or in a
workspace file has equations that were validated as they stand and ids of their own.
`SessionsAgree`, `BundlesAreWhole` and `DamagedBundlesAreRefused`. The invariant says of
the session, the database and the workspace file that their pages are valid
(`PagesInv`), which is more than that nothing passes as accepted: an equation is its own
source and has a formula, an asset is a drawing or has its picture. Only so do the pages
that a bundle gives back satisfy it again (`BundlePagesAreValid`): `FilesOfAsset` finds the
files of an asset under its own token whatever the other tokens are, `AssetIsReturned` and
`ItemIsReturned` read them back, and `BundleInv` carries what a bundle was made of from
one import to the next. `SavesInv` says that nothing waits to be saved before there is
metadata, so that what `saveResult` is given always meets a version to keep. The parser of
formulas is used only through what it accepts.

`DocumentTextProofs`, for pages of any content, any number of them, any vocabulary of the
types in `WordsAssumption` and `DocumentAssumption`, and any options: `TextIsSound`,
`TextKeepsPages`, `TextLosesRunningMatterOnly`, `DocumentIsRead`, `TextKeepsContent` and
`NoParagraphIsJoined`.
`DocumentAssumption` says of what is read only what the readers guarantee: an entry that is
text is one line where the worker or a heading made it, the worker has not looked for
drawings and listings yet, a level is at most 6 and what stands on a page has a height.
Induction over data is out of the
library's reach here, so it is done by hand: a set of naturals that is not empty has a
least element (`Minimum`), which gives an induction over prefixes (`Counting`), and the
recursive functions of the model exist because step-by-step definitions have solutions
(`Recursion`, `Flattening`). On these rest facts about sequences of any length: what is in
a concatenation, a part or a flattened sequence, and what comes before what in them
(`Leads`, `ConcatOrder`, `FlatOrder`), and that sorting puts every place once
(`EnumeratedAll`, `EnumeratedOrder`). `TextInv` is inductive and larger than what is
checked: the entries of the worker's pages stay `Proper` (a text entry is one line, or
`JoinWrapped` would lose the others), and the decisions that `Apply` works with are those
made about these pages. Each pass over entries has a lemma that its result is proper and
that each line that could be read still can be (`OrderKeeps`, `HeadingsKeep`,
`DiagramsKeep`, `CodeKeeps`, `DedupeKeeps`); a merged heading makes a line that reads both, which
is why `ReadThrough` has to compose readings. That columns are read down
(`ColumnsReadDown`) follows from where an entry is: `Located` says that one which stands
beside no wide entry is in the band above the first wide one below it, `AboveApart` that bands
do not overlap (a wide entry has a height), and `PutInOrder` that what is true of the
places is true of the entries put there. For the running matter, `ClassifiedEdge` and
`RepeatedByOther` say that what was decided of an edge was repeated at another page's,
`CleanedLine` what a decision may take from a line, and `AppliedPage` that the blocks which
go had nothing else. `AuditTells` compares cardinalities: a page that is missing makes the
pages handed over fewer than the selected ones.

`TextKeepsContent` is about five passes that walk over the lines of the text, each with
indices of its own. What they have in common is a reader, defined in `DocumentReader`: it
goes through the document line by line and knows where it is (in the text, between fences,
in a formula), on which page and under which heading, and what it has read. `Fits` says
which line may come next, `Reading` what is known behind it, `Takes` that a sequence of
lines leads a reader from one state to another. `LinesAreRead` says that the document leads
a reader from its beginning to an end where everything is closed and every block of the
pages has been read (`Held`); `DocumentInv` is this and `TextInv`, and `DocumentIsRead`
that it is inductive: `DocumentTakes` for the first writing, and for each pass that it
leaves a document which takes the reader to an end that knows the same
(`HierarchyTakes`, `HyphensTake`, `FormulasTake`, `WithoutTakes`). `Manners` says how
strictly is read: once the headings are in order, `Fits` refuses one that repeats the last
or skips a level, and once formulas are repaired it refuses a mark that closes a sentence.
So a later pass is shown not to undo an earlier one. The recursion of a pass is taken apart
by `Chunks`: from each place outside formulas it writes a chunk and goes on further down,
and `ChunkByChunk` composes chunks that each take the reader as far as the lines they
replace. `ReadIsKept` draws the parts of `TextIsKept` from a document that can be read:
the words that were said stand in a line, a fenced text between two fences, the pages in
the order they were turned to. A document
that can be read has markers only if they are to stay, so that `joinPageParagraphs` returns
what it is given (`ParagraphsRead`): `NoParagraphIsJoined` proves of all documents what
`SplitParagraphsAreJoined` says against the code (see Divergences).

Model-checked only, and why:

- `NativeTextArrives`, `PicturesArrive`, `TablesAreTrue` (`StructuredText`) and
  `WordFilesAreWhole`: their modules compute over the segments of a page and the lines of a
  text with several indices that move at their own pace, as the passes over the document
  do; each would need a reader of its own as its inductive invariant.
- All liveness: out of TLAPS's reach.

## Findings

- `RequestsAreAcceptable` (run `options`): from minor version 4 on, which the
  Companion negotiates, `extractDocumentWithBridge` adds `extractEquations` to the
  options of every job (bridge.js:298); the client's own check of the request
  (protocol.js:181-182) knows no such option and refuses it, so that no document can
  be extracted with a current Companion. `docs/companion-engine.md:37` says that
  "Protocol v1.4 adds the optional equation setting; the browser omits it for older
  v1 peers".

## Divergences

What was observed while modelling, without a run of its own. Where a definition is
named, it is in the module and can be given to TLC in place of a run's properties: the
counterexample of those of the session, the layout and the text has the number of
states given here. What holds in its place, and is checked and mostly proved, is named
with each.

The Companion:

- `StateMachineFollowed`: `run_queued` reads the token when its provider times out
  (lib.rs:471), then locks and assigns the state (482). A cancel in between
  is lost: `Cancelling` becomes `Failed`, a transition `JobState::transition`
  does not list, and the client that cancelled sees a time-out. The same property
  fails when the provider gives up by itself: it fires the token it shares with
  the user's cancel, and a running job becomes `Cancelled` that nobody cancelled.
- `ProviderReadsVerifiedInput`: a chunk write that fails half way leaves its
  prefix in the file; the retry appends after it (lib.rs:338-349). The digest
  covers accepted chunks only, so the upload completes while the provider reads
  different bytes.
- `DeadPoolReported`: the provider keeps its own `Arc` of the work receiver, so the
  channel does not disconnect when all workers have panicked. `send` on the full
  channel blocks for ever, and the error written for this case cannot be reached.
- A deadline's page drops a final event appended since the last check (lib.rs:715), and
  progress can follow `job-failed` (lib.rs:473).

The session:

- `OneDocument` (7 states, run `session`): "Choose another PDF" stays available during an
  extraction (`web-app/index.html:187`, app.js:2037), and `openFile` neither stops it nor
  refuses (app.js:545-594). It resets the pages, and the worker of the old document goes on
  to fill them (729) and to save them into the new document's workspace (730); later batches
  of the run read the new document with the old selection (811, 867).
  `docs/architecture.md:18-24` describes the way of one document. The same follows when the
  new PDF cannot be opened, for it was assigned before (556-575), and what is
  extracted then is stored next to the old one. What holds: `PagesFollowTheDocument`.
- `ControlsFollow` (8 states): `stop` enables Start at once (app.js:1139-1143), while a paused
  Companion run still cancels its job (bridge.js:336). A run started meanwhile loses
  its controls when the old one ends (app.js:1134, 954): it cannot be stopped any more, and
  it breaks off after its batch (1030) without a message. `docs/browser.md:31` says
  "Completed batches are checkpointed, so pausing and resuming is safe after the current page
  operation completes." What holds: `ControlsAreTrue`.
- `StoppedIsQuiet` (12 states): a run that is stopped while it waits for its writes or for
  `persist` (app.js:1085-1092) looks at `state.running` only when it goes on (1030). A start
  in the meantime has set it again (992), and the stopped run takes it for its own, begins
  its next batch next to the new run and takes `abortBatch` from it.
  `docs/architecture.md:11` says that "cancellation does not start fallback work",
  `docs/desktop.md:36` that "User cancellation does not start a second extraction". What
  holds: `StoppedRunsAreQuiet`.
- `DurableBeforeReported` (14 states): each start clears `checkpointError` (app.js:983), which
  is one for all runs. A stopped run that still waits for its other writes then finds no error
  (405-408) and reports its batch as persisted, or acknowledges its result (935-938), with a
  page that is not in the database. `docs/browser.md:40`: "checkpoint-write" means "the
  batch is safely persisted"; `docs/companion-engine.md:41`: "After the browser durably
  checkpoints a completed batch, it acknowledges the result". What holds: `ReportsAreTrue`. A
  page whose write failed is shown and not extracted again, so that it is lost at the next
  reload; `CheckpointsFollow` admits this.
- `CheckpointsAreRestored` (11 states, with seven clicks): `restore` discards the pages of
  another extraction version (app.js:1353-1361), but nothing stores the new one:
  `persist` names none (1329-1341) and `saveResult` merges what was stored
  (workspace-db.js:56-60). Pages extracted after an update are therefore discarded by
  every later restore as well. `docs/archive/2026-09-upgrade/BASELINE.md:41` says that
  "Existing checkpoints remain resumable when compatible".
- `saveResult` reads and writes the metadata in two transactions
  (workspace-db.js:56-60); a `startWorkspace` in between is overwritten with the
  old document's name. `Commit` models it as one.

Text:

- `SplitParagraphsAreJoined` (15 states, run `text`): `web-app/README.md:13` and the option promise the repair of
  paragraphs split between pages, but the page markers that `joinPageParagraphs`
  looks for (cleanup.js:689, 701) are not written when they are not kept (727-735).
- `FencesAreWhole` (11 states, run `text`): `normalizeHeadingHierarchy` (cleanup.js:557-582)
  goes over all lines without asking whether they stand between fences, as the later passes
  do. A line of a listing or a diagram that begins with `#` and a blank loses its
  indentation, gets another level, is dropped when the heading before it reads the same,
  and counts as the last heading for those that follow. cleanup.js:420 says "Running-matter
  classification must never edit a fenced block", and the tests that a cleanup "preserves
  code and diagram fences while removing running matter" (cleanup.test.js:274) and works
  "without touching code fences" (cleanup.test.js:197). What holds: `FencesAreKept`.
- `PlainLinesStayLines` (6 states, run `layout`): `textFallbackBlocks` gives every line of the
  plain text the box [0,0,0,0] (extract-worker.js:851-863), and `coalesceStructuredBlocks`,
  which comes next (994), takes lines at one place for spans of one visual line
  (structured-lines.js:60-74, 98-111): the lines of such a page become one, without blanks.
  extract-worker.test.js:406-409 ("uses MuPDF plain text as a final structured-text
  fallback") tests the function alone and expects them apart. What holds: the words arrive
  (`TextArrives`).
- `TablesKeepTheirBlocks` (15 states, run `layout`): `tableFor` drops the lines of a block that
  have one cell (extract-worker.js:143) before it compares the rows (148-152), and the table
  takes the block's place (2507): what those lines say is in neither. The comment at 149-151
  says that a table must not be made by "either dropping source cells or inventing empty
  ones". What holds: `TextIsInOnePlace`, up to these lines (`LeftOut`), and `BlockTablesAreEven`.
- `ContentsAreListed` (14 states, run `layout`): two adjacent entries of a table of contents that begin with
  section numbers are joined like a heading that was wrapped (structured-recovery.js:
  519-521) before the block is looked at as contents (530); the test at
  `structured-recovery.test.js:219` has whole numbers, which are not.
- `normalizeExportMarkdown` toggles its fence at any mark of a fence, so that a listing
  that shows one is read as text from there on.

Review:

- `DecisionsSurviveReload`: `docs/archive/2026-09-upgrade/PROGRESS.md:150` says that
  the queue survives a reload;
  decisions are made on the pages in memory and saved as the queue only
  (app.js:380-392), and `restore` builds the queue from the stored pages (1352, 1388).
- Accepting or editing an equation changes neither the Markdown nor what is exported
  from it, and the Word file is made of the pages' semantic documents, not of the
  edited Markdown (`README.md:83`), so that after the import of a bundle, whose pages
  have none, the Word file has only visuals.
- `setReviewItemDisposition` acts on the first equation with the id, should a file bring two.
- A workspace file without a PDF leaves the session taken over and the editor stale
  (app.js:1186).

Word files:

- The streaming writer drops the operand of an accent, the default one a matrix of
  one row; an unclosed formula loses its mark.
- A command the parser does not know is accepted inside the limits of a sum or an
  integral.

Bundles:

- `saveBundle` waits for the Word file (app.js:1696) while the user may go on, so that
  the bundle can mix two versions; its button is enabled again in the meantime.
- Pictures whose ids differ in case only make a bundle impossible, and an equation
  without a crop whose id is that of an asset is not in it. A bundle made from an
  imported one loses equations without crops, and restored ones their validation.

## Plan

Next, in this order:

1. `CompanionClient` with the pages of `JobEvents` in place of one answer per poll.
2. `TauriChunks`: parts of a chunk that are pending when their job is abandoned.

## Not modelled

- Recognition (`features/recognition`, the numeric parts of `ocr-layout.js`) and the
  preparation of bitmaps: heuristics on pixels that keep nothing between calls.
  `PageExtraction` lets a recogniser answer anything.
- Rendering, accessibility texts and SVG of charts and diagrams: strings from a
  representation, in one call.
- The spelling of formulas in Markdown and in MathML, styles of Word files, charts and
  size limits of bundles: layout, or arithmetic on sizes.
- The Tauri host and the CLI: argument parsing and IPC around the manager and the
  bridge that are modelled; the host's pending parts are in the plan.
- The application shell, localisation, licensing, analytics, build and benchmark
  scripts: no state of an extraction.
- `clearWorkspace`, logs, search, page rendering and settings of the interface.

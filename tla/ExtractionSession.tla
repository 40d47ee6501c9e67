-------------------------- MODULE ExtractionSession --------------------------
(***************************************************************************)
(* The extraction session of the web application (web-app/src/app.js) over *)
(* its workspace in IndexedDB (web-app/src/storage/workspace-db.js).       *)
(*                                                                         *)
(* JavaScript runs one task at a time: an action is what a task and its    *)
(* microtasks do up to the next await.  The user's clicks, the answers of  *)
(* workers, Companion and database come between two actions.  Each call of *)
(* extract() is a run with a state of its own; what they share is the      *)
(* application's global state object.                                      *)
(*                                                                         *)
(* A page's content is the document and the extraction version that gave   *)
(* it.  IndexedDB runs readwrite transactions on the same store in the     *)
(* order of their creation, so the pending ones are a queue.               *)
(***************************************************************************)
EXTENDS Naturals, Sequences, FiniteSets

CONSTANTS
    Docs,            \* PDFs the user may open
    Pages,           \* page numbers, the same in every PDF
    Selections,      \* page ranges the user may select
    None,
    MaxRuns,         \* bound on the calls of extract()
    MaxOpens,        \* bound on the calls of openFile in progress at a time
    MaxVersion,      \* bound on EXTRACTION_VERSION, which deployments raise
    BrowserBatch,    \* the setting checkpointPages
    CompanionBatch,  \* 100
    WritesMayFail    \* savePage may fail

Value == [doc : Docs, version : 1 .. MaxVersion]

ASSUME SessionAssumption ==
    /\ Pages \subseteq Nat
    /\ IsFiniteSet(Pages)
    /\ Selections \subseteq SUBSET Pages
    /\ None \notin Docs \cup Value
    /\ {MaxRuns, MaxOpens} \subseteq Nat
    /\ MaxVersion \in Nat \ {0}
    /\ BrowserBatch \in Nat \ {0}
    /\ CompanionBatch \in Nat \ {0}
    /\ WritesMayFail \in BOOLEAN

VARIABLES
    version,   \* EXTRACTION_VERSION of the application that is loaded
    doc,       \* state.pdfBytes
    pages,     \* state.pages
    running,   \* state.running, which enables either Start or Pause and Cancel
    abort,     \* the run state.abortBatch belongs to, 0 for null
    checkpointError,
    opening,   \* the PDFs that calls of openFile are preparing
    active,    \* the workspace is on the screen instead of the welcome page
    latest,    \* the number of runs so far
    run,       \* the runs
    queue,     \* transactions of the database that are pending
    stored,    \* the workspace in the database
    home       \* history variable: "own" while the workspace was started for the
               \* document that is open, "other" after another one was opened, and
               \* "mixed" for good once an extraction has worked meanwhile

session == <<version, doc, active, home>>
vars == <<session, pages, running, abort, checkpointError, opening, latest,
          run, queue, stored>>

Runs == 1 .. MaxRuns
NoPages == [p \in Pages |-> None]
Current == [doc |-> doc, version |-> version]
NoRun == [pc |-> "idle", engine |-> "browser", size |-> 0, wanted |-> {},
          todo |-> {}, batch |-> {}, sub |-> {}, failed |-> {}, retried |-> {},
          source |-> None, waits |-> 0, aborted |-> FALSE, stopped |-> FALSE,
          alone |-> TRUE]  \* history: no other run has worked beside this one
Active(a) == run[a].pc \notin {"idle", "ended"}
Working == \E a \in Runs : Active(a)

Init ==
    /\ version \in 1 .. MaxVersion
    /\ doc = None
    /\ pages = NoPages
    /\ running = FALSE
    /\ abort = 0
    /\ checkpointError = FALSE
    /\ opening = {}
    /\ active = FALSE
    /\ latest = 0
    /\ run = [a \in Runs |-> NoRun]
    /\ queue = <<>>
    /\ stored = [open |-> None, pages |-> NoPages]
    /\ home = "other"
-----------------------------------------------------------------------------
(* The workspace: transactions and the writes that wait for them.          *)

\* A workspace is started for a PDF that was opened, or again after a cancellation.
StartWorkspace(kind, d) ==
    Append(queue, [kind |-> kind, value |-> [doc |-> d, version |-> version]])
SavePage(p, v) == [kind |-> "page", page |-> p, value |-> v]

\* The number of transactions up to the last pending savePage:
\* waitForCheckpointWrites waits for the ones there are when it is called.
LastWrite(q) ==
    Cardinality({n \in DOMAIN q : \E i \in n .. Len(q) : q[i].kind = "page"})

Dequeue ==
    /\ queue' = Tail(queue)
    /\ run' = [a \in Runs |->
                 [run[a] EXCEPT !.waits = IF @ = 0 THEN 0 ELSE @ - 1]]

\* A transaction completes.  openFile ends with that of its workspace.
Commit ==
    /\ queue # <<>>
    /\ Dequeue
    /\ LET w == Head(queue)
       IN  /\ stored' = IF w.kind = "page"
                        THEN [stored EXCEPT !.pages[w.page] = w.value]
                        ELSE [open |-> w.value, pages |-> NoPages]
           /\ active' = (active \/ w.kind = "open")
    /\ UNCHANGED <<version, doc, home, pages, running, abort, checkpointError,
                   opening, latest>>

CommitFails ==
    /\ queue # <<>>
    /\ WritesMayFail
    /\ Head(queue).kind = "page"
    /\ Dequeue
    /\ checkpointError' = TRUE
    /\ UNCHANGED <<session, pages, running, abort, opening, latest, stored>>
-----------------------------------------------------------------------------
(* Opening and restoring.                                                  *)

\* openFile, up to preparePdf: the new document takes the place of the old one,
\* whatever is going on.
OpenFile(d) ==
    /\ Cardinality(opening) + Cardinality({i \in DOMAIN queue : queue[i].kind = "open"})
         < MaxOpens
    /\ doc' = d
    /\ opening' = opening \cup {d}
    /\ pages' = NoPages
    /\ home' = IF home = "mixed" \/ Working THEN "mixed" ELSE "other"
    /\ UNCHANGED <<version, active, running, abort, checkpointError, latest, run,
                   queue, stored>>

\* Its workspace is started, whichever document is open by now.
OpenPrepared(d) ==
    /\ d \in opening
    /\ opening' = opening \ {d}
    /\ queue' = StartWorkspace("open", d)
    /\ home' = IF home = "mixed" THEN "mixed"
               ELSE IF d = doc /\ pages = NoPages THEN "own"
               ELSE IF Working THEN "mixed" ELSE "other"
    /\ UNCHANGED <<version, doc, active, pages, running, abort, checkpointError,
                   latest, run, stored>>

\* preparePdf, the page limit or startWorkspace fails, which is taken to be known
\* at once.  What was assigned before stays.
OpenFails(d) ==
    /\ d \in opening
    /\ opening' = opening \ {d}
    /\ UNCHANGED <<session, pages, running, abort, checkpointError, latest, run,
                   queue, stored>>

\* restore, from the welcome page, which reads after the pending transactions:
\* pages of another extraction version are not taken over.
Restore ==
    /\ ~active
    /\ queue = <<>>
    /\ stored.open # None
    /\ doc' = stored.open.doc
    /\ pages' = IF stored.open.version = version THEN stored.pages ELSE NoPages
    /\ active' = TRUE
    /\ home' = IF home = "mixed" THEN "mixed" ELSE "own"
    /\ UNCHANGED <<version, running, abort, checkpointError, opening, latest, run,
                   queue, stored>>

\* The page is closed or reloaded, possibly with a newer version of the
\* application.  Transactions that have not committed are lost.
Reload ==
    /\ version' \in version .. MaxVersion
    /\ doc' = None
    /\ pages' = NoPages
    /\ running' = FALSE
    /\ abort' = 0
    /\ checkpointError' = FALSE
    /\ opening' = {}
    /\ active' = FALSE
    /\ home' = IF home = "mixed" THEN "mixed" ELSE "other"
    /\ run' = [a \in Runs |->
                 IF Active(a) THEN [NoRun EXCEPT !.pc = "ended"] ELSE run[a]]
    /\ queue' = <<>>
    /\ UNCHANGED <<latest, stored>>
-----------------------------------------------------------------------------
(* extract(): batches, providers and checkpoints.                          *)

\* The first n pages of S, in order.
First(n, S) == {p \in S : Cardinality({q \in S : q < p}) < n}

\* runBatch: a worker is given a copy of the document and some pages of it.
Work(r, S) == [r EXCEPT !.pc = "browser", !.sub = S, !.source = Current]

\* runBrowserBatches splits a batch once more, after a fallback into several.
BrowserBatches(r) ==
    LET sub == First(BrowserBatch, r.batch)
    IN  Work([r EXCEPT !.batch = @ \ sub], sub)

\* Mutant: a batch stays among the pages that remain.
NextBatchKeepsTodo(r) ==
    LET batch == First(r.size, r.todo)
        next == [r EXCEPT !.batch = batch, !.aborted = FALSE]
    IN  IF r.engine = "browser" THEN BrowserBatches(next)
        ELSE [next EXCEPT !.pc = "companion", !.source = Current]

\* The next batch, with an AbortController of its own.
NextBatch(r) ==
    LET batch == First(r.size, r.todo)
        next == [r EXCEPT !.todo = @ \ batch, !.batch = batch, !.aborted = FALSE]
    IN  IF r.engine = "browser" THEN BrowserBatches(next)
        ELSE [next EXCEPT !.pc = "companion", !.source = Current]

\* onFallback, for this batch and the remaining ones.
Fallback(r) == BrowserBatches([r EXCEPT !.engine = "browser"])

Goto(a, pc) == run' = [run EXCEPT ![a].pc = pc]
Await(a, pc, q) == run' = [run EXCEPT ![a].pc = pc, ![a].waits = LastWrite(q)]

\* Mutant: an extraction that ends leaves the controls as they are.
EndStillWorking(a) ==
    /\ run' = [run EXCEPT ![a] = [NoRun EXCEPT !.pc = "ended"]]
    /\ UNCHANGED running

\* The finally of extract(): setWorking(false), whoever is running.
End(a) ==
    /\ run' = [run EXCEPT ![a] = [NoRun EXCEPT !.pc = "ended"]]
    /\ running' = FALSE

\* setWorking enables the button of a start as soon as a run is stopped, and
\* whatever openFile is doing.
Start(W, engine) ==
    LET remaining == {p \in W : pages[p] = None}
        size == IF engine = "companion" THEN CompanionBatch ELSE BrowserBatch
        new == NextBatch([NoRun EXCEPT !.engine = engine, !.size = size,
                            !.wanted = remaining, !.todo = remaining,
                            !.alone = ~Working])
    IN  /\ active
        /\ ~running
        /\ latest < MaxRuns
        /\ remaining # {}
        /\ latest' = latest + 1
        /\ running' = TRUE
        /\ abort' = latest + 1
        /\ checkpointError' = FALSE
        /\ run' = [a \in Runs |->
                     IF a = latest + 1 THEN new
                     ELSE IF Active(a) THEN [run[a] EXCEPT !.alone = FALSE]
                     ELSE run[a]]
        /\ home' = IF home = "own" THEN "own" ELSE "mixed"
        /\ UNCHANGED <<version, doc, active, pages, opening, queue, stored>>

\* A page message of the worker: shown and queued for its checkpoint.
WorkerPage(a) ==
    /\ run[a].pc = "browser"
    /\ \E p \in First(1, run[a].sub) :
        /\ pages' = [pages EXCEPT ![p] = run[a].source]
        /\ queue' = Append(queue, SavePage(p, run[a].source))
        /\ run' = [run EXCEPT ![a].sub = @ \ {p}]
    /\ UNCHANGED <<session, running, abort, checkpointError, opening, latest, stored>>

WorkerPageFails(a) ==
    /\ run[a].pc = "browser"
    /\ \E p \in First(1, run[a].sub) :
        run' = [run EXCEPT ![a].sub = @ \ {p}, ![a].failed = @ \cup {p}]
    /\ UNCHANGED <<session, pages, running, abort, checkpointError, opening, latest,
                   queue, stored>>

\* The worker's last message.  The next part of the batch follows at once, and
\* after the last one each failed page is tried once more.
WorkerDone(a) ==
    LET r == run[a]
        retry == r.failed \ r.retried
    IN  /\ r.pc = "browser"
        /\ r.sub = {}
        /\ IF r.batch # {}
           THEN /\ run' = [run EXCEPT ![a] = BrowserBatches(r)]
                /\ abort' = a
           ELSE IF retry # {}
           THEN /\ run' = [run EXCEPT ![a] =
                             Work([r EXCEPT !.retried = @ \cup retry], retry)]
                /\ abort' = a
           ELSE /\ Await(a, "settling", queue)
                /\ abort' = 0
        /\ UNCHANGED <<session, pages, running, checkpointError, opening, latest,
                       queue, stored>>

\* The worker crashes, does not start in time, or gives up in strict mode.
WorkerCrash(a) ==
    /\ run[a].pc = "browser"
    /\ End(a)
    /\ abort' = 0
    /\ UNCHANGED <<session, pages, checkpointError, opening, latest, queue, stored>>

\* The pages of S in order.
Ordered(S) == {s \in [1 .. Cardinality(S) -> S] :
                  \A i, j \in DOMAIN s : i < j => s[i] < s[j]}

\* The Companion's document: shown and queued page by page without an await.
TakeResult(a) ==
    LET r == run[a]
    IN  /\ pages' = [p \in Pages |-> IF p \in r.batch THEN r.source ELSE pages[p]]
        /\ \E s \in Ordered(r.batch) :
            queue' = queue \o [i \in DOMAIN s |-> SavePage(s[i], r.source)]
        /\ Await(a, "confirming", queue')
        /\ UNCHANGED <<session, running, abort, checkpointError, opening, latest, stored>>

\* Mutant: the signal is not looked at when the result has come.
CompanionAnswersAnyway(a) ==
    /\ run[a].pc = "companion"
    /\ TakeResult(a)

CompanionAnswers(a) ==
    /\ run[a].pc = "companion"
    /\ ~run[a].aborted
    /\ TakeResult(a)

CompanionFails(a) ==
    /\ run[a].pc = "companion"
    /\ ~run[a].aborted
    /\ run' = [run EXCEPT ![a] = Fallback(@)]
    /\ abort' = a
    /\ UNCHANGED <<session, pages, running, checkpointError, opening, latest, queue,
                   stored>>

\* Mutant: an aborted extraction hangs in its requests.
CompanionNeverStops(a) == FALSE /\ UNCHANGED vars

\* An aborted extraction cancels its job, which is a request of its own, before
\* it is over.
CompanionStops(a) ==
    /\ run[a].pc = "companion"
    /\ run[a].aborted
    /\ End(a)
    /\ abort' = 0
    /\ UNCHANGED <<session, pages, checkpointError, opening, latest, queue, stored>>

\* Mutant: the checkpoints are not waited for.
ConfirmAtOnce(a) ==
    /\ run[a].pc = "confirming"
    /\ ~checkpointError
    /\ Goto(a, "acknowledging")
    /\ UNCHANGED <<session, pages, running, abort, checkpointError, opening, latest,
                   queue, stored>>

\* The checkpoints of the batch have settled: the result is acknowledged.
Confirm(a) ==
    /\ run[a].pc = "confirming"
    /\ run[a].waits = 0
    /\ ~checkpointError
    /\ Goto(a, "acknowledging")
    /\ UNCHANGED <<session, pages, running, abort, checkpointError, opening, latest,
                   queue, stored>>

\* A checkpoint that failed counts as a failure of the Companion.
ConfirmFails(a) ==
    /\ run[a].pc = "confirming"
    /\ run[a].waits = 0
    /\ checkpointError
    /\ IF run[a].aborted
       THEN /\ End(a)
            /\ abort' = 0
       ELSE /\ run' = [run EXCEPT ![a] = Fallback(@)]
            /\ abort' = a
            /\ UNCHANGED running
    /\ UNCHANGED <<session, pages, checkpointError, opening, latest, queue, stored>>

\* The acknowledgement was answered, or failed, which leaves a warning.
Acknowledged(a) ==
    /\ run[a].pc = "acknowledging"
    /\ Await(a, "settling", queue)
    /\ abort' = 0
    /\ UNCHANGED <<session, pages, running, checkpointError, opening, latest, queue,
                   stored>>

\* waitForCheckpointWrites, for either engine.
Settle(a) ==
    /\ run[a].pc = "settling"
    /\ run[a].waits = 0
    /\ IF checkpointError THEN End(a) ELSE Goto(a, "persisting") /\ UNCHANGED running
    /\ UNCHANGED <<session, pages, abort, checkpointError, opening, latest, queue,
                   stored>>

\* persist() is over: the next batch, the end, or nothing after a stop.
Persisted(a) ==
    /\ run[a].pc = "persisting"
    /\ \/ /\ running
          /\ run[a].todo # {}
          /\ run' = [run EXCEPT ![a] = NextBatch(@)]
          /\ abort' = a
          /\ UNCHANGED running
       \/ /\ running
          /\ run[a].todo = {}
          /\ Goto(a, "finishing")
          /\ UNCHANGED <<running, abort>>
       \/ /\ ~running
          /\ End(a)
          /\ UNCHANGED abort
    /\ UNCHANGED <<session, pages, checkpointError, opening, latest, queue, stored>>

\* persist() fails, or the extraction is complete.
Finish(a) ==
    /\ run[a].pc \in {"persisting", "finishing"}
    /\ End(a)
    /\ UNCHANGED <<session, pages, abort, checkpointError, opening, latest, queue,
                   stored>>

\* stop(), up to its await: the worker of the run that abortBatch belongs to is
\* gone at once, the Companion's run is signalled.
StopRuns ==
    /\ running
    /\ running' = FALSE
    /\ abort' = 0
    /\ run' = [a \in Runs |->
                 IF ~Active(a) THEN run[a]
                 ELSE IF a = abort /\ run[a].pc = "browser"
                 THEN [NoRun EXCEPT !.pc = "ended"]
                 ELSE [run[a] EXCEPT !.stopped = TRUE, !.aborted = @ \/ a = abort]]

Pause ==
    /\ StopRuns
    /\ UNCHANGED <<session, pages, checkpointError, opening, latest, queue, stored>>

\* Mutant: the checkpoints are left in the database.
CancelKeepsCheckpoints ==
    /\ StopRuns
    /\ pages' = NoPages
    /\ UNCHANGED <<session, checkpointError, opening, latest, queue, stored>>

Cancel ==
    /\ StopRuns
    /\ pages' = NoPages
    /\ queue' = StartWorkspace("cancel", doc)
    /\ UNCHANGED <<session, checkpointError, opening, latest, stored>>
-----------------------------------------------------------------------------
\* Promises that have settled come first: a wait that is over goes on in the same
\* task as what ended it.
Due(a) == run[a].pc \in {"confirming", "settling"} /\ run[a].waits = 0
NothingDue == \A a \in Runs : ~Due(a)

Resume(a) == Confirm(a) \/ ConfirmFails(a) \/ Settle(a)

Proceed(a) ==
    \/ WorkerPage(a) \/ WorkerPageFails(a) \/ WorkerDone(a) \/ WorkerCrash(a)
    \/ CompanionAnswers(a) \/ CompanionFails(a) \/ CompanionStops(a)
    \/ Acknowledged(a) \/ Persisted(a) \/ Finish(a)

RunStep(a) == Resume(a) \/ (NothingDue /\ Proceed(a))

DatabaseStep == NothingDue /\ (Commit \/ CommitFails)

OpenStep == \E d \in Docs : OpenPrepared(d) \/ OpenFails(d)

UserStep ==
    \/ \E d \in Docs : OpenFile(d)
    \/ Restore \/ Reload \/ Pause \/ Cancel
    \/ \E W \in Selections, e \in {"browser", "companion"} : Start(W, e)

Next ==
    \/ \E a \in Runs : RunStep(a)
    \/ DatabaseStep
    \/ NothingDue /\ (OpenStep \/ UserStep)

Spec == Init /\ [][Next]_vars

\* A worker goes on to its end, the Companion's requests have timeouts and the
\* database completes its transactions.
Fairness ==
    /\ \A a \in Runs : WF_vars(RunStep(a))
    /\ WF_vars(DatabaseStep)
-----------------------------------------------------------------------------
(* Properties.                                                             *)

\* Types, and what a run has in hand at each point: nothing but the pages it
\* wants, in disjoint parts, and a document it was given.
SessionInv ==
    /\ version \in 1 .. MaxVersion
    /\ doc \in Docs \cup {None}
    /\ pages \in [Pages -> Value \cup {None}]
    /\ {running, checkpointError, active} \subseteq BOOLEAN
    /\ abort \in 0 .. latest
    /\ latest \in 0 .. MaxRuns
    /\ opening \subseteq Docs
    /\ home \in {"own", "other", "mixed"}
    /\ stored.open \in Value \cup {None}
    /\ stored.pages \in [Pages -> Value \cup {None}]
    /\ \A i \in DOMAIN queue :
        /\ queue[i].kind \in {"page", "open", "cancel"}
        /\ queue[i].kind = "page" => queue[i].page \in Pages
        /\ queue[i].value \in Value
    /\ \A a \in Runs :
        LET r == run[a]
        IN  /\ r.pc = "idle" <=> a > latest
            /\ Active(a) => doc # None /\ r.source \in Value
            /\ r.waits \in 0 .. Len(queue)
            /\ r.todo \cup r.batch \cup r.sub \cup r.failed \subseteq r.wanted
            /\ r.wanted \subseteq Pages
            /\ r.todo \cap (r.batch \cup r.sub \cup r.failed) = {}
            /\ r.batch \cap r.sub = {}
            /\ r.retried \subseteq r.failed

\* Nobody mixes documents or versions: what is shown was extracted from the open
\* document by the version that is running, and what is stored belongs to the
\* document that is stored with it.  openFile takes the place of what was open and
\* starts a workspace of its own (app.js:556-594), but a PDF can be opened while an
\* extraction works, and may fail to open.
\* The code does not have this property: see "Divergences" in the README.
OneDocument ==
    /\ \A p \in Pages : pages[p] # None => pages[p] = Current
    /\ \A p \in Pages : stored.pages[p] # None =>
        stored.open # None /\ stored.pages[p].doc = stored.open.doc

\* What the database will hold of a page when all pending transactions are done.
Eventually(p) ==
    LET about == {i \in DOMAIN queue :
                    queue[i].kind = "page" => queue[i].page = p}
        last == CHOOSE i \in about : \A j \in about : j <= i
    IN  IF about = {} THEN stored.pages[p]
        ELSE IF queue[last].kind = "page" THEN queue[last].value
        ELSE None

\* The checkpoints follow the session in the workspace of the open document: what
\* they will hold of a page is what is shown, and once no workspace waits to be
\* started, as after a cancellation that is reported, they hold nothing else, so
\* that a reload brings no cancelled page back.  A page that is shown may be missing
\* only when writes fail; in a workspace of another version the old checkpoints are
\* still there.
CheckpointsFollow ==
    home = "own" =>
        \A p \in Pages :
            \/ stored.open # None /\ stored.open.version # version
            \/ /\ Eventually(p) = pages[p] \/ (WritesMayFail /\ Eventually(p) = None)
               /\ (\A i \in DOMAIN queue : queue[i].kind = "page") =>
                    stored.pages[p] \in {None, pages[p]}

\* The pages on the screen and in the database are those of one document and
\* version, and belong together, also with several runs, cancelled ones, reloads,
\* and PDFs that replace others, until an extraction has worked in a workspace that
\* was not started for the open document.
PagesFollowTheDocument == home # "mixed" => OneDocument /\ CheckpointsFollow

Durable(a) ==
    run[a].pc # run'[a].pc /\ run'[a].pc \in {"acknowledging", "persisting"} =>
        \A p \in run[a].wanted \ run[a].todo :
            pages[p] = None \/ stored.pages[p] = pages[p]

Complete(a) ==
    run[a].pc # "finishing" /\ run'[a].pc = "finishing" =>
        \A p \in run[a].wanted : pages[p] # None \/ p \in run[a].retried

\* A result is acknowledged, and a batch reported as persisted, only when the
\* pages the run has extracted so far are in the database, unless they were
\* discarded: "After the browser durably checkpoints a completed batch, it
\* acknowledges the result" (docs/companion-engine.md:41), "checkpoint-write: the
\* batch is safely persisted" (docs/browser.md:40).
\* The code does not have this property: see "Divergences" in the README.
DurableBeforeReported == [][\A a \in Runs : Durable(a)]_vars

\* What a run reports is true when it reports it, provided that no other run works
\* beside it and none works for another document: its pages are durable, and it is
\* complete only when each page it wanted is shown or has failed twice, also after a
\* fallback half way (waitForCheckpointWrites, the batches of extract()).
ReportsAreTrue ==
    [][\A a \in Runs :
        run[a].alone /\ home # "mixed" => Durable(a) /\ Complete(a)]_vars

\* A run shows no more pages and begins no more work.
Quiet(a) ==
    /\ run'[a].pc # "browser"
    /\ run'[a].pc \in {"companion", "confirming"} => run'[a].pc = run[a].pc

\* A stopped run is quiet: "cancellation does not start fallback work"
\* (docs/architecture.md:11).
\* The code does not have this property: see "Divergences" in the README.
StoppedIsQuiet == [][\A a \in Runs : Active(a) /\ run[a].stopped => Quiet(a)]_vars

\* What is true of it with several runs: the Companion's batch that the stop has
\* aborted gives no page and no fallback any more, and a run beside which no other
\* works is quiet whatever it waits for.
StoppedRunsAreQuiet ==
    [][\A a \in Runs :
        /\ Active(a) /\ run[a].stopped
        /\ run[a].alone \/ (run[a].aborted /\ run[a].pc \in {"companion", "confirming"})
        => Quiet(a)]_vars

\* The controls follow the latest run: it is shown as running, and can be paused,
\* until it ends or its user stops it ("pausing and resuming is safe",
\* docs/browser.md:31).
\* The code does not have this property: see "Divergences" in the README.
ControlsFollow ==
    running <=> latest > 0 /\ Active(latest) /\ ~run[latest].stopped

\* Where abortBatch belongs to a run.
Abortable == {"browser", "companion", "confirming", "acknowledging"}

\* What is true of it with several runs: the controls never show an extraction that
\* is not there, what a stop aborts is a batch that is being worked on, and a run
\* beside which no other works can be stopped, with its batch, until it ends.
ControlsAreTrue ==
    /\ running => latest > 0 /\ Active(latest) /\ ~run[latest].stopped
    /\ abort # 0 => run[abort].pc \in Abortable
    /\ \A a \in Runs : Active(a) /\ run[a].alone /\ ~run[a].stopped =>
        /\ running
        /\ run[a].pc \in Abortable => abort = a

\* A page that is stored by the running version of the application is there again
\* after a reload: "Completed batches are checkpointed, so pausing and resuming is
\* safe" (docs/browser.md:31).
\* The code does not have this property: see "Divergences" in the README.
CheckpointsAreRestored ==
    [][Restore => \A p \in Pages :
        stored.pages[p] = [doc |-> stored.open.doc, version |-> version] =>
            pages'[p] = stored.pages[p]]_vars

\* Every extraction ends, stopped or not: as extract() is called a bounded number of
\* times, there is always a later moment when none is working.
ExtractionsEnd == []<>~Working
=============================================================================

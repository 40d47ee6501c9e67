-------------------------- MODULE ExtractionWorker --------------------------
(***************************************************************************)
(* A batch of pages in the browser's extraction worker: the worker's side  *)
(* (self.onmessage of extract-worker.js) and the page's side (runBatch of  *)
(* app.js with the watchdog of worker-startup.js).  Between them messages  *)
(* arrive in order until the worker is terminated, which drops the rest.   *)
(* How a page becomes an answer is PageExtraction.                         *)
(***************************************************************************)
EXTENDS PageExtraction

CONSTANT BatchSize       \* pages of the batch

ASSUME BatchSizeAssumption == BatchSize \in Nat \ {0}

VARIABLES
    batch,      \* "running", "done" or "failed": the promise of runBatch
    watch,      \* the phase the watchdog times, "none" or "closed"
    worker,     \* what the worker is doing
    index,      \* the page of the batch the worker is at
    channel,    \* messages posted by the worker and not yet handled
    answers     \* pages the application heard of, with the kind of their message

workerVars == <<batch, watch, worker, index, channel, answers>>
vars == <<options, pageVars, workerVars>>

Message(type, n) == [type |-> type, page |-> n]
Notice(type) == Message(type, 0)
Post(messages) == channel' = channel \o messages

Phases == {"worker-boot", "mupdf-load"}

\* runBatch creates the worker, starts the watchdog and posts the request.
Init ==
    /\ options \in Settings
    /\ batch = "running"
    /\ watch = "worker-boot"
    /\ worker = "booting"
    /\ index = 1
    /\ channel = <<>>
    /\ answers = <<>>
    /\ page = NoPage
    /\ stage = "none"
    /\ entries = <<>> /\ assets = <<>>
    /\ ocrApplied = FALSE /\ ocrConfident = FALSE
    /\ preserveSourcePage = FALSE /\ sourcePageFallbackFailed = FALSE
    /\ todo = {} /\ recovered = {} /\ given = {}

-----------------------------------------------------------------------------
(* The worker                                                              *)

\* The first message starts the worker, which tells so and loads the engine; a
\* request it rejects is answered with an error.
Boot ==
    /\ worker = "booting"
    /\ \/ /\ worker' = "loading"
          /\ Post(<<Notice("worker-started"), Notice("engine-loading")>>)
       \/ /\ worker' = "ended"
          /\ Post(<<Notice("error")>>)
    /\ UNCHANGED <<options, pageVars, batch, watch, index, answers>>

\* The engine is loaded and opens the document, or the worker ends with an error:
\* the engine or the document fails to load, or the password is wrong.
LoadEngine ==
    /\ worker = "loading"
    /\ \/ /\ worker' = "between"
          /\ Post(<<Notice("engine-ready")>>)
       \/ /\ worker' = "ended"
          /\ \/ Post(<<Notice("error")>>)
             \/ Post(<<Notice("engine-ready"), Notice("error")>>)
    /\ UNCHANGED <<options, pageVars, batch, watch, index, answers>>

StartPage ==
    /\ worker = "between" /\ index <= BatchSize
    /\ worker' = "page"
    /\ Post(<<Message("page-start", index)>>)
    /\ \E content \in Contents : OpenPage(content)
    /\ UNCHANGED <<options, batch, watch, index, answers>>

ExtractPage ==
    /\ worker = "page"
    /\ PageStep
    /\ UNCHANGED <<options, workerVars>>

\* The page cannot be loaded or read at all.
PageThrows ==
    /\ worker = "page" /\ stage = "read"
    /\ stage' = "failed"
    /\ UNCHANGED <<options, page, entries, assets, ocrApplied, ocrConfident,
                   preserveSourcePage, sourcePageFallbackFailed, todo, recovered, given,
                   workerVars>>

ClosePage ==
    /\ page' = NoPage
    /\ stage' = "none"
    /\ entries' = <<>> /\ assets' = <<>>
    /\ ocrApplied' = FALSE /\ ocrConfident' = FALSE
    /\ preserveSourcePage' = FALSE /\ sourcePageFallbackFailed' = FALSE
    /\ todo' = {} /\ recovered' = {} /\ given' = {}

AnswerPage ==
    /\ worker = "page" /\ Answered
    /\ worker' = "between"
    /\ index' = index + 1
    /\ Post(<<Message("page", index)>>)
    /\ ClosePage
    /\ UNCHANGED <<options, batch, watch, answers>>

\* A page that fails is reported; under strict extraction the batch fails with it.
FailPage ==
    /\ worker = "page" /\ stage = "failed"
    /\ \/ /\ options.strict
          /\ worker' = "ended"
          /\ Post(<<Message("page-error", index), Notice("error")>>)
       \/ /\ ~options.strict
          /\ worker' = "between"
          /\ Post(<<Message("page-error", index)>>)
    /\ index' = index + 1
    /\ ClosePage
    /\ UNCHANGED <<options, batch, watch, answers>>

\* Mutant: done is posted before the last page.
FinishWorkerEarly ==
    /\ worker = "between" /\ index >= BatchSize
    /\ worker' = "ended"
    /\ Post(<<Notice("done")>>)
    /\ UNCHANGED <<options, pageVars, batch, watch, index, answers>>

FinishWorker ==
    /\ worker = "between" /\ index > BatchSize
    /\ worker' = "ended"
    /\ Post(<<Notice("done")>>)
    /\ UNCHANGED <<options, pageVars, batch, watch, index, answers>>

-----------------------------------------------------------------------------
(* The application                                                         *)

\* The batch settles once: the watchdog is closed and the worker terminated, with
\* what it had still posted.
Finish(outcome) ==
    /\ batch' = outcome
    /\ watch' = "closed"
    /\ worker' = "terminated"
    /\ channel' = <<>>
    /\ ClosePage

\* What a message does to the watchdog.
NextPhase(type) ==
    CASE type = "worker-started" /\ watch = "worker-boot" -> "mupdf-load"
      [] type = "engine-ready" /\ watch = "mupdf-load" -> "none"
      [] OTHER -> watch

Heard(m) ==
    IF m.type \in {"page", "page-error"} THEN Append(answers, m) ELSE answers

Receive ==
    /\ batch = "running" /\ channel # <<>>
    /\ LET m == Head(channel)
       IN /\ answers' = Heard(m)
          /\ CASE m.type = "done" -> Finish("done")
               [] m.type = "error" -> Finish("failed")
               [] OTHER -> /\ watch' = NextPhase(m.type)
                           /\ channel' = Tail(channel)
                           /\ UNCHANGED <<batch, worker, pageVars>>
    /\ UNCHANGED <<options, index>>

\* A message that the application's own checks reject ends the batch.
Reject ==
    /\ batch = "running" /\ channel # <<>>
    /\ Finish("failed")
    /\ UNCHANGED <<options, index, answers>>

\* Mutant: only the boot of the worker is timed.
StartupTimesOutBoot ==
    /\ batch = "running" /\ watch = "worker-boot"
    /\ Finish("failed")
    /\ UNCHANGED <<options, index, answers>>

\* The watchdog's timer fires in the phase it was started for.
StartupTimesOut ==
    /\ batch = "running" /\ watch \in Phases
    /\ Finish("failed")
    /\ UNCHANGED <<options, index, answers>>

\* The user pauses or cancels, or the worker raises an error event.
Abort ==
    /\ batch = "running"
    /\ Finish("failed")
    /\ UNCHANGED <<options, index, answers>>

Next ==
    \/ Boot \/ LoadEngine \/ StartPage \/ ExtractPage \/ PageThrows
    \/ AnswerPage \/ FailPage \/ FinishWorker
    \/ Receive \/ Reject \/ StartupTimesOut \/ Abort

Spec == Init /\ [][Next]_vars

\* Timers fire and messages are delivered.  Before the engine is ready the worker may
\* stay silent for ever; from then on it is assumed to go on, because nothing
\* watches it any more.
Fairness ==
    /\ WF_vars(Receive)
    /\ WF_vars(StartupTimesOut)
    /\ WF_vars(StartPage \/ ExtractPage \/ AnswerPage \/ FailPage \/ FinishWorker)
FairSpec == Spec /\ Fairness

-----------------------------------------------------------------------------
(* What a batch promises                                                   *)

WorkerInv ==
    /\ batch \in {"running", "done", "failed"}
    /\ watch \in Phases \cup {"none", "closed"}
    /\ worker \in {"booting", "loading", "between", "page", "ended", "terminated"}
    /\ index \in 1..(BatchSize + 1)
    /\ (stage # "none") <=> (worker = "page")

\* The application hears of the pages in the order of the batch, of each once.
AnswersInOrder == \A i \in DOMAIN answers : answers[i].page = i

\* A batch that is done heard of every page: nothing that was posted before the end
\* is lost, and an answer never comes after it (3086-3122, app.js 659-779).
DoneMeansAnswered == batch = "done" => Len(answers) = BatchSize

\* Under strict extraction a batch with a failed page is not done (3117).
StrictBatchesAreWhole ==
    batch = "done" /\ options.strict =>
        \A i \in DOMAIN answers : answers[i].type = "page"

\* While the worker boots or loads its engine a timer runs, so that a worker that
\* hangs is noticed (worker-startup.js 22-79).
StartupIsWatched ==
    batch = "running" /\ worker \in {"booting", "loading"} => watch \in Phases

\* What a page holds is in its answer once, as text or as a picture, or its loss is
\* told, whatever crops fail and recognisers say.
ContentsArrive ==
    /\ PageInv
    /\ TextSurvives
    /\ PicturesSurvive
    /\ OneReading
    /\ MarkersHavePictures
    /\ DamageIsNeverSilent

\* A batch answers for its pages in order and completely, under a watch that closes
\* when the worker has started.
BatchInv ==
    /\ WorkerInv
    /\ AnswersInOrder
    /\ DoneMeansAnswered
    /\ StrictBatchesAreWhole
    /\ StartupIsWatched

\* A batch ends, though its worker may never start or never load its engine.
BatchEnds == <>(batch # "running")
=============================================================================

------------------------------- MODULE OcrPool -------------------------------
(***************************************************************************)
(* extract_document of the native engine (companion-extractor/src/lib.rs): *)
(* the provider's thread reads the selected pages and hands them to the    *)
(* OCR workers through a bounded channel; the workers send what they made  *)
(* of them back through an unbounded one; the provider collects as many    *)
(* results as it submitted pages, joins the workers and decides.           *)
(*                                                                         *)
(* A page is its number.  Pages are read in the order they were selected,  *)
(* so the work channel is the set of the pages in it, the first first; the *)
(* results are a set, for the provider sorts the pages it collected.       *)
(***************************************************************************)
EXTENDS Naturals, FiniteSets

CONSTANTS
    Pages,       \* options.selected_pages, in ascending order
    Workers,     \* the threads of the pool, OCR_WORKERS of them
    MaxPanics    \* bound on the workers that panic

ASSUME PoolAssumption ==
    /\ Pages \subseteq Nat /\ IsFiniteSet(Pages)
    /\ IsFiniteSet(Workers)
    /\ MaxPanics \in Nat

VARIABLES
    cancelled,   \* the job's cancellation token
    stage,       \* where the provider's thread stands
    reading,     \* the page it is about to send, a set of at most one
    error,       \* producer_error
    outcome,     \* what extract_document returned
    unread,      \* selected pages not read yet
    queue,       \* the work channel
    worker,      \* what each worker is doing ...
    holds,       \* ... and the page it does it to, a set of at most one
    made, refused, \* the result channel: pages, and pages with an error
    collected,   \* pages taken from the result channel
    received,    \* pages whose result or error was taken
    lost         \* pages that were with a worker that panicked

producer == <<stage, reading, error, outcome, unread>>
channels == <<queue, made, refused>>
pool == <<worker, holds>>
taken == <<collected, received>>
vars == <<cancelled, producer, channels, pool, taken, lost>>

IsFirst(p, S) == \A q \in S : p <= q
Submitted == Pages \ (unread \cup reading)
Stopped(w) == worker[w] \in {"stopped", "panicked"}
\* drop(work_sender) is behind the provider.
SenderDropped == stage \notin {"reading", "sending"}
Fail(cause) == error' = IF error = "none" THEN cause ELSE error

Init ==
    /\ cancelled = FALSE
    /\ stage = "reading"
    /\ reading = {}
    /\ error = "none"
    /\ outcome = "none"
    /\ unread = Pages
    /\ queue = {}
    /\ worker = [w \in Workers |-> "waiting"]
    /\ holds = [w \in Workers |-> {}]
    /\ made = {}
    /\ refused = {}
    /\ collected = {}
    /\ received = {}
    /\ lost = {}

\* The user cancels the job or its provider times out.
Cancel ==
    /\ ~cancelled
    /\ outcome = "none"
    /\ cancelled' = TRUE
    /\ UNCHANGED <<producer, channels, pool, taken, lost>>
-----------------------------------------------------------------------------
(* The provider's thread.                                                  *)

\* The next page is read and rendered.
ReadPage ==
    /\ stage = "reading"
    /\ ~cancelled
    /\ \E p \in unread :
        /\ IsFirst(p, unread)
        /\ unread' = unread \ {p}
        /\ reading' = {p}
    /\ stage' = "sending"
    /\ UNCHANGED <<cancelled, error, outcome, channels, pool, taken, lost>>

\* All pages are read, or reading ends early: cancelled, or an unreadable page.
StopReading ==
    /\ stage = "reading"
    /\ \/ /\ unread = {}
          /\ UNCHANGED error
       \/ /\ unread # {}
          /\ cancelled
          /\ Fail("cancelled")
       \/ /\ unread # {}
          /\ ~cancelled
          /\ Fail("failed")
    /\ stage' = "collecting"
    /\ UNCHANGED <<cancelled, reading, outcome, unread, channels, pool, taken,
                   lost>>

\* Mutant: the channel takes one page more than there are workers.
SendPageOneMore ==
    /\ stage = "sending"
    /\ Cardinality(queue) <= Cardinality(Workers)
    /\ queue' = queue \cup reading
    /\ reading' = {}
    /\ stage' = "reading"
    /\ UNCHANGED <<cancelled, error, outcome, unread, made, refused, pool,
                   taken, lost>>

\* send blocks while the channel is full.  It cannot fail: the provider keeps
\* its own reference to the receiver until it returns.
SendPage ==
    /\ stage = "sending"
    /\ Cardinality(queue) < Cardinality(Workers)
    /\ queue' = queue \cup reading
    /\ reading' = {}
    /\ stage' = "reading"
    /\ UNCHANGED <<cancelled, error, outcome, unread, made, refused, pool,
                   taken, lost>>

\* Whether the document still fits in MAX_DOCUMENT_IR_BYTES with this page is a
\* matter of its text.
CollectPage ==
    /\ stage = "collecting"
    /\ \E p \in made :
        /\ made' = made \ {p}
        /\ received' = received \cup {p}
        /\ \/ /\ collected' = collected \cup {p}
              /\ UNCHANGED <<cancelled, stage, error>>
           \/ /\ error' = "failed"
              /\ cancelled' = TRUE
              /\ stage' = "joining"
              /\ UNCHANGED collected
    /\ UNCHANGED <<reading, outcome, unread, queue, refused, pool, lost>>

CollectError ==
    /\ stage = "collecting"
    /\ \E p \in refused :
        /\ refused' = refused \ {p}
        /\ received' = received \cup {p}
    /\ Fail("cancelled")
    /\ UNCHANGED <<cancelled, stage, reading, outcome, unread, queue, made,
                   pool, collected, lost>>

\* Mutant: the provider keeps an end of the result channel for itself.
StopCollectingOwnSender ==
    /\ stage = "collecting"
    /\ received = Submitted
    /\ stage' = "joining"
    /\ UNCHANGED <<cancelled, reading, error, outcome, unread, channels, pool,
                   taken, lost>>

\* Every submitted page is accounted for, or the last worker has gone and its
\* end of the channel with it.
StopCollecting ==
    /\ stage = "collecting"
    /\ \/ /\ received = Submitted
          /\ UNCHANGED error
       \/ /\ received # Submitted
          /\ made \cup refused = {}
          /\ \A w \in Workers : Stopped(w)
          /\ Fail("failed")
    /\ stage' = "joining"
    /\ UNCHANGED <<cancelled, reading, outcome, unread, channels, pool, taken,
                   lost>>

\* Mutant: the workers are not joined.
ReturnWithoutJoin ==
    /\ stage = "joining"
    /\ outcome' = IF error # "none" THEN error
                  ELSE IF cancelled THEN "cancelled"
                  ELSE IF collected # Pages THEN "failed" ELSE "ok"
    /\ stage' = "returned"
    /\ UNCHANGED <<cancelled, reading, error, unread, channels, pool, taken,
                   lost>>

\* join waits for every worker and reports the ones that panicked.
Return ==
    /\ stage = "joining"
    /\ \A w \in Workers : Stopped(w)
    /\ IF \E w \in Workers : worker[w] = "panicked"
       THEN Fail("failed") ELSE UNCHANGED error
    /\ outcome' = IF error' # "none" THEN error'
                  ELSE IF cancelled THEN "cancelled"
                  ELSE IF collected # Pages THEN "failed" ELSE "ok"
    /\ stage' = "returned"
    /\ UNCHANGED <<cancelled, reading, unread, channels, pool, taken, lost>>
-----------------------------------------------------------------------------
(* A worker.                                                               *)

TakePage(w) ==
    /\ worker[w] = "waiting"
    /\ \E p \in queue :
        /\ IsFirst(p, queue)
        /\ queue' = queue \ {p}
        /\ holds' = [holds EXCEPT ![w] = {p}]
    /\ worker' = [worker EXCEPT ![w] = "recognising"]
    /\ UNCHANGED <<cancelled, producer, made, refused, taken, lost>>

\* The channel is empty and closed.
StopWorker(w) ==
    /\ worker[w] = "waiting"
    /\ queue = {}
    /\ SenderDropped
    /\ worker' = [worker EXCEPT ![w] = "stopped"]
    /\ UNCHANGED <<cancelled, producer, channels, holds, taken, lost>>

\* The token is looked at before and after OCR; OCR errors stay in the page.
Recognise(w) ==
    /\ worker[w] = "recognising"
    /\ ~cancelled
    /\ worker' = [worker EXCEPT ![w] = "reconstructing"]
    /\ UNCHANGED <<cancelled, producer, channels, holds, taken, lost>>

SkipPage(w) ==
    /\ worker[w] = "recognising"
    /\ cancelled
    /\ refused' = refused \cup holds[w]
    /\ holds' = [holds EXCEPT ![w] = {}]
    /\ worker' = [worker EXCEPT ![w] = "waiting"]
    /\ UNCHANGED <<cancelled, producer, queue, made, taken, lost>>

MakePage(w) ==
    /\ worker[w] = "reconstructing"
    /\ made' = made \cup holds[w]
    /\ holds' = [holds EXCEPT ![w] = {}]
    /\ worker' = [worker EXCEPT ![w] = "waiting"]
    /\ UNCHANGED <<cancelled, producer, queue, refused, taken, lost>>

\* A panic in OCR or reconstruction ends the thread without a result.
Panic(w) ==
    /\ worker[w] \in {"recognising", "reconstructing"}
    /\ Cardinality({v \in Workers : worker[v] = "panicked"}) < MaxPanics
    /\ worker' = [worker EXCEPT ![w] = "panicked"]
    /\ lost' = lost \cup holds[w]
    /\ holds' = [holds EXCEPT ![w] = {}]
    /\ UNCHANGED <<cancelled, producer, channels, taken>>
-----------------------------------------------------------------------------
ProviderStep ==
    \/ ReadPage \/ StopReading \/ SendPage
    \/ CollectPage \/ CollectError \/ StopCollecting
    \/ Return

WorkerStep(w) ==
    \/ TakePage(w) \/ StopWorker(w)
    \/ Recognise(w) \/ SkipPage(w) \/ MakePage(w)

Next == Cancel \/ ProviderStep \/ \E w \in Workers : WorkerStep(w) \/ Panic(w)

Spec == Init /\ [][Next]_vars

\* The operating system runs every thread that is not blocked.
FairSpec == Spec /\ WF_vars(ProviderStep) /\ \A w \in Workers : WF_vars(WorkerStep(w))
-----------------------------------------------------------------------------
(* Properties.                                                             *)

\* Types; the channel never holds more than its capacity and no thread more than
\* one page.
TypeOK ==
    /\ cancelled \in BOOLEAN
    /\ stage \in {"reading", "sending", "collecting", "joining", "returned"}
    /\ reading \subseteq Pages /\ Cardinality(reading) <= 1
    /\ error \in {"none", "cancelled", "failed"}
    /\ outcome \in {"none", "ok", "cancelled", "failed"}
    /\ unread \subseteq Pages
    /\ queue \subseteq Pages /\ Cardinality(queue) <= Cardinality(Workers)
    /\ worker \in [Workers -> {"waiting", "recognising", "reconstructing",
                               "stopped", "panicked"}]
    /\ holds \in [Workers -> SUBSET Pages]
    /\ \A w \in Workers : Cardinality(holds[w]) <= 1
    /\ made \subseteq Pages
    /\ refused \subseteq Pages
    /\ collected \subseteq Pages
    /\ received \subseteq Pages
    /\ lost \subseteq Pages

\* No page is dropped or handled twice between the threads: each selected page
\* is in exactly one place, whoever is cancelled or panics.
Held == UNION {holds[w] : w \in Workers}
PagesConserved ==
    /\ Pages = unread \cup reading \cup queue \cup Held \cup made \cup refused
                 \cup received \cup lost
    /\ reading \cap unread = {}
    /\ queue \cap (unread \cup reading) = {}
    /\ Held \cap (unread \cup reading \cup queue) = {}
    /\ made \cap (unread \cup reading \cup queue \cup Held) = {}
    /\ refused \cap (unread \cup reading \cup queue \cup Held \cup made) = {}
    /\ lost \cap (unread \cup reading \cup queue \cup Held \cup made \cup refused) = {}
    /\ received \cap (unread \cup reading \cup queue \cup Held \cup made
                        \cup refused \cup lost) = {}
    /\ \A v, w \in Workers : v # w => holds[v] \cap holds[w] = {}

\* What a thread has in its hands agrees with where it stands, and a page is lost
\* exactly when a worker panicked.
ThreadsInv ==
    /\ stage = "sending" <=> reading # {}
    /\ \A w \in Workers :
        worker[w] \in {"recognising", "reconstructing"} <=> holds[w] # {}
    /\ lost # {} <=> \E w \in Workers : worker[w] = "panicked"
    /\ outcome # "none" <=> stage = "returned"

\* A document is only returned when every selected page is in it, no worker
\* failed and no thread of the pool is left running.
OnlyWholeDocuments ==
    outcome = "ok" =>
        /\ collected = Pages
        /\ lost = {}
        /\ \A w \in Workers : worker[w] = "stopped"

\* However long the document, at most one rendered page per worker, one per slot
\* of the channel and the one being sent are in memory at a time.
RenderedPagesBounded ==
    Cardinality(reading \cup queue \cup Held) <= 2 * Cardinality(Workers) + 1

\* Each page is in one place at any time, and few of them are rendered at once.
PagesAccounted == TypeOK /\ PagesConserved /\ RenderedPagesBounded

\* The provider returns, cancelled or not, and whatever panics while a worker
\* is left: nobody waits for a thread that waits for him.
ExtractionReturns == <>(outcome # "none")

\* "all bounded OCR workers stopped unexpectedly" and "OCR workers stopped before
\* returning every page" (lib.rs:404, 436): a provider whose workers are all gone
\* notices and returns.
\* The code does not have this property: see "Divergences" in the README.
DeadPoolReported ==
    (\A w \in Workers : Stopped(w)) ~> outcome # "none"
=============================================================================

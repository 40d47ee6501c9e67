----------------------- MODULE ExtractionSessionProofs -----------------------
(***************************************************************************)
(* Machine-checked proofs about ExtractionSession, for any PDFs, pages,    *)
(* selections and batch sizes, any number of runs and versions, and with   *)
(* or without failing writes.                                              *)
(***************************************************************************)
EXTENDS ExtractionSession, FiniteSetTheorems, WellFoundedInduction, TLAPS

Waiting == {"confirming", "acknowledging", "settling", "persisting", "finishing"}
Over == {"idle", "ended"}

RunType ==
    [pc : Over \cup {"browser", "companion"} \cup Waiting,
     engine : {"browser", "companion"}, size : Nat,
     wanted : SUBSET Pages, todo : SUBSET Pages, batch : SUBSET Pages,
     sub : SUBSET Pages, failed : SUBSET Pages, retried : SUBSET Pages,
     source : Value \cup {None}, waits : Nat, aborted : BOOLEAN, stopped : BOOLEAN,
     alone : BOOLEAN]

\* The parts of the pages a run wants.
Parts(r) ==
    /\ r \in RunType
    /\ r.todo \cup r.batch \cup r.sub \cup r.failed \subseteq r.wanted
    /\ r.todo \cap (r.batch \cup r.sub \cup r.failed) = {}
    /\ r.batch \cap r.sub = {}
    /\ r.retried \subseteq r.failed

RunInv(r) ==
    /\ Parts(r)
    /\ r.pc \in Over => r = [NoRun EXCEPT !.pc = r.pc]
    /\ r.pc \notin Over => r.source \in Value

Transaction == [kind : {"open", "cancel"}, value : Value]
               \cup [kind : {"page"}, page : Pages, value : Value]

\* The session without its runs.
StateInv ==
    /\ version \in 1 .. MaxVersion
    /\ doc \in Docs \cup {None}
    /\ pages \in [Pages -> Value \cup {None}]
    /\ running \in BOOLEAN
    /\ checkpointError \in BOOLEAN
    /\ active \in BOOLEAN
    /\ abort \in 0 .. latest
    /\ latest \in 0 .. MaxRuns
    /\ opening \subseteq Docs
    /\ home \in {"own", "other", "mixed"}
    /\ active \/ running \/ opening # {} \/ queue # <<>> => doc # None
    /\ queue \in Seq(Transaction)
    /\ stored \in [open : Value \cup {None}, pages : [Pages -> Value \cup {None}]]

RunsInv ==
    /\ run \in [Runs -> RunType]
    /\ \A a \in Runs :
        /\ RunInv(run[a])
        /\ run[a].waits <= Len(queue)
        /\ run[a].pc = "idle" <=> a > latest
        /\ Active(a) => doc # None

IInv == StateInv /\ RunsInv

-----------------------------------------------------------------------------
(* What the helpers of extract() make of a run.                            *)

\* What the run keeps when it is given other pages to work on.
Keeps(s, r) ==
    /\ s.waits = r.waits
    /\ s.wanted = r.wanted
    /\ s.failed = r.failed
    /\ s.retried = r.retried
    /\ s.stopped = r.stopped
    /\ s.alone = r.alone

LEMMA FirstIsPart == ASSUME NEW n, NEW S PROVE First(n, S) \subseteq S
  BY DEF First

\* A part of a batch is given to a worker.
LEMMA BrowserBatchesParts ==
    ASSUME NEW r, Parts(r), Current \in Value
    PROVE  LET s == BrowserBatches(r)
           IN  /\ Parts(s)
               /\ Keeps(s, r)
               /\ s.pc = "browser"
               /\ s.source = Current
               /\ s.todo = r.todo
               /\ s.aborted = r.aborted
               /\ s.batch \cup s.sub = r.batch
<1> DEFINE sub == First(BrowserBatch, r.batch)
           s == [r EXCEPT !.batch = r.batch \ sub, !.pc = "browser", !.sub = sub,
                          !.source = Current]
<1>1. sub \subseteq r.batch
  BY FirstIsPart
<1>2. BrowserBatches(r) = s
  BY DEF BrowserBatches, Work, Parts, RunType
<1> HIDE DEF sub
<1>3. s \in RunType
  BY <1>1 DEF Parts, RunType
<1>4. /\ s.todo = r.todo
      /\ s.batch = r.batch \ sub
      /\ s.sub = sub
      /\ s.pc = "browser"
      /\ s.source = Current
      /\ s.aborted = r.aborted
      /\ Keeps(s, r)
  BY DEF Parts, RunType, Keeps
<1> HIDE DEF s
<1>5. Parts(s)
  BY <1>1, <1>3, <1>4 DEF Parts, Keeps
<1>6. s.batch \cup s.sub = r.batch
  BY <1>1, <1>4
<1> QED
  BY <1>2, <1>4, <1>5, <1>6

\* The next batch is taken from the pages that remain.
LEMMA NextBatchParts ==
    ASSUME NEW r, Parts(r), Current \in Value
    PROVE  LET s == NextBatch(r)
           IN  /\ Parts(s)
               /\ Keeps(s, r)
               /\ s.pc \in {"browser", "companion"}
               /\ s.source = Current
               /\ r.todo \subseteq s.todo \cup s.batch \cup s.sub
               /\ s.todo \subseteq r.todo
               /\ s.pc = "companion" => s.sub = r.sub
               /\ ~s.aborted
<1> DEFINE batch == First(r.size, r.todo)
           next == [r EXCEPT !.todo = r.todo \ batch, !.batch = batch,
                             !.aborted = FALSE]
           s == [next EXCEPT !.pc = "companion", !.source = Current]
<1>1. batch \subseteq r.todo
  BY FirstIsPart
<1>2. NextBatch(r) = IF r.engine = "browser" THEN BrowserBatches(next) ELSE s
  BY DEF NextBatch, Parts, RunType
<1> HIDE DEF batch
<1>3. next \in RunType /\ s \in RunType
  BY <1>1 DEF Parts, RunType
<1>4. /\ next.todo = r.todo \ batch
      /\ next.batch = batch
      /\ next.sub = r.sub
      /\ ~next.aborted
      /\ Keeps(next, r)
  BY DEF Parts, RunType, Keeps
<1>5. /\ s.todo = r.todo \ batch
      /\ s.batch = batch
      /\ s.sub = r.sub
      /\ s.pc = "companion"
      /\ s.source = Current
      /\ ~s.aborted
      /\ Keeps(s, r)
  BY DEF Parts, RunType, Keeps
<1> HIDE DEF next, s
<1>6. Parts(next)
  BY <1>1, <1>3, <1>4 DEF Parts, Keeps
<1>7. Parts(s)
  BY <1>1, <1>3, <1>5 DEF Parts, Keeps
<1>8. CASE r.engine = "browser"
  <2>1. NextBatch(r) = BrowserBatches(next)
    BY <1>2, <1>8
  <2> DEFINE t == BrowserBatches(next)
  <2>2. /\ Parts(t) /\ Keeps(t, next) /\ t.pc = "browser" /\ t.source = Current
        /\ t.todo = next.todo /\ t.batch \cup t.sub = next.batch
        /\ t.aborted = next.aborted
    BY <1>6, BrowserBatchesParts
  <2> HIDE DEF t
  <2> QED
    BY <1>4, <2>1, <2>2 DEF Keeps, t
<1>9. CASE r.engine # "browser"
  BY <1>2, <1>5, <1>7, <1>9
<1> QED
  BY <1>8, <1>9
-----------------------------------------------------------------------------
(* What an action leaves of the runs.                                      *)

\* A run ends: nothing of it is left.
Gone == [NoRun EXCEPT !.pc = "ended"]

LEMMA GoneIsSound == RunInv(Gone) /\ Gone.pc = "ended" /\ Gone.waits = 0
  BY DEF Gone, RunInv, Parts, RunType, NoRun, Over, Waiting

LEMMA LastWriteBound ==
    ASSUME NEW q \in Seq(Transaction)
    PROVE  LastWrite(q) \in 0 .. Len(q)
<1> DEFINE S == {n \in DOMAIN q : \E i \in n .. Len(q) : q[i].kind = "page"}
<1>1. Len(q) \in Nat /\ S \subseteq 1 .. Len(q)
  OBVIOUS
<1>2. IsFiniteSet(1 .. Len(q)) /\ Cardinality(1 .. Len(q)) = Len(q)
  BY <1>1, FS_Interval
<1>3. Cardinality(S) \in Nat /\ Cardinality(S) <= Len(q)
  BY <1>1, <1>2, FS_Subset, FS_CardinalityType
<1> QED
  BY <1>1, <1>3 DEF LastWrite

\* The runs are as they were, and the queue is not shorter.
LEMMA SameRuns ==
    ASSUME RunsInv, queue \in Seq(Transaction), queue' \in Seq(Transaction),
           run' = run, latest' = latest, Len(queue) <= Len(queue'),
           doc # None => doc' # None
    PROVE  RunsInv'
<1>1. Len(queue) \in Nat /\ Len(queue') \in Nat
  OBVIOUS
<1>2. \A a \in Runs : run[a].waits \in Nat
  BY DEF RunsInv, RunType
<1> QED
  BY <1>1, <1>2 DEF RunsInv, RunInv, Parts, Active

\* One run has become r.
LEMMA OneRun ==
    ASSUME IInv, NEW a \in Runs, NEW r, run' = [run EXCEPT ![a] = r],
           Active(a), RunInv(r), r.pc # "idle", queue' \in Seq(Transaction),
           r.waits <= Len(queue'), Len(queue) <= Len(queue'),
           latest' = latest, doc' = doc
    PROVE  RunsInv'
<1>1. Len(queue) \in Nat /\ Len(queue') \in Nat
  BY DEF IInv, StateInv
<1>2. \A b \in Runs : run[b].waits \in Nat /\ run'[b] = IF b = a THEN r ELSE run[b]
  BY DEF IInv, RunsInv, RunType
<1>3. r \in RunType
  BY DEF RunInv, Parts
<1>4. run' \in [Runs -> RunType]
  BY <1>3 DEF IInv, RunsInv
<1>5. doc # None /\ ~(a > latest)
  BY DEF IInv, RunsInv, Active
<1>6. ASSUME NEW b \in Runs
      PROVE  /\ RunInv(run'[b])
             /\ run'[b].waits <= Len(queue')
             /\ run'[b].pc = "idle" <=> b > latest'
             /\ Active(b)' => doc' # None
  <2>1. CASE b = a
    BY <1>2, <1>5, <2>1 DEF Active
  <2>2. CASE b # a
    <3>1. run'[b] = run[b]
      BY <1>2, <2>2
    <3>2. run[b].waits <= Len(queue) /\ RunInv(run[b])
          /\ (run[b].pc = "idle" <=> b > latest)
      BY DEF IInv, RunsInv
    <3> QED
      BY <1>1, <1>2, <1>5, <3>1, <3>2
  <2> QED
    BY <2>1, <2>2
<1> QED
  BY <1>4, <1>6 DEF RunsInv, RunInv, Parts

\* The ways in which one step of a run changes it.
LEMMA RunEnds ==
    ASSUME IInv, NEW a \in Runs, Active(a), End(a), UNCHANGED <<doc, latest, queue>>
    PROVE  RunsInv' /\ running' = FALSE
<1>1. run' = [run EXCEPT ![a] = Gone] /\ running' = FALSE
  BY DEF End, Gone
<1>2. queue \in Seq(Transaction) /\ Len(queue) \in Nat
  BY DEF IInv, StateInv
<1>3. /\ RunInv(Gone) /\ Gone.pc # "idle" /\ Gone.waits <= Len(queue')
      /\ queue' \in Seq(Transaction) /\ Len(queue) <= Len(queue')
      /\ latest' = latest /\ doc' = doc
  BY <1>2, GoneIsSound
<1> QED
  BY <1>1, <1>2, <1>3, OneRun

LEMMA RunGoesOn ==
    ASSUME IInv, NEW a \in Runs, Active(a), NEW pc \in Waiting, NEW w \in Nat,
           run' = [run EXCEPT ![a] = [@ EXCEPT !.pc = pc, !.waits = w]],
           queue' \in Seq(Transaction), w <= Len(queue'), Len(queue) <= Len(queue'),
           UNCHANGED <<doc, latest>>
    PROVE  RunsInv'
<1> DEFINE r == [run[a] EXCEPT !.pc = pc, !.waits = w]
<1>1. run' = [run EXCEPT ![a] = r]
  BY DEF IInv, RunsInv
<1>2. run[a] \in RunType /\ RunInv(run[a]) /\ run[a].pc \notin Over
  BY DEF IInv, RunsInv, Active, Over
<1>3. /\ r \in RunType
      /\ r.pc = pc /\ r.waits = w /\ r.source = run[a].source
      /\ r.todo = run[a].todo /\ r.batch = run[a].batch /\ r.sub = run[a].sub
      /\ r.failed = run[a].failed /\ r.retried = run[a].retried
      /\ r.wanted = run[a].wanted
  BY <1>2 DEF RunType
<1>4. pc \notin Over
  BY DEF Waiting, Over
<1> HIDE DEF r
<1>5. RunInv(r)
  BY <1>2, <1>3, <1>4 DEF RunInv, Parts
<1>6. r.pc # "idle"
  BY <1>3, <1>4 DEF Over
<1> QED
  BY <1>1, <1>3, <1>5, <1>6, OneRun

LEMMA CurrentIsValue ==
    ASSUME IInv, NEW a \in Runs, Active(a)
    PROVE  Current \in Value /\ doc # None /\ latest \in Nat /\ a \in 1 .. latest
<1>1. doc \in Docs /\ version \in 1 .. MaxVersion
  BY DEF IInv, StateInv, RunsInv
<1>2. a \in 1 .. MaxRuns /\ MaxRuns \in Nat /\ latest \in 0 .. MaxRuns
  BY SessionAssumption DEF IInv, StateInv, Runs
<1>3. run[a].pc # "idle" /\ (run[a].pc = "idle" <=> a > latest)
  BY DEF IInv, RunsInv, Active
<1>4. Current \in Value
  BY <1>1 DEF Current, Value
<1>5. doc # None
  BY DEF IInv, RunsInv
<1> QED
  BY <1>2, <1>3, <1>4, <1>5

\* A run is given other pages to work on.
LEMMA RunWorksOn ==
    ASSUME IInv, NEW a \in Runs, Active(a), NEW s,
           run' = [run EXCEPT ![a] = s], Parts(s), s.pc \in {"browser", "companion"},
           s.source = Current, s.waits = run[a].waits,
           UNCHANGED <<doc, latest, queue>>
    PROVE  RunsInv'
<1>1. Current \in Value
  BY CurrentIsValue
<1>2. RunInv(s) /\ s.pc # "idle"
  BY <1>1 DEF RunInv, Over
<1>3. queue \in Seq(Transaction) /\ Len(queue) \in Nat /\ run[a].waits <= Len(queue)
  BY DEF IInv, StateInv, RunsInv
<1>4. s.waits <= Len(queue') /\ Len(queue) <= Len(queue')
  BY <1>3
<1> QED
  BY <1>2, <1>3, <1>4, OneRun
\* The batch goes to the browser.
LEMMA RunFallsBack ==
    ASSUME IInv, NEW a \in Runs, Active(a), run' = [run EXCEPT ![a] = Fallback(run[a])],
           UNCHANGED <<doc, latest, queue>>
    PROVE  RunsInv'
<1> DEFINE r == run[a]
           t == [r EXCEPT !.engine = "browser"]
           s == BrowserBatches(t)
<1>1. r \in RunType /\ Parts(r)
  BY DEF IInv, RunsInv, RunInv
<1>2. /\ t \in RunType /\ t.waits = r.waits
      /\ t.todo = r.todo /\ t.batch = r.batch /\ t.sub = r.sub
      /\ t.failed = r.failed /\ t.retried = r.retried /\ t.wanted = r.wanted
  BY <1>1 DEF RunType
<1>3. run' = [run EXCEPT ![a] = s]
  BY DEF Fallback
<1> HIDE DEF t
<1>4. Parts(t)
  BY <1>1, <1>2 DEF Parts
<1>5. Parts(s) /\ Keeps(s, t) /\ s.pc = "browser" /\ s.source = Current
  BY <1>4, CurrentIsValue, BrowserBatchesParts
<1> HIDE DEF s
<1> QED
  BY <1>2, <1>3, <1>5, RunWorksOn DEF Keeps

\* A page of a run becomes a transaction.
LEMMA SavePageIsTransaction ==
    ASSUME NEW p \in Pages, NEW v \in Value
    PROVE  SavePage(p, v) \in Transaction
  BY DEF SavePage, Transaction

LEMMA StartWorkspaceQueued ==
    ASSUME IInv, NEW kind \in {"open", "cancel"}, NEW d \in Docs
    PROVE  LET q == StartWorkspace(kind, d)
           IN  q \in Seq(Transaction) /\ Len(q) = Len(queue) + 1
<1> DEFINE t == [kind |-> kind, value |-> [doc |-> d, version |-> version]]
<1>1. t \in Transaction /\ queue \in Seq(Transaction)
  BY DEF Transaction, Value, IInv, StateInv
<1>2. StartWorkspace(kind, d) = Append(queue, t)
  BY DEF StartWorkspace
<1> HIDE DEF t
<1> QED
  BY <1>1, <1>2

\* Only the controls change.
LEMMA StateKept ==
    ASSUME IInv, running' = FALSE \/ running' = running, abort' \in 0 .. latest,
           UNCHANGED <<session, pages, checkpointError, opening, latest, queue, stored>>
    PROVE  StateInv'
<1>1. /\ version' \in 1 .. MaxVersion
      /\ doc' \in Docs \cup {None}
      /\ pages' \in [Pages -> Value \cup {None}]
      /\ checkpointError' \in BOOLEAN
      /\ active' \in BOOLEAN
      /\ abort' \in 0 .. latest'
      /\ latest' \in 0 .. MaxRuns
      /\ opening' \subseteq Docs
      /\ home' \in {"own", "other", "mixed"}
      /\ queue' \in Seq(Transaction)
      /\ stored' \in [open : Value \cup {None}, pages : [Pages -> Value \cup {None}]]
  BY DEF IInv, StateInv, session
<1>2. running' \in BOOLEAN
  BY DEF IInv, StateInv
<1>3. running' => running
  OBVIOUS
<1>4. active' \/ running' \/ opening' # {} \/ queue' # <<>> => doc' # None
  BY <1>3 DEF IInv, StateInv, session
<1> QED
  BY <1>1, <1>2, <1>4 DEF StateInv

-----------------------------------------------------------------------------
(* The steps of a run.                                                     *)

LEMMA WorkerSteps ==
    ASSUME IInv, NEW a \in Runs,
           WorkerPage(a) \/ WorkerPageFails(a) \/ WorkerDone(a) \/ WorkerCrash(a)
    PROVE  IInv'
<1> DEFINE r == run[a]
<1>1. /\ r \in RunType /\ RunInv(r) /\ queue \in Seq(Transaction)
      /\ Len(queue) \in Nat /\ r.waits <= Len(queue)
  BY DEF IInv, RunsInv, StateInv
<1>2. r.pc = "browser" /\ Active(a) /\ r.source \in Value
  BY <1>1 DEF WorkerPage, WorkerPageFails, WorkerDone, WorkerCrash, Active, RunInv, Over
<1>3. Current \in Value /\ doc # None /\ latest \in Nat /\ a \in 1 .. latest
  BY <1>2, CurrentIsValue
<1>4. CASE WorkerPage(a)
  <2>1. PICK p \in First(1, r.sub) :
          /\ pages' = [pages EXCEPT ![p] = r.source]
          /\ queue' = Append(queue, SavePage(p, r.source))
          /\ run' = [run EXCEPT ![a].sub = @ \ {p}]
    BY <1>4 DEF WorkerPage
  <2>2. p \in r.sub /\ p \in Pages
    BY <1>1, FirstIsPart DEF RunType
  <2>3. queue' \in Seq(Transaction) /\ Len(queue') = Len(queue) + 1
    BY <1>1, <1>2, <2>1, <2>2, SavePageIsTransaction
  <2>4. StateInv'
    BY <1>2, <1>3, <1>4, <2>1, <2>2, <2>3 DEF IInv, StateInv, WorkerPage, session
  <2> DEFINE s == [r EXCEPT !.sub = r.sub \ {p}]
  <2>5. run' = [run EXCEPT ![a] = s]
    BY <2>1 DEF IInv, RunsInv
  <2>6. /\ s \in RunType /\ s.sub = r.sub \ {p} /\ s.pc = r.pc /\ s.waits = r.waits
        /\ s.todo = r.todo /\ s.batch = r.batch /\ s.failed = r.failed
        /\ s.retried = r.retried /\ s.wanted = r.wanted /\ s.source = r.source
    BY <1>1 DEF RunType
  <2> HIDE DEF s
  <2>7. RunInv(s) /\ s.pc # "idle"
    BY <1>1, <1>2, <2>6 DEF RunInv, Parts, Over
  <2>8. s.waits <= Len(queue') /\ Len(queue) <= Len(queue')
    BY <1>1, <2>3, <2>6 DEF RunType
  <2>9. latest' = latest /\ doc' = doc
    BY <1>4 DEF WorkerPage, session
  <2> QED
    BY <1>2, <2>3, <2>4, <2>5, <2>7, <2>8, <2>9, OneRun DEF IInv
<1>5. CASE WorkerPageFails(a)
  <2>1. PICK p \in First(1, r.sub) :
          run' = [run EXCEPT ![a].sub = @ \ {p}, ![a].failed = @ \cup {p}]
    BY <1>5 DEF WorkerPageFails
  <2>2. p \in r.sub /\ p \in Pages
    BY <1>1, FirstIsPart DEF RunType
  <2>3. StateInv'
    BY <1>5 DEF IInv, StateInv, WorkerPageFails, session
  <2> DEFINE s == [r EXCEPT !.sub = r.sub \ {p}, !.failed = r.failed \cup {p}]
  <2>4. run' = [run EXCEPT ![a] = s]
    BY <2>1 DEF IInv, RunsInv
  <2>5. /\ s \in RunType /\ s.sub = r.sub \ {p} /\ s.pc = r.pc /\ s.waits = r.waits
        /\ s.todo = r.todo /\ s.batch = r.batch /\ s.failed = r.failed \cup {p}
        /\ s.retried = r.retried /\ s.wanted = r.wanted /\ s.source = r.source
    BY <1>1, <2>2 DEF RunType
  <2> HIDE DEF s
  <2>6. RunInv(s) /\ s.pc # "idle"
    BY <1>1, <1>2, <2>2, <2>5 DEF RunInv, Parts, Over
  <2>7. queue' = queue /\ latest' = latest /\ doc' = doc
    BY <1>5 DEF WorkerPageFails, session
  <2>8. queue' \in Seq(Transaction) /\ s.waits <= Len(queue') /\ Len(queue) <= Len(queue')
    BY <1>1, <2>5, <2>7
  <2> QED
    BY <1>2, <2>3, <2>4, <2>6, <2>7, <2>8, OneRun DEF IInv
<1>6. CASE WorkerDone(a)
  <2> DEFINE retry == r.failed \ r.retried
  <2>1. UNCHANGED <<doc, latest, queue>> /\ abort' \in {a, 0}
    BY <1>6 DEF WorkerDone, session
  <2>2. StateInv'
    BY <1>3, <1>6, <2>1 DEF IInv, StateInv, WorkerDone, session
  <2>3. CASE r.batch # {}
    <3> DEFINE s == BrowserBatches(r)
    <3>1. run' = [run EXCEPT ![a] = s]
      BY <1>6, <2>3 DEF WorkerDone
    <3>2. Parts(r)
      BY <1>1 DEF RunInv
    <3>3. Parts(s) /\ Keeps(s, r) /\ s.pc = "browser" /\ s.source = Current
      BY <1>3, <3>2, BrowserBatchesParts
    <3> HIDE DEF s
    <3>4. RunsInv'
      BY <1>2, <2>1, <3>1, <3>3, RunWorksOn DEF Keeps
    <3> QED
      BY <2>2, <3>4 DEF IInv
  <2>4. CASE r.batch = {} /\ retry # {}
    <3> DEFINE s == [r EXCEPT !.retried = r.retried \cup retry, !.pc = "browser",
                              !.sub = retry, !.source = Current]
    <3>1. run' = [run EXCEPT ![a] = s]
      BY <1>1, <1>6, <2>4 DEF WorkerDone, Work, RunType
    <3>2. /\ s \in RunType /\ s.sub = retry /\ s.pc = "browser" /\ s.waits = r.waits
          /\ s.todo = r.todo /\ s.batch = r.batch /\ s.failed = r.failed
          /\ s.retried = r.retried \cup retry /\ s.wanted = r.wanted
          /\ s.source = Current
      BY <1>1, <1>3 DEF RunType
    <3> HIDE DEF s
    <3>3. Parts(s)
      BY <1>1, <2>4, <3>2 DEF RunInv, Parts
    <3>4. RunsInv'
      BY <1>2, <2>1, <3>1, <3>2, <3>3, RunWorksOn
    <3> QED
      BY <2>2, <3>4 DEF IInv
  <2>5. CASE r.batch = {} /\ retry = {}
    <3>1. run' = [run EXCEPT ![a] = [@ EXCEPT !.pc = "settling",
                                              !.waits = LastWrite(queue)]]
      BY <1>1, <1>6, <2>5 DEF WorkerDone, Await, IInv, RunsInv
    <3>2. LastWrite(queue) \in Nat /\ LastWrite(queue) <= Len(queue')
      BY <1>1, <2>1, LastWriteBound
    <3>3. queue' \in Seq(Transaction) /\ Len(queue) <= Len(queue')
      BY <1>1, <2>1
    <3>4. RunsInv'
      BY <1>2, <2>1, <3>1, <3>2, <3>3, RunGoesOn DEF Waiting
    <3> QED
      BY <2>2, <3>4 DEF IInv
  <2> QED
    BY <2>3, <2>4, <2>5
<1>7. CASE WorkerCrash(a)
  <2>1. End(a) /\ UNCHANGED <<doc, latest, queue>>
    BY <1>7 DEF WorkerCrash, session
  <2>2. RunsInv' /\ running' = FALSE
    BY <1>2, <2>1, RunEnds
  <2>3. abort' = 0 /\ UNCHANGED <<session, pages, checkpointError, opening, latest,
                                 queue, stored>>
    BY <1>7 DEF WorkerCrash
  <2>4. abort' \in 0 .. latest
    BY <1>3, <2>3
  <2>5. StateInv'
    BY <2>2, <2>3, <2>4, StateKept
  <2> QED
    BY <2>2, <2>5 DEF IInv
<1> QED
  BY <1>4, <1>5, <1>6, <1>7
\* The pages of a result are queued in order.
LEMMA ResultQueued ==
    ASSUME queue \in Seq(Transaction), NEW S \in SUBSET Pages, NEW v \in Value,
           NEW s \in Ordered(S)
    PROVE  LET q == queue \o [i \in DOMAIN s |-> SavePage(s[i], v)]
           IN  q \in Seq(Transaction) /\ Len(q) >= Len(queue)
<1>1. Cardinality(S) \in Nat
  BY SessionAssumption, FS_Subset, FS_CardinalityType
<1>2. s \in [1 .. Cardinality(S) -> S] /\ DOMAIN s = 1 .. Cardinality(S)
  BY DEF Ordered
<1> DEFINE entries == [i \in DOMAIN s |-> SavePage(s[i], v)]
<1>3. \A i \in DOMAIN s : SavePage(s[i], v) \in Transaction
  BY <1>2, SavePageIsTransaction
<1>4. entries \in Seq(Transaction)
  BY <1>1, <1>2, <1>3
<1> HIDE DEF entries
<1>5. queue \o entries \in Seq(Transaction) /\ Len(queue \o entries) >= Len(queue)
  BY <1>4
<1> QED
  BY <1>5 DEF entries

LEMMA CompanionSteps ==
    ASSUME IInv, NEW a \in Runs,
           CompanionAnswers(a) \/ CompanionFails(a) \/ CompanionStops(a)
    PROVE  IInv'
<1> DEFINE r == run[a]
<1>1. /\ r \in RunType /\ RunInv(r) /\ queue \in Seq(Transaction)
      /\ Len(queue) \in Nat /\ r.waits <= Len(queue)
  BY DEF IInv, RunsInv, StateInv
<1>2. r.pc = "companion" /\ Active(a) /\ r.source \in Value
  BY <1>1 DEF CompanionAnswers, CompanionFails, CompanionStops, Active, RunInv, Over
<1>3. Current \in Value /\ doc # None /\ latest \in Nat /\ a \in 1 .. latest
  BY <1>2, CurrentIsValue
<1>4. CASE CompanionAnswers(a)
  <2>1. PICK s \in Ordered(r.batch) :
          queue' = queue \o [i \in DOMAIN s |-> SavePage(s[i], r.source)]
    BY <1>4 DEF CompanionAnswers, TakeResult
  <2>2. r.batch \in SUBSET Pages
    BY <1>1 DEF RunType
  <2>3. queue' \in Seq(Transaction) /\ Len(queue) <= Len(queue')
    BY <1>1, <1>2, <2>1, <2>2, ResultQueued
  <2>4. /\ pages' = [p \in Pages |-> IF p \in r.batch THEN r.source ELSE pages[p]]
        /\ Await(a, "confirming", queue')
        /\ UNCHANGED <<session, running, abort, checkpointError, opening, latest, stored>>
    BY <1>4 DEF CompanionAnswers, TakeResult
  <2>5. StateInv'
    BY <1>2, <1>3, <2>3, <2>4 DEF IInv, StateInv, session
  <2>6. run' = [run EXCEPT ![a] = [@ EXCEPT !.pc = "confirming",
                                            !.waits = LastWrite(queue')]]
    BY <1>1, <2>4 DEF Await, IInv, RunsInv
  <2>7. LastWrite(queue') \in 0 .. Len(queue') /\ Len(queue') \in Nat
    BY <2>3, LastWriteBound
  <2>8. /\ LastWrite(queue') \in Nat /\ LastWrite(queue') <= Len(queue')
        /\ "confirming" \in Waiting
        /\ UNCHANGED <<doc, latest>>
    BY <2>4, <2>7 DEF Waiting, session
  <2>9. RunsInv'
    BY <1>2, <2>3, <2>6, <2>8, RunGoesOn
  <2> QED
    BY <2>5, <2>9 DEF IInv
<1>5. CASE CompanionFails(a)
  <2>1. run' = [run EXCEPT ![a] = Fallback(r)] /\ UNCHANGED <<doc, latest, queue>>
    BY <1>5 DEF CompanionFails, session, IInv, RunsInv
  <2>2. RunsInv'
    BY <1>2, <2>1, RunFallsBack
  <2>3. StateInv'
    BY <1>3, <1>5 DEF IInv, StateInv, CompanionFails, session
  <2> QED
    BY <2>2, <2>3 DEF IInv
<1>6. CASE CompanionStops(a)
  <2>1. End(a) /\ UNCHANGED <<doc, latest, queue>>
    BY <1>6 DEF CompanionStops, session
  <2>2. RunsInv' /\ running' = FALSE
    BY <1>2, <2>1, RunEnds
  <2>3. abort' = 0 /\ UNCHANGED <<session, pages, checkpointError, opening, latest,
                                 queue, stored>>
    BY <1>6 DEF CompanionStops
  <2>4. abort' \in 0 .. latest
    BY <1>3, <2>3
  <2>5. StateInv'
    BY <2>2, <2>3, <2>4, StateKept
  <2> QED
    BY <2>2, <2>5 DEF IInv
<1> QED
  BY <1>4, <1>5, <1>6

LEMMA ConfirmSteps ==
    ASSUME IInv, NEW a \in Runs, Confirm(a) \/ ConfirmFails(a) \/ Acknowledged(a)
    PROVE  IInv'
<1> DEFINE r == run[a]
<1>1. /\ r \in RunType /\ RunInv(r) /\ queue \in Seq(Transaction)
      /\ Len(queue) \in Nat /\ r.waits \in Nat /\ r.waits <= Len(queue)
  BY DEF IInv, RunsInv, StateInv, RunType
<1>2. Active(a)
  BY DEF Confirm, ConfirmFails, Acknowledged, Active
<1>3. Current \in Value /\ doc # None /\ latest \in Nat /\ a \in 1 .. latest
  BY <1>2, CurrentIsValue
<1>4. /\ UNCHANGED <<doc, latest, queue>>
      /\ queue' \in Seq(Transaction) /\ Len(queue) <= Len(queue')
  BY <1>1 DEF Confirm, ConfirmFails, Acknowledged, session
<1>5. CASE Confirm(a)
  <2>1. run' = [run EXCEPT ![a] = [@ EXCEPT !.pc = "acknowledging", !.waits = r.waits]]
    BY <1>1, <1>5 DEF Confirm, Goto, IInv, RunsInv, RunType
  <2>2. r.waits <= Len(queue') /\ "acknowledging" \in Waiting
    BY <1>1, <1>4 DEF Waiting
  <2>3. RunsInv'
    BY <1>1, <1>2, <1>4, <2>1, <2>2, RunGoesOn
  <2>4. StateInv'
    BY <1>5 DEF IInv, StateInv, Confirm, session
  <2> QED
    BY <2>3, <2>4 DEF IInv
<1>6. CASE ConfirmFails(a)
  <2>1. UNCHANGED <<session, pages, checkpointError, opening, latest, queue, stored>>
    BY <1>6 DEF ConfirmFails
  <2>2. CASE r.aborted
    <3>1. End(a) /\ abort' = 0
      BY <1>6, <2>2 DEF ConfirmFails
    <3>2. RunsInv' /\ running' = FALSE
      BY <1>2, <1>4, <3>1, RunEnds
    <3>3. abort' \in 0 .. latest
      BY <1>3, <3>1
    <3>4. StateInv'
      BY <2>1, <3>2, <3>3, StateKept
    <3> QED
      BY <3>2, <3>4 DEF IInv
  <2>3. CASE ~r.aborted
    <3>1. run' = [run EXCEPT ![a] = Fallback(r)] /\ abort' = a /\ running' = running
      BY <1>6, <2>3 DEF ConfirmFails, IInv, RunsInv
    <3>2. RunsInv'
      BY <1>2, <1>4, <3>1, RunFallsBack
    <3>3. StateInv'
      BY <1>3, <2>1, <3>1 DEF IInv, StateInv, session
    <3> QED
      BY <3>2, <3>3 DEF IInv
  <2> QED
    BY <2>2, <2>3
<1>7. CASE Acknowledged(a)
  <2>1. run' = [run EXCEPT ![a] = [@ EXCEPT !.pc = "settling",
                                            !.waits = LastWrite(queue)]]
    BY <1>1, <1>7 DEF Acknowledged, Await, IInv, RunsInv
  <2>2. /\ LastWrite(queue) \in Nat /\ LastWrite(queue) <= Len(queue')
        /\ "settling" \in Waiting
    BY <1>1, <1>4, LastWriteBound DEF Waiting
  <2>3. RunsInv'
    BY <1>2, <1>4, <2>1, <2>2, RunGoesOn
  <2>4. StateInv'
    BY <1>7 DEF IInv, StateInv, Acknowledged, session
  <2> QED
    BY <2>3, <2>4 DEF IInv
<1> QED
  BY <1>5, <1>6, <1>7

LEMMA EndingSteps ==
    ASSUME IInv, NEW a \in Runs, Settle(a) \/ Persisted(a) \/ Finish(a)
    PROVE  IInv'
<1> DEFINE r == run[a]
<1>1. /\ r \in RunType /\ RunInv(r) /\ queue \in Seq(Transaction)
      /\ Len(queue) \in Nat /\ r.waits \in Nat /\ r.waits <= Len(queue)
  BY DEF IInv, RunsInv, StateInv, RunType
<1>2. Active(a)
  BY DEF Settle, Persisted, Finish, Active
<1>3. Current \in Value /\ doc # None /\ latest \in Nat /\ a \in 1 .. latest
  BY <1>2, CurrentIsValue
<1>4. UNCHANGED <<session, pages, checkpointError, opening, latest, queue, stored>>
  BY DEF Settle, Persisted, Finish
<1>5. UNCHANGED <<doc, latest, queue>>
  BY <1>4 DEF session
<1>6. \/ End(a) /\ abort' = abort
      \/ (Goto(a, "persisting") \/ Goto(a, "finishing"))
         /\ running' = running /\ abort' = abort
      \/ run' = [run EXCEPT ![a] = NextBatch(r)] /\ running' = running /\ abort' = a
  BY DEF Settle, Persisted, Finish, IInv, RunsInv
<1>7. StateInv'
  <2>1. running' = FALSE \/ running' = running
    BY <1>6 DEF End
  <2>2. abort' \in 0 .. latest
    BY <1>3, <1>6 DEF IInv, StateInv
  <2> QED
    BY <1>4, <2>1, <2>2, StateKept
<1>8. CASE End(a)
  BY <1>2, <1>5, <1>7, <1>8, RunEnds DEF IInv
<1>9. CASE Goto(a, "persisting") \/ Goto(a, "finishing")
  <2>1. PICK pc \in {"persisting", "finishing"} : run' = [run EXCEPT ![a].pc = pc]
    BY <1>9 DEF Goto
  <2>2. run' = [run EXCEPT ![a] = [@ EXCEPT !.pc = pc, !.waits = r.waits]]
    BY <1>1, <2>1 DEF IInv, RunsInv, RunType
  <2>3. /\ pc \in Waiting /\ queue' \in Seq(Transaction) /\ Len(queue) <= Len(queue')
        /\ r.waits <= Len(queue') /\ UNCHANGED <<doc, latest>>
    BY <1>1, <1>5 DEF Waiting
  <2>4. RunsInv'
    BY <1>1, <1>2, <2>2, <2>3, RunGoesOn
  <2> QED
    BY <1>7, <2>4 DEF IInv
<1>10. CASE run' = [run EXCEPT ![a] = NextBatch(r)]
  <2> DEFINE s == NextBatch(r)
  <2>1. Parts(r)
    BY <1>1 DEF RunInv
  <2>2. Parts(s) /\ Keeps(s, r) /\ s.pc \in {"browser", "companion"} /\ s.source = Current
    BY <1>3, <2>1, NextBatchParts
  <2>3. run' = [run EXCEPT ![a] = s]
    BY <1>10
  <2> HIDE DEF s
  <2>4. RunsInv'
    BY <1>2, <1>5, <2>2, <2>3, RunWorksOn DEF Keeps
  <2> QED
    BY <1>7, <2>4 DEF IInv
<1> QED
  BY <1>6, <1>8, <1>9, <1>10
-----------------------------------------------------------------------------
(* The steps of the database and of the user.                              *)

LEMMA DatabaseSteps ==
    ASSUME IInv, Commit \/ CommitFails
    PROVE  IInv'
<1> DEFINE f(a) == [run[a] EXCEPT !.waits = IF @ = 0 THEN 0 ELSE @ - 1]
<1>1. /\ queue # <<>> /\ queue' = Tail(queue)
      /\ run' = [a \in Runs |-> f(a)]
      /\ UNCHANGED <<version, doc, home, pages, running, abort, opening, latest>>
  BY DEF Commit, CommitFails, Dequeue, session
<1>2. /\ queue \in Seq(Transaction) /\ queue' \in Seq(Transaction)
      /\ Len(queue) \in Nat /\ Len(queue') = Len(queue) - 1
      /\ Head(queue) \in Transaction
  BY <1>1 DEF IInv, StateInv
<1>3. stored' \in [open : Value \cup {None}, pages : [Pages -> Value \cup {None}]]
  <2>1. stored \in [open : Value \cup {None}, pages : [Pages -> Value \cup {None}]]
    BY DEF IInv, StateInv
  <2>2. CASE stored' = stored
    BY <2>1, <2>2
  <2>3. CASE Commit /\ Head(queue).kind = "page"
    <3>1. Head(queue).page \in Pages /\ Head(queue).value \in Value
      BY <1>2, <2>3 DEF Transaction
    <3>2. stored' = [stored EXCEPT !.pages[Head(queue).page] = Head(queue).value]
      BY <2>3 DEF Commit
    <3> QED
      BY <2>1, <3>1, <3>2
  <2>4. CASE Commit /\ Head(queue).kind # "page"
    <3>1. Head(queue).value \in Value
      BY <1>2 DEF Transaction
    <3>2. stored' = [open |-> Head(queue).value, pages |-> NoPages]
      BY <2>4 DEF Commit
    <3> QED
      BY <3>1, <3>2 DEF NoPages
  <2> QED
    BY <2>2, <2>3, <2>4 DEF Commit, CommitFails
<1>4. checkpointError' \in BOOLEAN /\ active' \in BOOLEAN /\ doc # None
  BY <1>1 DEF Commit, CommitFails, IInv, StateInv, session
<1>5. StateInv'
  BY <1>1, <1>2, <1>3, <1>4 DEF IInv, StateInv
<1>6. ASSUME NEW a \in Runs
      PROVE  /\ f(a) \in RunType /\ RunInv(f(a)) /\ f(a).pc = run[a].pc
             /\ f(a).waits <= Len(queue')
  <2> DEFINE r == run[a]
             s == f(a)
  <2>1. r \in RunType /\ RunInv(r) /\ r.waits \in Nat /\ r.waits <= Len(queue)
    BY DEF IInv, RunsInv, RunType
  <2>2. /\ s.waits = IF r.waits = 0 THEN 0 ELSE r.waits - 1
        /\ s.pc = r.pc /\ s.todo = r.todo /\ s.batch = r.batch /\ s.sub = r.sub
        /\ s.failed = r.failed /\ s.retried = r.retried /\ s.wanted = r.wanted
        /\ s.source = r.source
        /\ r.waits = 0 => s = r
    BY <2>1 DEF RunType
  <2>3. s.waits \in Nat /\ s.waits <= Len(queue')
    BY <1>1, <1>2, <2>1, <2>2
  <2>4. s \in RunType
    BY <2>1, <2>2, <2>3 DEF RunType
  <2>5. Parts(s)
    BY <2>1, <2>2, <2>4 DEF RunInv, Parts
  <2>6. r.pc \in Over => r.waits = 0
    BY <2>1 DEF RunInv, NoRun
  <2> HIDE DEF s
  <2>7. RunInv(s)
    BY <2>1, <2>2, <2>5, <2>6 DEF RunInv
  <2> QED
    BY <2>2, <2>3, <2>4, <2>7 DEF s
<1>7. RunsInv'
  <2> HIDE DEF f
  <2>1. \A a \in Runs : run'[a] = f(a)
    BY <1>1
  <2>2. run' \in [Runs -> RunType]
    BY <1>1, <1>6
  <2>3. doc' = doc /\ latest' = latest
    BY <1>1
  <2>4. ASSUME NEW a \in Runs
        PROVE  /\ RunInv(run'[a]) /\ run'[a].waits <= Len(queue')
               /\ run'[a].pc = "idle" <=> a > latest'
               /\ Active(a)' => doc' # None
    <3>1. (run[a].pc = "idle" <=> a > latest) /\ (Active(a) => doc # None)
      BY DEF IInv, RunsInv
    <3> QED
      BY <1>6, <2>1, <2>3, <3>1 DEF Active
  <2> QED
    BY <2>2, <2>4 DEF RunsInv, RunInv, Parts
<1> QED
  BY <1>5, <1>7 DEF IInv

LEMMA OpeningSteps ==
    ASSUME IInv,
           \/ \E d \in Docs : OpenFile(d) \/ OpenPrepared(d) \/ OpenFails(d)
           \/ Restore
    PROVE  IInv'
<1>1. /\ run' = run /\ latest' = latest /\ abort' = abort
      /\ running' = running /\ checkpointError' = checkpointError
      /\ version' = version /\ stored' = stored
      /\ home' \in {"own", "other", "mixed"}
  BY DEF OpenFile, OpenPrepared, OpenFails, Restore, session, IInv, StateInv
<1>2. queue \in Seq(Transaction) /\ None \notin Docs \cup Value
  BY SessionAssumption DEF IInv, StateInv
<1>3. CASE \E d \in Docs : OpenFile(d)
  <2>1. /\ queue' = queue /\ doc' \in Docs /\ pages' = NoPages
        /\ opening' \in SUBSET (opening \cup Docs) /\ active' = active
    BY <1>3 DEF OpenFile
  <2>2. StateInv'
    BY <1>1, <1>2, <2>1 DEF IInv, StateInv, NoPages
  <2>3. doc' # None /\ queue' \in Seq(Transaction) /\ Len(queue) <= Len(queue')
    BY <1>2, <2>1
  <2>4. RunsInv'
    BY <1>1, <1>2, <2>3, SameRuns DEF IInv
  <2> QED
    BY <2>2, <2>4 DEF IInv
<1>4. CASE \E d \in Docs : OpenPrepared(d)
  <2>1. PICK d \in Docs : OpenPrepared(d)
    BY <1>4
  <2>2. /\ queue' = StartWorkspace("open", d) /\ doc' = doc /\ pages' = pages
        /\ opening' \subseteq opening /\ active' = active /\ doc # None
    BY <2>1 DEF OpenPrepared, session, IInv, StateInv
  <2>3. queue' \in Seq(Transaction) /\ Len(queue) <= Len(queue')
    BY <1>2, <2>2, StartWorkspaceQueued
  <2>4. StateInv'
    BY <1>1, <2>2, <2>3 DEF IInv, StateInv
  <2>5. RunsInv'
    BY <1>1, <1>2, <2>2, <2>3, SameRuns DEF IInv
  <2> QED
    BY <2>4, <2>5 DEF IInv
<1>5. CASE \E d \in Docs : OpenFails(d)
  <2>1. /\ queue' = queue /\ doc' = doc /\ pages' = pages /\ active' = active
        /\ opening' \subseteq opening
    BY <1>5 DEF OpenFails, session
  <2>2. StateInv'
    BY <1>1, <2>1 DEF IInv, StateInv
  <2>3. RunsInv'
    BY <1>1, <1>2, <2>1, SameRuns DEF IInv
  <2> QED
    BY <2>2, <2>3 DEF IInv
<1>6. CASE Restore
  <2>1. /\ queue' = queue /\ doc' = stored.open.doc /\ stored.open # None
        /\ pages' = IF stored.open.version = version THEN stored.pages ELSE NoPages
        /\ opening' = opening /\ active' = TRUE
    BY <1>6 DEF Restore
  <2>2. stored.open \in Value /\ stored.pages \in [Pages -> Value \cup {None}]
    BY <2>1 DEF IInv, StateInv
  <2>3. doc' \in Docs /\ pages' \in [Pages -> Value \cup {None}]
    BY <2>1, <2>2 DEF Value, NoPages
  <2>4. StateInv'
    BY <1>1, <1>2, <2>1, <2>3 DEF IInv, StateInv
  <2>5. doc' # None /\ queue' \in Seq(Transaction) /\ Len(queue) <= Len(queue')
    BY <1>2, <2>1, <2>3
  <2>6. RunsInv'
    BY <1>1, <1>2, <2>5, SameRuns DEF IInv
  <2> QED
    BY <2>4, <2>6 DEF IInv
<1> QED
  BY <1>3, <1>4, <1>5, <1>6

\* Another run works beside it.
Beside(r) == [r EXCEPT !.alone = FALSE]

LEMMA BesideIsSound ==
    ASSUME NEW r, RunInv(r), r.pc \notin Over
    PROVE  /\ RunInv(Beside(r)) /\ Beside(r) \in RunType
           /\ Beside(r).waits = r.waits /\ Beside(r).pc = r.pc
<1> DEFINE s == Beside(r)
<1>1. /\ s \in RunType /\ s.pc = r.pc /\ s.waits = r.waits
      /\ s.todo = r.todo /\ s.batch = r.batch /\ s.sub = r.sub
      /\ s.failed = r.failed /\ s.retried = r.retried /\ s.wanted = r.wanted
      /\ s.source = r.source
  BY DEF Beside, RunInv, Parts, RunType
<1> HIDE DEF s
<1>2. RunInv(s)
  BY <1>1 DEF RunInv, Parts
<1> QED
  BY <1>1, <1>2 DEF s

\* The run that is started.
NewRun(W, engine) ==
    LET remaining == {p \in W : pages[p] = None}
        size == IF engine = "companion" THEN CompanionBatch ELSE BrowserBatch
    IN  NextBatch([NoRun EXCEPT !.engine = engine, !.size = size,
                     !.wanted = remaining, !.todo = remaining, !.alone = ~Working])

\* What the run that is started has in hand.
LEMMA NewRunParts ==
    ASSUME NEW W \in Selections, NEW engine \in {"browser", "companion"},
           Current \in Value
    PROVE  LET s == NewRun(W, engine)
           IN  /\ Parts(s) /\ s.pc \in {"browser", "companion"} /\ s.source = Current
               /\ s.waits = 0 /\ ~s.stopped /\ (s.alone => ~Working)
               /\ s.failed = {} /\ s.retried = {}
               /\ s.pc = "companion" => s.sub = {}
               /\ s.wanted = {p \in W : pages[p] = None}
               /\ s.wanted \subseteq s.todo \cup s.batch \cup s.sub
<1> DEFINE remaining == {p \in W : pages[p] = None}
           size == IF engine = "companion" THEN CompanionBatch ELSE BrowserBatch
           r == [NoRun EXCEPT !.engine = engine, !.size = size,
                              !.wanted = remaining, !.todo = remaining,
                              !.alone = ~Working]
           s == NextBatch(r)
<1>1. NewRun(W, engine) = s
  BY DEF NewRun
<1>2. remaining \subseteq Pages /\ size \in Nat
  BY SessionAssumption
<1> HIDE DEF remaining, size
<1>3. r \in RunType
  BY <1>2 DEF NoRun, RunType, Over, Working
<1>4. /\ r.todo = remaining /\ r.wanted = remaining /\ r.batch = {} /\ r.sub = {}
      /\ r.failed = {} /\ r.retried = {} /\ r.waits = 0 /\ r.stopped = FALSE
      /\ r.alone = ~Working
  BY DEF NoRun
<1> HIDE DEF r
<1>5. Parts(r)
  BY <1>3, <1>4 DEF Parts
<1>6. /\ Parts(s) /\ Keeps(s, r) /\ s.pc \in {"browser", "companion"}
      /\ s.source = Current /\ r.todo \subseteq s.todo \cup s.batch \cup s.sub
      /\ s.pc = "companion" => s.sub = r.sub
  BY <1>5, NextBatchParts
<1> HIDE DEF s
<1>7. /\ s.waits = 0 /\ ~s.stopped /\ (s.alone => ~Working)
      /\ s.pc = "companion" => s.sub = {}
      /\ s.failed = {} /\ s.retried = {} /\ s.wanted = remaining
      /\ s.wanted \subseteq s.todo \cup s.batch \cup s.sub
  BY <1>4, <1>6 DEF Keeps
<1> QED
  BY <1>1, <1>6, <1>7 DEF remaining

LEMMA StartMakes ==
    ASSUME IInv, NEW W \in Selections, NEW engine \in {"browser", "companion"},
           Start(W, engine)
    PROVE  LET b == latest + 1
           IN  /\ b \in Runs /\ b > 0 /\ b \in 1 .. MaxRuns
               /\ active /\ doc # None /\ Current \in Value /\ ~running
               /\ latest' = b /\ abort' = b /\ running' = TRUE /\ checkpointError' = FALSE
               /\ run' = [a \in Runs |-> run'[a]]
               /\ run'[b] = NewRun(W, engine)
               /\ \A a \in Runs : a # b =>
                    run'[a] = IF Active(a) THEN Beside(run[a]) ELSE run[a]
               /\ ~Active(b)
<1>1. active /\ latest < MaxRuns /\ MaxRuns \in Nat /\ latest \in 0 .. MaxRuns
  BY SessionAssumption DEF Start, IInv, StateInv
<1>2. latest + 1 \in Runs /\ latest + 1 \in 1 .. MaxRuns /\ latest + 1 > latest
  BY <1>1 DEF Runs
<1>3. ~Active(latest + 1)
  BY <1>2 DEF IInv, RunsInv, Active
<1>4. doc # None /\ Current \in Value
  BY <1>1 DEF IInv, StateInv, Current, Value
<1>5. run' = [a \in Runs |->
               IF a = latest + 1 THEN NewRun(W, engine)
               ELSE IF Active(a) THEN Beside(run[a]) ELSE run[a]]
  BY DEF Start, Beside, NewRun
<1>6. /\ run' = [a \in Runs |-> run'[a]]
      /\ run'[latest + 1] = NewRun(W, engine)
      /\ \A a \in Runs : a # latest + 1 =>
            run'[a] = IF Active(a) THEN Beside(run[a]) ELSE run[a]
  BY <1>2, <1>5
<1>7. /\ latest' = latest + 1 /\ abort' = latest + 1 /\ running' = TRUE
      /\ checkpointError' = FALSE /\ ~running
  BY DEF Start
<1>8. latest + 1 > 0
  BY <1>1
<1> QED
  BY <1>1, <1>2, <1>3, <1>4, <1>6, <1>7, <1>8

LEMMA StartStep ==
    ASSUME IInv, NEW W \in Selections, NEW engine \in {"browser", "companion"},
           Start(W, engine)
    PROVE  IInv'
<1> DEFINE s == NewRun(W, engine)
           b == latest + 1
<1>1. /\ b \in 1 .. MaxRuns /\ doc # None /\ Current \in Value
      /\ latest' = b /\ abort' = b /\ running' = TRUE /\ checkpointError' = FALSE
      /\ run' = [a \in Runs |-> run'[a]] /\ run'[b] = s
      /\ \A a \in Runs : a # b =>
           run'[a] = IF Active(a) THEN Beside(run[a]) ELSE run[a]
  BY StartMakes
<1>2. /\ home' \in {"own", "mixed"}
      /\ UNCHANGED <<version, doc, active, pages, opening, queue, stored>>
  BY DEF Start
<1>3. /\ Parts(s) /\ s.pc \in {"browser", "companion"} /\ s.source = Current
      /\ s.waits = 0
  <2>1. Current \in Value
    BY <1>1
  <2> QED
    BY <2>1, NewRunParts
<1> HIDE DEF s
<1>4. RunInv(s) /\ s.pc # "idle" /\ s \in RunType
  BY <1>1, <1>3 DEF RunInv, Over, Parts
<1>5. MaxRuns \in Nat /\ latest \in 0 .. MaxRuns
  BY SessionAssumption DEF IInv, StateInv
<1>6. StateInv'
  <2>1. abort' \in 0 .. latest' /\ latest' \in 0 .. MaxRuns
    BY <1>1, <1>5
  <2>2. running' \in BOOLEAN /\ checkpointError' \in BOOLEAN /\ doc' # None
    BY <1>1, <1>2
  <2> QED
    BY <1>2, <2>1, <2>2 DEF IInv, StateInv
<1>7. RunsInv'
  <2>1. ASSUME NEW a \in Runs
        PROVE  /\ RunInv(run'[a]) /\ run'[a].waits <= Len(queue')
               /\ run'[a].pc = "idle" <=> a > latest'
               /\ Active(a)' => doc' # None
               /\ run'[a] \in RunType
    <3>1. /\ RunInv(run[a]) /\ run[a].waits <= Len(queue) /\ run[a] \in RunType
          /\ run[a].pc = "idle" <=> a > latest
      BY DEF IInv, RunsInv
    <3>2. queue' = queue /\ Len(queue) \in Nat /\ doc' # None
      BY <1>1, <1>2 DEF IInv, StateInv
    <3>3. a \in Nat
      BY <1>5 DEF Runs
    <3>4. CASE a = b
      BY <1>1, <1>3, <1>4, <1>5, <3>2, <3>3, <3>4
    <3>5. CASE a # b
      <4>1. Active(a) => RunInv(Beside(run[a])) /\ Beside(run[a]) \in RunType
                         /\ Beside(run[a]).waits = run[a].waits
                         /\ Beside(run[a]).pc = run[a].pc
        BY <3>1, BesideIsSound DEF Active, Over
      <4>2. /\ RunInv(run'[a]) /\ run'[a] \in RunType
            /\ run'[a].waits = run[a].waits /\ run'[a].pc = run[a].pc
        BY <1>1, <3>1, <3>5, <4>1
      <4> QED
        BY <1>1, <1>5, <3>1, <3>2, <3>3, <3>5, <4>2
    <3> QED
      BY <3>4, <3>5
  <2>2. run' \in [Runs -> RunType]
    BY <1>1, <2>1
  <2> QED
    BY <2>1, <2>2 DEF RunsInv
<1> QED
  BY <1>6, <1>7 DEF IInv

FunctionOfRuns(g) == g = [a \in Runs |-> g[a]]
Marked(r, s) == \E c \in BOOLEAN : s = [r EXCEPT !.stopped = TRUE, !.aborted = c]

\* A step that leaves each run alone, ends it or marks it as stopped.
LEMMA RunsStop ==
    ASSUME IInv, FunctionOfRuns(run'),
           \A a \in Runs :
              \/ ~Active(a) /\ run'[a] = run[a]
              \/ Active(a) /\ run'[a] = Gone
              \/ Active(a) /\ doc' # None /\ Marked(run[a], run'[a]),
           latest' = latest, queue' \in Seq(Transaction),
           Len(queue) <= Len(queue') \/ \A a \in Runs : Active(a) => run'[a] = Gone
    PROVE  RunsInv'
<1>1. Len(queue) \in Nat /\ Len(queue') \in Nat
  BY DEF IInv, StateInv
<1>2. ASSUME NEW a \in Runs
      PROVE  /\ RunInv(run'[a]) /\ run'[a].waits <= Len(queue')
             /\ run'[a].pc = "idle" <=> a > latest'
             /\ run'[a].pc \notin Over => doc' # None
  <2> DEFINE r == run[a]
  <2>1. /\ r \in RunType /\ RunInv(r) /\ r.waits \in Nat /\ r.waits <= Len(queue)
        /\ r.pc = "idle" <=> a > latest
    BY DEF IInv, RunsInv, RunType
  <2>2. CASE ~Active(a) /\ run'[a] = r
    <3>1. r.pc \in Over
      BY <2>2 DEF Active, Over
    <3>2. r.waits = 0
      BY <2>1, <3>1 DEF RunInv, NoRun
    <3> QED
      BY <1>1, <2>1, <2>2, <3>1, <3>2
  <2>3. CASE Active(a) /\ run'[a] = Gone
    <3>1. r.pc # "idle"
      BY <2>3 DEF Active
    <3> QED
      BY <1>1, <2>1, <2>3, <3>1, GoneIsSound DEF Over
  <2>4. CASE Active(a) /\ doc' # None /\ run'[a] # Gone /\ Marked(r, run'[a])
    <3>1. PICK c \in BOOLEAN : run'[a] = [r EXCEPT !.stopped = TRUE, !.aborted = c]
      BY <2>4 DEF Marked
    <3> DEFINE s == run'[a]
    <3>2. /\ s \in RunType /\ s.pc = r.pc /\ s.waits = r.waits /\ s.todo = r.todo
          /\ s.batch = r.batch /\ s.sub = r.sub /\ s.failed = r.failed
          /\ s.retried = r.retried /\ s.wanted = r.wanted /\ s.source = r.source
      BY <2>1, <3>1 DEF RunType
    <3>3. r.pc \notin Over /\ Len(queue) <= Len(queue')
      BY <2>4 DEF Active, Over
    <3>4. Parts(s) /\ s.source \in Value
      BY <2>1, <3>2, <3>3 DEF RunInv, Parts
    <3>5. RunInv(s)
      BY <3>2, <3>3, <3>4 DEF RunInv
    <3>6. s.waits <= Len(queue')
      BY <1>1, <2>1, <3>2, <3>3
    <3> QED
      BY <2>1, <2>4, <3>2, <3>5, <3>6
  <2> QED
    BY <2>2, <2>3, <2>4
<1>3. run' \in [Runs -> RunType]
  <2>1. \A a \in Runs : run'[a] \in RunType
    BY <1>2 DEF RunInv, Parts
  <2> QED
    BY <2>1 DEF FunctionOfRuns
<1>4. \A a \in Runs : Active(a)' <=> run'[a].pc \notin Over
  BY DEF Active, Over
<1> QED
  BY <1>2, <1>3, <1>4 DEF RunsInv

LEMMA ReloadStep ==
    ASSUME IInv, Reload
    PROVE  IInv'
<1> DEFINE f(a) == IF Active(a) THEN Gone ELSE run[a]
<1>1. run' = [a \in Runs |-> f(a)]
  BY DEF Reload, Gone
<1>2. \A a \in Runs : (~Active(a) /\ run'[a] = run[a]) \/ (Active(a) /\ run'[a] = Gone)
  BY <1>1
<1>3. /\ version' \in version .. MaxVersion /\ doc' = None /\ pages' = NoPages
      /\ running' = FALSE /\ abort' = 0 /\ checkpointError' = FALSE /\ opening' = {}
      /\ active' = FALSE /\ queue' = <<>> /\ latest' = latest /\ stored' = stored
      /\ home' \in {"other", "mixed"}
  BY DEF Reload
<1>4. queue' \in Seq(Transaction)
  BY <1>3
<1> HIDE DEF f
<1>5. FunctionOfRuns(run')
  BY <1>1 DEF FunctionOfRuns
<1>6. RunsInv'
  BY <1>2, <1>3, <1>4, <1>5, RunsStop
<1>7. /\ version' \in 1 .. MaxVersion /\ abort' \in 0 .. latest' /\ pages' \in [Pages -> Value \cup {None}]
  BY <1>3, SessionAssumption DEF IInv, StateInv, NoPages
<1>8. StateInv'
  BY <1>3, <1>4, <1>7 DEF IInv, StateInv
<1> QED
  BY <1>6, <1>8 DEF IInv

LEMMA StopSteps ==
    ASSUME IInv, Pause \/ Cancel
    PROVE  IInv'
<1> DEFINE f(a) == IF ~Active(a) THEN run[a]
                   ELSE IF a = abort /\ run[a].pc = "browser" THEN Gone
                   ELSE [run[a] EXCEPT !.stopped = TRUE, !.aborted = @ \/ a = abort]
<1>1. /\ run' = [a \in Runs |-> f(a)] /\ running /\ running' = FALSE /\ abort' = 0
  BY DEF Pause, Cancel, StopRuns, Gone
<1>2. /\ UNCHANGED <<session, checkpointError, opening, latest, stored>>
      /\ pages' \in {pages, NoPages} /\ queue' \in {queue, StartWorkspace("cancel", doc)}
  BY DEF Pause, Cancel
<1>3. doc # None /\ doc \in Docs
  BY <1>1 DEF IInv, StateInv
<1>4. queue' \in Seq(Transaction) /\ Len(queue) <= Len(queue')
  BY <1>2, <1>3, StartWorkspaceQueued DEF IInv, StateInv
<1>5. \A a \in Runs :
        \/ ~Active(a) /\ run'[a] = run[a]
        \/ Active(a) /\ run'[a] = Gone
        \/ Active(a) /\ doc' # None /\ Marked(run[a], run'[a])
  <2>1. doc' # None
    BY <1>2, <1>3 DEF session
  <2>2. ASSUME NEW a \in Runs
        PROVE  Marked(run[a], [run[a] EXCEPT !.stopped = TRUE,
                                             !.aborted = @ \/ a = abort])
    <3>1. run[a] \in RunType
      BY DEF IInv, RunsInv
    <3> DEFINE c == run[a].aborted \/ a = abort
    <3>2. c \in BOOLEAN
      BY <3>1 DEF RunType
    <3>3. [run[a] EXCEPT !.stopped = TRUE, !.aborted = @ \/ a = abort]
          = [run[a] EXCEPT !.stopped = TRUE, !.aborted = c]
      BY <3>1 DEF RunType
    <3> QED
      BY <3>2, <3>3 DEF Marked
  <2> QED
    BY <1>1, <2>1, <2>2
<1> HIDE DEF f
<1>6. latest' = latest /\ FunctionOfRuns(run')
  BY <1>1, <1>2 DEF FunctionOfRuns
<1>7. RunsInv'
  BY <1>4, <1>5, <1>6, RunsStop
<1>8. abort' \in 0 .. latest' /\ pages' \in [Pages -> Value \cup {None}]
  BY <1>1, <1>2, SessionAssumption DEF IInv, StateInv, NoPages
<1>9. StateInv'
  BY <1>1, <1>2, <1>3, <1>4, <1>8 DEF IInv, StateInv, session
<1> QED
  BY <1>7, <1>9 DEF IInv

-----------------------------------------------------------------------------

LEMMA InitialState ==
    ASSUME Init
    PROVE  IInv
<1>1. StateInv
  <2>1. abort \in 0 .. latest /\ latest \in 0 .. MaxRuns /\ queue \in Seq(Transaction)
    BY SessionAssumption DEF Init
  <2>2. /\ pages \in [Pages -> Value \cup {None}]
        /\ stored \in [open : Value \cup {None}, pages : [Pages -> Value \cup {None}]]
    BY DEF Init, NoPages
  <2>3. ~running /\ ~active /\ opening = {} /\ queue = <<>>
    BY DEF Init
  <2> QED
    BY <2>1, <2>2, <2>3 DEF Init, StateInv
<1>2. RunsInv
  <2>1. NoRun \in RunType /\ NoRun.waits = 0 /\ NoRun.pc = "idle"
    BY DEF NoRun, RunType, Over
  <2>2. RunInv(NoRun)
    BY <2>1 DEF RunInv, Parts, NoRun, Over
  <2>3. run = [a \in Runs |-> NoRun] /\ latest = 0 /\ queue = <<>>
    BY DEF Init
  <2>4. \A a \in Runs : a > 0
    BY SessionAssumption DEF Runs
  <2> QED
    BY <2>1, <2>2, <2>3, <2>4 DEF RunsInv, Active
<1> QED
  BY <1>1, <1>2 DEF IInv

\* Every step keeps the invariant.
LEMMA Step ==
    ASSUME IInv, [Next]_vars
    PROVE  IInv'
<1>1. CASE UNCHANGED vars
  <2>1. StateInv'
    BY <1>1 DEF IInv, StateInv, vars, session
  <2>2. RunsInv'
    BY <1>1, SameRuns DEF IInv, StateInv, vars, session
  <2> QED
    BY <2>1, <2>2 DEF IInv
<1>2. ASSUME NEW a \in Runs, RunStep(a)
      PROVE  IInv'
  BY <1>2, WorkerSteps, CompanionSteps, ConfirmSteps, EndingSteps
     DEF RunStep, Resume, Proceed
<1>3. CASE DatabaseStep
  BY <1>3, DatabaseSteps DEF DatabaseStep
<1>4. CASE OpenStep
  BY <1>4, OpeningSteps DEF OpenStep
<1>5. CASE UserStep
  BY <1>5, OpeningSteps, ReloadStep, StopSteps, StartStep DEF UserStep
<1> QED
  BY <1>1, <1>2, <1>3, <1>4, <1>5 DEF Next

\* The inductive invariant of the extraction session.
THEOREM Invariance == Spec => []IInv
<1>1. Init => IInv
  BY InitialState
<1>2. IInv /\ [Next]_vars => IInv'
  BY Step
<1> QED
  BY <1>1, <1>2, PTL DEF Spec

LEMMA TypesFollow ==
    ASSUME IInv
    PROVE  SessionInv
<1>1. \A i \in DOMAIN queue :
        /\ queue[i].kind \in {"page", "open", "cancel"}
        /\ queue[i].kind = "page" => queue[i].page \in Pages
        /\ queue[i].value \in Value
  <2>1. \A i \in DOMAIN queue : queue[i] \in Transaction
    BY DEF IInv, StateInv
  <2> QED
    BY <2>1 DEF Transaction
<1>2. ASSUME NEW a \in Runs
      PROVE  LET r == run[a]
             IN  /\ r.pc = "idle" <=> a > latest
                 /\ Active(a) => doc # None /\ r.source \in Value
                 /\ r.waits \in 0 .. Len(queue)
                 /\ r.todo \cup r.batch \cup r.sub \cup r.failed \subseteq r.wanted
                 /\ r.wanted \subseteq Pages
                 /\ r.todo \cap (r.batch \cup r.sub \cup r.failed) = {}
                 /\ r.batch \cap r.sub = {}
                 /\ r.retried \subseteq r.failed
  <2> DEFINE r == run[a]
  <2>1. /\ RunInv(r) /\ Parts(r) /\ r.waits <= Len(queue)
        /\ r.pc = "idle" <=> a > latest
        /\ Active(a) => doc # None
    BY DEF IInv, RunsInv, RunInv
  <2>2. r.waits \in Nat /\ r.wanted \subseteq Pages /\ Len(queue) \in Nat
    BY <2>1 DEF Parts, RunType, IInv, StateInv
  <2>3. Active(a) => r.source \in Value
    BY <2>1 DEF RunInv, Active, Over
  <2> QED
    BY <2>1, <2>2, <2>3 DEF Parts
<1>3. stored.open \in Value \cup {None} /\ stored.pages \in [Pages -> Value \cup {None}]
  BY DEF IInv, StateInv
<1> QED
  BY <1>1, <1>2, <1>3 DEF IInv, StateInv, SessionInv

\* The types, and what a run has in hand at each point: nothing but the pages it
\* wants, in disjoint parts, and a document that it was given (runBatch,
\* runCompanionBatch, extract).
THEOREM TypeCorrect == Spec => []SessionInv
<1>1. IInv => SessionInv
  BY TypesFollow
<1> QED
  BY <1>1, Invariance, PTL
-----------------------------------------------------------------------------
(* The controls.                                                           *)

\* A run beside which no other has worked is the only one, and is shown.
AloneInv(a) ==
    /\ a = latest
    /\ \A b \in Runs : Active(b) => b = a
    /\ ~run[a].stopped => running /\ (run[a].pc \in Abortable => abort = a)
    /\ run[a].stopped =>
        /\ run[a].pc # "browser"
        /\ run[a].pc \in Abortable => run[a].aborted

ControlInv ==
    /\ running => latest > 0 /\ Active(latest) /\ ~run[latest].stopped
    /\ abort # 0 => run[abort].pc \in Abortable
    /\ \A a \in Runs : Active(a) /\ run[a].alone => AloneInv(a)

\* Where a step takes a run that goes on.
Advance(pc, next, aborted, a) ==
    \/ /\ next \in {"browser", "companion"}
       /\ abort' = a
       /\ \/ pc = "browser"
          \/ pc \in {"companion", "confirming"} /\ ~aborted
          \/ pc = "persisting" /\ running
    \/ pc = "browser" /\ next = "browser" /\ abort' = abort
    \/ pc \in {"browser", "acknowledging"} /\ next = "settling" /\ abort' = 0
    \/ pc = "companion" /\ ~aborted /\ next = "confirming" /\ abort' = abort
    \/ pc = "confirming" /\ next = "acknowledging" /\ abort' = abort
    \/ pc = "settling" /\ next = "persisting" /\ abort' = abort
    \/ pc = "persisting" /\ running /\ next = "finishing" /\ abort' = abort

Changed(a, s) ==
    /\ run' = [run EXCEPT ![a] = s]
    /\ \/ /\ s = Gone
          /\ running' = FALSE
          /\ abort' = 0 \/ (abort' = abort /\ run[a].pc \notin Abortable)
       \/ /\ running' = running
          /\ s.stopped = run[a].stopped
          /\ s.alone = run[a].alone
          /\ s.aborted = run[a].aborted \/ run[a].pc = "persisting"
          /\ Advance(run[a].pc, s.pc, run[a].aborted, a)

LEMMA FallbackKeeps ==
    ASSUME NEW r, Parts(r), Current \in Value
    PROVE  LET s == Fallback(r)
           IN  /\ s.pc = "browser" /\ s.aborted = r.aborted
               /\ Parts(s) /\ Keeps(s, r) /\ s.source = Current
               /\ s.todo = r.todo /\ s.batch \cup s.sub = r.batch
<1> DEFINE t == [r EXCEPT !.engine = "browser"]
           s == BrowserBatches(t)
<1>1. /\ t \in RunType /\ t.stopped = r.stopped /\ t.aborted = r.aborted
      /\ t.alone = r.alone
      /\ t.todo = r.todo /\ t.batch = r.batch /\ t.sub = r.sub /\ t.waits = r.waits
      /\ t.failed = r.failed /\ t.retried = r.retried /\ t.wanted = r.wanted
  BY DEF Parts, RunType
<1>2. Fallback(r) = s
  BY DEF Fallback
<1> HIDE DEF t
<1>3. Parts(t)
  BY <1>1 DEF Parts
<1>4. /\ Parts(s) /\ Keeps(s, t) /\ s.pc = "browser" /\ s.source = Current
      /\ s.todo = t.todo /\ s.batch \cup s.sub = t.batch /\ s.aborted = t.aborted
  BY <1>3, BrowserBatchesParts
<1> HIDE DEF s
<1> QED
  BY <1>1, <1>2, <1>4 DEF Keeps

\* A step of a run ends it or advances it, and changes no other run.
LEMMA RunChanges ==
    ASSUME IInv, NEW a \in Runs, RunStep(a)
    PROVE  Active(a) /\ latest' = latest /\ \E s : Changed(a, s)
<1> DEFINE r == run[a]
<1>1. r \in RunType /\ Parts(r) /\ run \in [Runs -> RunType]
  BY DEF IInv, RunsInv, RunInv
<1>2. Active(a) /\ latest' = latest
  BY DEF RunStep, Resume, Proceed, WorkerPage, WorkerPageFails, WorkerDone, WorkerCrash,
         CompanionAnswers, TakeResult, CompanionFails, CompanionStops, Confirm,
         ConfirmFails, Acknowledged, Settle, Persisted, Finish, Active
<1>3. Current \in Value
  BY <1>2, CurrentIsValue
<1>4. End(a) /\ (abort' = 0 \/ (abort' = abort /\ r.pc \notin Abortable)) =>
        Changed(a, Gone)
  BY DEF End, Changed, Gone
<1>5. ASSUME NEW pc, NEW w, running' = running, Advance(r.pc, pc, r.aborted, a),
             run' = [run EXCEPT ![a].pc = pc, ![a].waits = w]
      PROVE  Changed(a, [r EXCEPT !.pc = pc, !.waits = w])
  BY <1>1, <1>5 DEF Changed, RunType
<1>6. ASSUME NEW pc, running' = running, Advance(r.pc, pc, r.aborted, a),
             run' = [run EXCEPT ![a].pc = pc]
      PROVE  Changed(a, [r EXCEPT !.pc = pc])
  BY <1>1, <1>6 DEF Changed, RunType
<1>7. CASE WorkerPage(a) \/ WorkerPageFails(a)
  <2>1. /\ r.pc = "browser" /\ running' = running /\ abort' = abort
        /\ \E p \in Pages :
            \/ run' = [run EXCEPT ![a].sub = @ \ {p}]
            \/ run' = [run EXCEPT ![a].sub = @ \ {p}, ![a].failed = @ \cup {p}]
    BY <1>1, <1>7, FirstIsPart DEF WorkerPage, WorkerPageFails, RunType
  <2>2. PICK p \in Pages :
            \/ run' = [run EXCEPT ![a].sub = @ \ {p}]
            \/ run' = [run EXCEPT ![a].sub = @ \ {p}, ![a].failed = @ \cup {p}]
    BY <2>1
  <2> DEFINE s == run'[a]
  <2>3. run' = [run EXCEPT ![a] = s] /\ s.pc = r.pc /\ s.stopped = r.stopped
        /\ s.aborted = r.aborted /\ s.alone = r.alone
    BY <1>1, <2>2 DEF RunType
  <2> QED
    BY <1>2, <2>1, <2>3 DEF Changed, Advance
<1>8. CASE WorkerDone(a)
  <2> DEFINE retry == r.failed \ r.retried
             s == run'[a]
  <2>1. r.pc = "browser" /\ running' = running
    BY <1>8 DEF WorkerDone
  <2>2. CASE r.batch # {}
    <3>1. run' = [run EXCEPT ![a] = BrowserBatches(r)] /\ abort' = a
      BY <1>8, <2>2 DEF WorkerDone
    <3>2. Keeps(BrowserBatches(r), r) /\ BrowserBatches(r).pc = "browser"
          /\ BrowserBatches(r).aborted = r.aborted
      BY <1>1, <1>3, BrowserBatchesParts
    <3> QED
      BY <1>2, <2>1, <3>1, <3>2 DEF Changed, Advance, Keeps
  <2>3. CASE r.batch = {} /\ retry # {}
    <3> DEFINE t == [r EXCEPT !.retried = r.retried \cup retry, !.pc = "browser",
                              !.sub = retry, !.source = Current]
    <3>1. run' = [run EXCEPT ![a] = t] /\ abort' = a
      BY <1>1, <1>8, <2>3 DEF WorkerDone, Work, RunType
    <3>2. t.pc = "browser" /\ t.stopped = r.stopped /\ t.aborted = r.aborted
          /\ t.alone = r.alone
      BY <1>1 DEF RunType
    <3> QED
      BY <1>2, <2>1, <3>1, <3>2 DEF Changed, Advance
  <2>4. CASE r.batch = {} /\ retry = {}
    <3>1. run' = [run EXCEPT ![a].pc = "settling", ![a].waits = LastWrite(queue)]
          /\ abort' = 0
      BY <1>8, <2>4 DEF WorkerDone, Await
    <3>2. Advance(r.pc, "settling", r.aborted, a)
      BY <2>1, <3>1 DEF Advance
    <3> QED
      BY <1>2, <1>5, <2>1, <3>1, <3>2
  <2> QED
    BY <2>2, <2>3, <2>4
<1>9. CASE WorkerCrash(a) \/ CompanionStops(a) \/ Finish(a)
  BY <1>2, <1>4, <1>9 DEF WorkerCrash, CompanionStops, Finish, Abortable
<1>10. CASE CompanionAnswers(a)
  <2>1. /\ r.pc = "companion" /\ ~r.aborted /\ running' = running /\ abort' = abort
        /\ run' = [run EXCEPT ![a].pc = "confirming", ![a].waits = LastWrite(queue')]
    BY <1>10 DEF CompanionAnswers, TakeResult, Await
  <2>2. Advance(r.pc, "confirming", r.aborted, a)
    BY <2>1 DEF Advance
  <2> QED
    BY <1>2, <1>5, <2>1, <2>2
<1>11. CASE CompanionFails(a) \/ (ConfirmFails(a) /\ ~r.aborted)
  <2>1. /\ r.pc \in {"companion", "confirming"} /\ ~r.aborted /\ running' = running
        /\ abort' = a /\ run' = [run EXCEPT ![a] = Fallback(r)]
    BY <1>1, <1>11 DEF CompanionFails, ConfirmFails
  <2>2. /\ Fallback(r).pc = "browser" /\ Keeps(Fallback(r), r)
        /\ Fallback(r).aborted = r.aborted
    BY <1>1, <1>3, FallbackKeeps
  <2> QED
    BY <1>2, <2>1, <2>2 DEF Changed, Advance, Keeps
<1>12. CASE ConfirmFails(a) /\ r.aborted
  BY <1>2, <1>4, <1>12 DEF ConfirmFails
<1>13. CASE Confirm(a)
  <2>1. /\ r.pc = "confirming" /\ running' = running /\ abort' = abort
        /\ run' = [run EXCEPT ![a].pc = "acknowledging"]
    BY <1>13 DEF Confirm, Goto
  <2>2. Advance(r.pc, "acknowledging", r.aborted, a)
    BY <2>1 DEF Advance
  <2> QED
    BY <1>2, <1>6, <2>1, <2>2
<1>14. CASE Acknowledged(a)
  <2>1. /\ r.pc = "acknowledging" /\ running' = running /\ abort' = 0
        /\ run' = [run EXCEPT ![a].pc = "settling", ![a].waits = LastWrite(queue)]
    BY <1>14 DEF Acknowledged, Await
  <2>2. Advance(r.pc, "settling", r.aborted, a)
    BY <2>1 DEF Advance
  <2> QED
    BY <1>2, <1>5, <2>1, <2>2
<1>15. CASE Settle(a)
  <2>1. CASE End(a)
    BY <1>2, <1>4, <1>15, <2>1 DEF Settle, Abortable
  <2>2. CASE ~End(a)
    <3>1. /\ r.pc = "settling" /\ running' = running /\ abort' = abort
          /\ run' = [run EXCEPT ![a].pc = "persisting"]
      BY <1>15, <2>2 DEF Settle, Goto
    <3>2. Advance(r.pc, "persisting", r.aborted, a)
      BY <3>1 DEF Advance
    <3> QED
      BY <1>2, <1>6, <3>1, <3>2
  <2> QED
    BY <2>1, <2>2
<1>16. CASE Persisted(a)
  <2>1. r.pc = "persisting"
    BY <1>16 DEF Persisted
  <2>2. CASE End(a)
    BY <1>2, <1>4, <1>16, <2>1, <2>2 DEF Persisted, Abortable, End
  <2>3. CASE running /\ run' = [run EXCEPT ![a] = NextBatch(r)] /\ abort' = a
             /\ running' = running
    <3>1. Keeps(NextBatch(r), r) /\ NextBatch(r).pc \in {"browser", "companion"}
      BY <1>1, <1>3, NextBatchParts
    <3> QED
      BY <1>2, <2>1, <2>3, <3>1 DEF Changed, Advance, Keeps
  <2>4. CASE running /\ Goto(a, "finishing") /\ abort' = abort /\ running' = running
    <3>1. Advance(r.pc, "finishing", r.aborted, a)
      BY <2>1, <2>4 DEF Advance
    <3>2. run' = [run EXCEPT ![a].pc = "finishing"]
      BY <2>4 DEF Goto
    <3> QED
      BY <1>2, <1>6, <2>4, <3>1, <3>2
  <2> QED
    BY <1>1, <1>16, <2>2, <2>3, <2>4 DEF Persisted
<1> QED
  BY <1>7, <1>8, <1>9, <1>10, <1>11, <1>12, <1>13, <1>14, <1>15, <1>16
     DEF RunStep, Resume, Proceed
LEMMA ControlRunStep ==
    ASSUME IInv, ControlInv, NEW a \in Runs, RunStep(a)
    PROVE  ControlInv'
<1> DEFINE r == run[a]
<1>1. PICK s : Changed(a, s)
  BY RunChanges
<1>2. /\ Active(a) /\ latest' = latest /\ a \in 1 .. latest
      /\ run \in [Runs -> RunType] /\ r \in RunType
      /\ latest \in 0 .. MaxRuns /\ abort \in 0 .. latest /\ MaxRuns \in Nat
  BY RunChanges, CurrentIsValue, SessionAssumption DEF IInv, StateInv, RunsInv
<1>3. /\ run'[a] = s
      /\ \A b \in Runs : b # a => run'[b] = run[b]
  BY <1>1, <1>2 DEF Changed
<1>4. latest \in Runs /\ (abort # 0 => abort \in Runs)
  BY <1>2 DEF Runs
<1>5. ASSUME NEW b \in Runs, b # a
      PROVE  ~(Active(b) /\ run[b].alone)
  BY <1>2, <1>5 DEF ControlInv, AloneInv
<1>6. CASE s = Gone /\ running' = FALSE
           /\ (abort' = 0 \/ (abort' = abort /\ r.pc \notin Abortable))
  <2>1. \A b \in Runs : Active(b)' => ~run'[b].alone
    BY <1>3, <1>5, <1>6, GoneIsSound DEF Active
  <2>2. abort' # 0 => run'[abort'].pc \in Abortable
    BY <1>3, <1>4, <1>6 DEF ControlInv
  <2> QED
    BY <1>6, <2>1, <2>2 DEF ControlInv
<1>7. CASE /\ running' = running /\ s.stopped = r.stopped /\ s.alone = r.alone
           /\ s.aborted = r.aborted \/ r.pc = "persisting"
           /\ Advance(r.pc, s.pc, r.aborted, a)
  <2>1. Active(a)'
    BY <1>3, <1>7 DEF Advance, Active
  <2>2. running' => latest' > 0 /\ Active(latest)' /\ ~run'[latest'].stopped
    BY <1>2, <1>3, <1>4, <1>7, <2>1 DEF ControlInv, Active
  <2>3. abort' # 0 => run'[abort'].pc \in Abortable
    <3>1. CASE abort' = a
      <4>1. abort' = abort => r.pc \in Abortable
        BY <1>2, <3>1 DEF ControlInv
      <4>2. s.pc \in Abortable
        BY <1>2, <1>7, <3>1, <4>1 DEF Advance, Abortable
      <4> QED
        BY <1>3, <3>1, <4>2
    <3>2. CASE abort' # a /\ abort' # 0
      <4>1. abort' = abort
        BY <1>7, <3>2 DEF Advance
      <4> QED
        BY <1>3, <1>4, <3>2, <4>1 DEF ControlInv
    <3> QED
      BY <3>1, <3>2
  <2>4. ASSUME r.alone
        PROVE  AloneInv(a)'
    <3>1. AloneInv(a)
      BY <1>2, <2>4 DEF ControlInv
    <3>2. r.stopped => /\ ~running /\ r.pc # "browser"
                       /\ r.pc \in Abortable => r.aborted
      BY <3>1 DEF ControlInv, AloneInv
    <3>3. ~s.stopped => running' /\ (s.pc \in Abortable => abort' = a)
      BY <1>7, <3>1 DEF Advance, Abortable, AloneInv
    <3>4. s.stopped => s.pc # "browser" /\ (s.pc \in Abortable => s.aborted)
      BY <1>7, <3>2 DEF Advance, Abortable
    <3>5. \A b \in Runs : Active(b)' => b = a
      BY <1>3, <3>1 DEF AloneInv, Active
    <3> QED
      BY <1>2, <1>3, <3>1, <3>3, <3>4, <3>5 DEF AloneInv
  <2>5. \A b \in Runs : Active(b)' /\ run'[b].alone => AloneInv(b)'
    <3>1. ASSUME NEW b \in Runs, Active(b)', run'[b].alone
          PROVE  b = a /\ r.alone
      BY <1>3, <1>5, <1>7, <3>1 DEF Active
    <3> QED
      BY <2>4, <3>1
  <2> QED
    BY <2>2, <2>3, <2>5 DEF ControlInv
<1> QED
  BY <1>1, <1>6, <1>7 DEF Changed

\* What no action changes about a run that waits.
LEMMA ControlSame ==
    ASSUME IInv, ControlInv, UNCHANGED <<running, abort, latest>>,
           run' = run \/ Dequeue
    PROVE  ControlInv'
<1>1. \A a \in Runs : /\ run'[a].pc = run[a].pc /\ run'[a].stopped = run[a].stopped
                      /\ run'[a].aborted = run[a].aborted /\ run'[a].alone = run[a].alone
  BY DEF Dequeue, IInv, RunsInv, RunType
<1>2. \A a \in Runs : Active(a)' <=> Active(a)
  BY <1>1 DEF Active
<1>3. latest \in 0 .. MaxRuns /\ abort \in 0 .. latest /\ MaxRuns \in Nat
  BY SessionAssumption DEF IInv, StateInv
<1>4. (latest > 0 => latest \in Runs) /\ (abort # 0 => abort \in Runs)
  BY <1>3 DEF Runs
<1>5. \A a \in Runs : AloneInv(a) => AloneInv(a)'
  BY <1>1, <1>2 DEF AloneInv
<1> QED
  BY <1>1, <1>2, <1>4, <1>5 DEF ControlInv

LEMMA ControlStart ==
    ASSUME IInv, ControlInv, NEW W \in Selections,
           NEW engine \in {"browser", "companion"}, Start(W, engine)
    PROVE  ControlInv'
<1> DEFINE s == NewRun(W, engine)
<1>1. PICK b \in Runs :
      /\ b > 0 /\ Current \in Value
      /\ latest' = b /\ abort' = b /\ running' = TRUE /\ run'[b] = s
      /\ \A a \in Runs : a # b =>
           run'[a] = IF Active(a) THEN Beside(run[a]) ELSE run[a]
  BY StartMakes
<1>2. /\ ~s.stopped /\ (s.alone => ~Working)
      /\ s.pc \in {"browser", "companion"} /\ s.pc \in Abortable
  <2>1. Current \in Value
    BY <1>1
  <2>2. ~s.stopped /\ (s.alone => ~Working) /\ s.pc \in {"browser", "companion"}
    BY <2>1, NewRunParts
  <2> QED
    BY <2>2 DEF Abortable
<1> HIDE DEF s
<1>3. run'[b] = s /\ Active(b)'
  BY <1>1, <1>2 DEF Active
<1>4. ASSUME NEW a \in Runs, Active(a)', run'[a].alone
      PROVE  a = b
  <2>1. ASSUME a # b
        PROVE  FALSE
    <3>1. Active(a) => ~Beside(run[a]).alone
      BY DEF Beside, IInv, RunsInv, RunType
    <3>2. ~Active(a)
      BY <1>1, <1>4, <2>1, <3>1
    <3> QED
      BY <1>1, <1>4, <2>1, <3>2 DEF Active
  <2> QED
    BY <2>1
<1>5. ASSUME s.alone
      PROVE  AloneInv(b)'
  <2>1. ~Working
    BY <1>2, <1>5
  <2>2. \A a \in Runs : Active(a)' => a = b
    BY <1>1, <2>1 DEF Working, Active
  <2> QED
    BY <1>1, <1>2, <1>3, <2>2 DEF AloneInv
<1> QED
  BY <1>1, <1>2, <1>3, <1>4, <1>5 DEF ControlInv

LEMMA ControlStop ==
    ASSUME IInv, ControlInv, StopRuns, latest' = latest
    PROVE  ControlInv'
<1>1. /\ running /\ running' = FALSE /\ abort' = 0
      /\ \A a \in Runs : run'[a] = IF ~Active(a) THEN run[a]
                 ELSE IF a = abort /\ run[a].pc = "browser" THEN Gone
                 ELSE [run[a] EXCEPT !.stopped = TRUE, !.aborted = @ \/ a = abort]
  BY DEF StopRuns, Gone
<1>2. ASSUME NEW a \in Runs, Active(a)', run'[a].alone
      PROVE  AloneInv(a)'
  <2>1. Active(a)
    BY <1>1, <1>2 DEF Active
  <2>2. run'[a] # Gone
    BY <1>2, GoneIsSound DEF Active
  <2>3. run'[a] = [run[a] EXCEPT !.stopped = TRUE, !.aborted = @ \/ a = abort]
        /\ ~(a = abort /\ run[a].pc = "browser")
    BY <1>1, <2>1, <2>2
  <2>4. run[a] \in RunType
    BY DEF IInv, RunsInv
  <2>5. run'[a].stopped /\ run'[a].pc = run[a].pc /\ run[a].alone
    BY <1>2, <2>3, <2>4 DEF RunType
  <2>6. AloneInv(a)
    BY <2>1, <2>5 DEF ControlInv
  <2>7. run[a].pc \in Abortable => run'[a].aborted
    BY <2>3, <2>4, <2>6 DEF RunType, AloneInv
  <2>8. run'[a].pc # "browser"
    BY <2>3, <2>5, <2>6, <1>1 DEF AloneInv, Abortable, ControlInv
  <2>9. \A b \in Runs : Active(b)' => b = a
    BY <1>1, <2>6 DEF AloneInv, Active
  <2> QED
    BY <2>5, <2>6, <2>7, <2>8, <2>9 DEF AloneInv
<1> QED
  BY <1>1, <1>2 DEF ControlInv

LEMMA ControlReload ==
    ASSUME IInv, ControlInv, Reload
    PROVE  ControlInv'
<1>1. \A a \in Runs : run'[a] = IF Active(a) THEN Gone ELSE run[a]
  BY DEF Reload, Gone
<1>2. running' = FALSE /\ abort' = 0
  BY DEF Reload
<1>3. \A a \in Runs : ~Active(a)'
  BY <1>1, GoneIsSound DEF Active
<1> QED
  BY <1>2, <1>3 DEF ControlInv

LEMMA ControlStep ==
    ASSUME IInv, ControlInv, [Next]_vars
    PROVE  ControlInv'
<1>1. CASE UNCHANGED vars
  BY <1>1, ControlSame DEF vars
<1>2. ASSUME NEW a \in Runs, RunStep(a)
      PROVE  ControlInv'
  BY <1>2, ControlRunStep
<1>3. CASE DatabaseStep
  BY <1>3, ControlSame DEF DatabaseStep, Commit, CommitFails
<1>4. CASE OpenStep \/ Restore \/ \E d \in Docs : OpenFile(d)
  BY <1>4, ControlSame DEF OpenStep, OpenFile, OpenPrepared, OpenFails, Restore
<1>5. CASE Pause \/ Cancel
  BY <1>5, ControlStop DEF Pause, Cancel
<1>6. ASSUME NEW W \in Selections, NEW e \in {"browser", "companion"}, Start(W, e)
      PROVE  ControlInv'
  BY <1>6, ControlStart
<1> QED
  BY <1>1, <1>2, <1>3, <1>4, <1>5, <1>6, ControlReload DEF Next, UserStep

LEMMA ControlInvariance == Spec => []ControlInv
<1>1. Init => ControlInv
  <2>1. Init => /\ \A a \in Runs : ~Active(a)
                /\ ~running /\ abort = 0
    BY DEF Init, NoRun, Active
  <2> QED
    BY <2>1 DEF ControlInv
<1>2. IInv /\ ControlInv /\ [Next]_vars => ControlInv'
  BY ControlStep
<1> QED
  BY <1>1, <1>2, Invariance, PTL DEF Spec

\* Whatever the user starts, stops and opens (setWorking, stop, extract's finally):
\* what is shown as running is running, a stop aborts a batch that is worked on, and
\* a run beside which no other works can be stopped until it ends.
THEOREM ControlsAreRight == Spec => []ControlsAreTrue
<1>1. ControlInv => ControlsAreTrue
  BY DEF ControlInv, AloneInv, ControlsAreTrue
<1> QED
  BY <1>1, ControlInvariance, PTL

\* A stopped run whose batch was aborted takes no result and does not fall back, and
\* one beside which no other works is given no worker and no Companion job (stop,
\* runWithBrowserFallback, runCompanionBatch).
THEOREM StoppedRunsStayQuiet == Spec => StoppedRunsAreQuiet
<1> DEFINE Stopped(a) ==
             /\ Active(a) /\ run[a].stopped
             /\ run[a].alone \/ (run[a].aborted /\ run[a].pc \in {"companion", "confirming"})
<1>1. ASSUME IInv, ControlInv, [Next]_vars, NEW a \in Runs, Stopped(a)
      PROVE  Quiet(a)
  <2> DEFINE Aborted == run[a].aborted /\ run[a].pc \in {"companion", "confirming"}
  <2>1. run[a].alone => /\ AloneInv(a) /\ ~running
                        /\ run[a].pc \in Abortable => run[a].aborted
    BY <1>1 DEF ControlInv, AloneInv
  <2>2. run[a].pc # "browser"
    BY <1>1, <2>1 DEF AloneInv
  <2>3. run \in [Runs -> RunType]
    BY <1>1 DEF IInv, RunsInv
  <2>4. CASE RunStep(a)
    <3>1. PICK s : Changed(a, s)
      BY <1>1, <2>4, RunChanges
    <3>2. run'[a] = s
      BY <2>3, <3>1 DEF Changed
    <3>3. s = Gone \/ Advance(run[a].pc, s.pc, run[a].aborted, a)
      BY <3>1 DEF Changed
    <3> QED
      BY <1>1, <2>1, <2>2, <3>2, <3>3, GoneIsSound DEF Advance, Abortable, Quiet
  <2>5. CASE \E b \in Runs : b # a /\ RunStep(b)
    <3>1. PICK b \in Runs : b # a /\ RunStep(b)
      BY <2>5
    <3>2. PICK s : Changed(b, s)
      BY <1>1, <3>1, RunChanges
    <3>3. run'[a] = run[a]
      BY <2>3, <3>1, <3>2 DEF Changed
    <3> QED
      BY <2>2, <3>3 DEF Quiet
  <2>6. CASE DatabaseStep \/ UNCHANGED run
    <3>1. run'[a].pc = run[a].pc
      BY <2>3, <2>6 DEF DatabaseStep, Commit, CommitFails, Dequeue, RunType
    <3> QED
      BY <2>2, <3>1 DEF Quiet
  <2>7. CASE Pause \/ Cancel
    <3>1. run'[a] = [run[a] EXCEPT !.stopped = TRUE, !.aborted = @ \/ a = abort]
      BY <1>1, <2>2, <2>7 DEF Pause, Cancel, StopRuns
    <3>2. run'[a].pc = run[a].pc
      BY <2>3, <3>1 DEF RunType
    <3> QED
      BY <2>2, <3>2 DEF Quiet
  <2>8. CASE Reload
    <3>1. run'[a].pc = "ended"
      BY <1>1, <2>8, GoneIsSound DEF Reload, Gone
    <3> QED
      BY <3>1 DEF Quiet
  <2>9. CASE \E W \in Selections, e \in {"browser", "companion"} : Start(W, e)
    <3>1. a # latest + 1
      <4>1. ~(a > latest) /\ latest \in Nat
        BY <1>1 DEF IInv, StateInv, RunsInv, Active
      <4> QED
        BY <4>1
    <3>2. run'[a] = [run[a] EXCEPT !.alone = FALSE]
      BY <1>1, <2>9, <3>1 DEF Start
    <3>3. run'[a].pc = run[a].pc
      BY <2>3, <3>2 DEF RunType
    <3> QED
      BY <2>2, <3>3 DEF Quiet
  <2> QED
    BY <1>1, <2>4, <2>5, <2>6, <2>7, <2>8, <2>9
    DEF Next, OpenStep, UserStep, OpenFile, OpenPrepared, OpenFails, Restore, vars
<1>2. IInv /\ ControlInv /\ [Next]_vars =>
        [\A a \in Runs : Stopped(a) => Quiet(a)]_vars
  BY <1>1
<1> QED
  BY <1>2, Invariance, ControlInvariance, PTL DEF Spec, StoppedRunsAreQuiet

-----------------------------------------------------------------------------
(* The screen, the queue and the database.                                 *)

NoStart == \A j \in DOMAIN queue : queue[j].kind = "page"
NoStartAfter(i) == \A j \in DOMAIN queue : j > i => queue[j].kind = "page"
Queued(p, i) == queue[i].kind = "page" /\ queue[i].page = p /\ NoStartAfter(i)
Kept(p) == NoStart /\ stored.pages[p] = pages[p]

\* What comes to position n of the transactions q, after what is stored as open, goes
\* to a workspace of the document d.
Home(q, open, n, d) ==
    \/ \E j \in DOMAIN q :
         /\ j < n /\ q[j].kind # "page" /\ q[j].value.doc = d
         /\ \A k \in DOMAIN q : j < k /\ k < n => q[k].kind = "page"
    \/ /\ \A k \in DOMAIN q : k < n => q[k].kind = "page"
       /\ open # None /\ open.doc = d

\* The screen shows the open document, and so does whoever works for it.
ScreenInv ==
    /\ \A p \in Pages : pages[p] # None => pages[p] = Current
    /\ \A a \in Runs : Active(a) => home = "own" /\ active /\ run[a].source = Current

\* What waits for the database goes to the workspace of its document.
QueueInv ==
    /\ \A i \in DOMAIN queue : queue[i].value.version = version
    /\ \A i \in DOMAIN queue : queue[i].kind = "page" =>
         Home(queue, stored.open, i, queue[i].value.doc)
    /\ home = "own" => Home(queue, stored.open, Len(queue) + 1, doc)

StoredInv ==
    /\ stored.open # None => stored.open.version <= version
    /\ \A p \in Pages : stored.pages[p] # None =>
         /\ stored.open # None /\ stored.pages[p].doc = stored.open.doc
         /\ stored.open.version <= stored.pages[p].version
         /\ stored.pages[p].version <= version

\* What will be stored after the last start is what is shown.
FollowInv ==
    home = "own" =>
        /\ \A i \in DOMAIN queue : queue[i].kind = "page" /\ NoStartAfter(i) =>
             pages[queue[i].page] = queue[i].value
        /\ NoStart /\ stored.open.version = version =>
             \A p \in Pages : stored.pages[p] # None => stored.pages[p] = pages[p]
        /\ \A p \in Pages : pages[p] # None =>
             WritesMayFail \/ Kept(p) \/ \E i \in DOMAIN queue : Queued(p, i)

WorkspaceInv == ScreenInv /\ QueueInv /\ StoredInv /\ FollowInv

\* Pages of the open document are shown and queued.
Writes(S, t) ==
    /\ S \subseteq Pages
    /\ t \in Seq(Transaction)
    /\ \A i \in DOMAIN t : t[i].kind = "page" /\ t[i].page \in S /\ t[i].value = Current
    /\ \A p \in S : \E i \in DOMAIN t : t[i].page = p
    /\ queue' = queue \o t
    /\ pages' = [p \in Pages |-> IF p \in S THEN Current ELSE pages[p]]

LEMMA QueueGrows ==
    ASSUME queue \in Seq(Transaction), NEW t \in Seq(Transaction), queue' = queue \o t,
           \A i \in DOMAIN t : t[i].kind = "page"
    PROVE  /\ NoStart' <=> NoStart
           /\ Len(queue) \in Nat /\ DOMAIN queue = 1 .. Len(queue)
           /\ \A i \in DOMAIN queue : /\ i \in DOMAIN queue' /\ queue'[i] = queue[i]
                                      /\ NoStartAfter(i)' <=> NoStartAfter(i)
           /\ \A i \in DOMAIN t : /\ Len(queue) + i \in DOMAIN queue'
                                  /\ queue'[Len(queue) + i] = t[i]
                                  /\ NoStartAfter(Len(queue) + i)'
           /\ \A j \in DOMAIN queue' : j \in DOMAIN queue \/
                 \E i \in DOMAIN t : j = Len(queue) + i
<1>1. /\ Len(queue) \in Nat /\ DOMAIN queue = 1 .. Len(queue)
      /\ Len(t) \in Nat /\ DOMAIN t = 1 .. Len(t)
      /\ DOMAIN queue' = 1 .. (Len(queue) + Len(t))
      /\ \A i \in DOMAIN queue : queue'[i] = queue[i]
      /\ \A i \in DOMAIN t : queue'[Len(queue) + i] = t[i]
  OBVIOUS
<1> HIDE DEF Transaction
<1>2. \A j \in DOMAIN queue' : j \in DOMAIN queue \/ \E i \in DOMAIN t : j = Len(queue) + i
  <2> SUFFICES ASSUME NEW j \in DOMAIN queue', j \notin DOMAIN queue
               PROVE  \E i \in DOMAIN t : j = Len(queue) + i
    OBVIOUS
  <2>1. j - Len(queue) \in DOMAIN t /\ j = Len(queue) + (j - Len(queue))
    BY <1>1
  <2> QED
    BY <2>1
<1>3. \A j \in DOMAIN queue' : j > Len(queue) => queue'[j].kind = "page"
  BY <1>1, <1>2
<1>4. \A i \in DOMAIN queue : i \in DOMAIN queue'
  BY <1>1
<1>5. NoStart' <=> NoStart
  BY <1>1, <1>2, <1>3, <1>4 DEF NoStart
<1>6. ASSUME NEW i \in DOMAIN queue
      PROVE  NoStartAfter(i)' <=> NoStartAfter(i)
  BY <1>1, <1>2, <1>3, <1>4 DEF NoStartAfter
<1>7. ASSUME NEW i \in DOMAIN t
      PROVE  Len(queue) + i \in DOMAIN queue' /\ NoStartAfter(Len(queue) + i)'
  <2>1. PICK n : n = Len(queue) + i
    OBVIOUS
  <2>2. n \in DOMAIN queue' /\ n > Len(queue)
    BY <1>1, <2>1
  <2>3. NoStartAfter(n)'
    BY <1>1, <1>3, <2>2 DEF NoStartAfter
  <2>4. PICK m : m = Len(queue)
    OBVIOUS
  <2> QED
    BY <2>1, <2>2, <1>3, <1>1 DEF NoStartAfter
<1> QED
  BY <1>1, <1>2, <1>4, <1>5, <1>6, <1>7

LEMMA QueueShrinks ==
    ASSUME queue \in Seq(Transaction), queue # <<>>, queue' = Tail(queue)
    PROVE  /\ DOMAIN queue = 1 .. Len(queue) /\ Len(queue) \in Nat /\ 1 \in DOMAIN queue
           /\ Head(queue) = queue[1] /\ Len(queue') = Len(queue) - 1
           /\ DOMAIN queue' = 1 .. Len(queue')
           /\ NoStart' <=> NoStartAfter(1)
           /\ \A i \in DOMAIN queue' : /\ i \in Nat /\ i + 1 \in DOMAIN queue
                                       /\ queue'[i] = queue[i + 1]
                                       /\ NoStartAfter(i)' <=> NoStartAfter(i + 1)
           /\ \A i \in DOMAIN queue : i # 1 =>
                 /\ i - 1 \in DOMAIN queue' /\ queue'[i - 1] = queue[i]
                 /\ NoStartAfter(i - 1)' <=> NoStartAfter(i)
<1>1. /\ DOMAIN queue = 1 .. Len(queue) /\ Len(queue) \in Nat /\ Len(queue) > 0
      /\ Head(queue) = queue[1] /\ Len(queue') = Len(queue) - 1
      /\ DOMAIN queue' = 1 .. Len(queue')
      /\ \A i \in DOMAIN queue' : queue'[i] = queue[i + 1]
  OBVIOUS
<1>2. 1 \in DOMAIN queue
  BY <1>1
<1>3. \A i \in DOMAIN queue' : i \in Nat /\ i + 1 \in DOMAIN queue
  BY <1>1
<1>4. \A i \in DOMAIN queue : i # 1 => i - 1 \in DOMAIN queue' /\ queue'[i - 1] = queue[i]
  BY <1>1
<1>5. \A i \in Nat : (\A j \in DOMAIN queue' : j > i => queue'[j].kind = "page")
                      <=> \A j \in DOMAIN queue : j > i + 1 => queue[j].kind = "page"
  <2> SUFFICES ASSUME NEW i \in Nat
               PROVE  (\A j \in DOMAIN queue' : j > i => queue'[j].kind = "page")
                      <=> \A j \in DOMAIN queue : j > i + 1 => queue[j].kind = "page"
    OBVIOUS
  <2>1. ASSUME \A j \in DOMAIN queue' : j > i => queue'[j].kind = "page",
               NEW j \in DOMAIN queue, j > i + 1
        PROVE  queue[j].kind = "page"
    <3>1. j - 1 \in DOMAIN queue' /\ queue'[j - 1] = queue[j] /\ j - 1 > i
      BY <1>1, <1>4, <2>1
    <3> QED
      BY <2>1, <3>1
  <2>2. ASSUME \A j \in DOMAIN queue : j > i + 1 => queue[j].kind = "page",
               NEW j \in DOMAIN queue', j > i
        PROVE  queue'[j].kind = "page"
    <3>1. j + 1 \in DOMAIN queue /\ queue'[j] = queue[j + 1] /\ j + 1 > i + 1
      BY <1>1, <1>3, <2>2
    <3> QED
      BY <2>2, <3>1
  <2> QED
    BY <2>1, <2>2
<1>6. \A i \in DOMAIN queue' : NoStartAfter(i)' <=> NoStartAfter(i + 1)
  BY <1>3, <1>5 DEF NoStartAfter
<1>7. \A i \in DOMAIN queue : i # 1 => (NoStartAfter(i - 1)' <=> NoStartAfter(i))
  <2> SUFFICES ASSUME NEW i \in DOMAIN queue, i # 1
               PROVE  (\A j \in DOMAIN queue' : j > i - 1 => queue'[j].kind = "page")
                      <=> \A j \in DOMAIN queue : j > i => queue[j].kind = "page"
    BY DEF NoStartAfter
  <2>1. i - 1 \in Nat /\ (i - 1) + 1 = i
    BY <1>1
  <2> QED
    BY <1>5, <2>1
<1>8. NoStart' <=> NoStartAfter(1)
  <2>1. \A j \in DOMAIN queue' : j > 0
    BY <1>1
  <2>2. NoStart' <=> \A j \in DOMAIN queue' : j > 0 => queue'[j].kind = "page"
    BY <2>1 DEF NoStart
  <2>3. NoStartAfter(1) <=> \A j \in DOMAIN queue : j > 0 + 1 => queue[j].kind = "page"
    BY DEF NoStartAfter
  <2> QED
    BY <1>5, <2>2, <2>3
<1> QED
  BY <1>1, <1>2, <1>3, <1>4, <1>6, <1>7, <1>8

LEMMA HomeIsKept ==
    ASSUME NEW q \in Seq(Transaction), NEW r \in Seq(Transaction), NEW open, NEW d,
           NEW m \in Nat, NEW n \in Nat, m <= n, m <= Len(q) + 1,
           \A i \in DOMAIN q : i \in DOMAIN r /\ r[i] = q[i],
           \A k \in DOMAIN r : m <= k /\ k < n => r[k].kind = "page",
           Home(q, open, m, d)
    PROVE  Home(r, open, n, d)
<1>1. /\ DOMAIN q = 1 .. Len(q) /\ DOMAIN r = 1 .. Len(r) /\ Len(q) \in Nat
      /\ Len(r) \in Nat
  OBVIOUS
<1>2. \A k \in DOMAIN r : k < m => k \in DOMAIN q
  BY <1>1
<1> HIDE DEF Transaction
<1>3. CASE \E j \in DOMAIN q :
             /\ j < m /\ q[j].kind # "page" /\ q[j].value.doc = d
             /\ \A k \in DOMAIN q : j < k /\ k < m => q[k].kind = "page"
  <2>1. PICK j \in DOMAIN q :
             /\ j < m /\ q[j].kind # "page" /\ q[j].value.doc = d
             /\ \A k \in DOMAIN q : j < k /\ k < m => q[k].kind = "page"
    BY <1>3
  <2>2. j \in DOMAIN r /\ r[j] = q[j] /\ j < n
    BY <1>1, <2>1
  <2>3. \A k \in DOMAIN r : j < k /\ k < n => r[k].kind = "page"
    BY <1>1, <1>2, <2>1
  <2> QED
    BY <2>1, <2>2, <2>3 DEF Home
<1>4. CASE /\ \A k \in DOMAIN q : k < m => q[k].kind = "page"
           /\ open # None /\ open.doc = d
  <2>1. \A k \in DOMAIN r : k < n => r[k].kind = "page"
    BY <1>1, <1>2, <1>4
  <2> QED
    BY <1>4, <2>1 DEF Home
<1> QED
  BY <1>3, <1>4 DEF Home

LEMMA HomeMovesUp ==
    ASSUME NEW q \in Seq(Transaction), q # <<>>, NEW open, NEW next, NEW d,
           NEW n \in Nat, n > 1, Home(q, open, n, d), q[1].value # None,
           next = IF q[1].kind = "page" THEN open ELSE q[1].value
    PROVE  Home(Tail(q), next, n - 1, d)
<1> DEFINE r == Tail(q)
<1>1. /\ DOMAIN q = 1 .. Len(q) /\ Len(q) \in Nat /\ Len(q) > 0
      /\ DOMAIN r = 1 .. Len(q) - 1 /\ \A i \in DOMAIN r : r[i] = q[i + 1]
  OBVIOUS
<1> HIDE DEF r, Transaction
<1>2. CASE \E j \in DOMAIN q :
             /\ j < n /\ q[j].kind # "page" /\ q[j].value.doc = d
             /\ \A k \in DOMAIN q : j < k /\ k < n => q[k].kind = "page"
  <2>1. PICK j \in DOMAIN q :
             /\ j < n /\ q[j].kind # "page" /\ q[j].value.doc = d
             /\ \A k \in DOMAIN q : j < k /\ k < n => q[k].kind = "page"
    BY <1>2
  <2>2. \A k \in DOMAIN r : j - 1 < k /\ k < n - 1 => r[k].kind = "page"
    <3> SUFFICES ASSUME NEW k \in DOMAIN r, j - 1 < k, k < n - 1
                 PROVE  r[k].kind = "page"
      OBVIOUS
    <3>1. k + 1 \in DOMAIN q /\ r[k] = q[k + 1] /\ j < k + 1 /\ k + 1 < n
      BY <1>1
    <3> QED
      BY <2>1, <3>1
  <2>3. CASE j = 1
    <3>1. next = q[1].value /\ next # None /\ next.doc = d
      BY <2>1, <2>3
    <3>2. \A k \in DOMAIN r : k < n - 1 => r[k].kind = "page"
      BY <1>1, <2>2, <2>3
    <3> QED
      BY <3>1, <3>2 DEF Home, r
  <2>4. CASE j # 1
    <3>1. PICK i : i = j - 1
      OBVIOUS
    <3>2. i \in DOMAIN r /\ i < n - 1 /\ r[i] = q[j]
      BY <1>1, <2>1, <2>4, <3>1
    <3> QED
      BY <2>1, <2>2, <3>1, <3>2 DEF Home, r
  <2> QED
    BY <2>3, <2>4
<1>3. CASE /\ \A k \in DOMAIN q : k < n => q[k].kind = "page"
           /\ open # None /\ open.doc = d
  <2>1. next = open
    BY <1>1, <1>3
  <2>2. \A k \in DOMAIN r : k < n - 1 => r[k].kind = "page"
    <3> SUFFICES ASSUME NEW k \in DOMAIN r, k < n - 1
                 PROVE  r[k].kind = "page"
      OBVIOUS
    <3>1. k + 1 \in DOMAIN q /\ r[k] = q[k + 1] /\ k + 1 < n
      BY <1>1
    <3> QED
      BY <1>3, <3>1
  <2> QED
    BY <1>3, <2>1, <2>2 DEF Home, r
<1> QED
  BY <1>2, <1>3 DEF Home

-----------------------------------------------------------------------------
(* The steps that change the queue.                                        *)

\* A step that leaves the workspace alone leaves what is said of it.
LEMMA WorkspaceSame ==
    ASSUME WorkspaceInv, UNCHANGED <<version, doc, home, pages, queue, stored>>
    PROVE  /\ QueueInv' /\ StoredInv' /\ FollowInv'
           /\ \A p \in Pages : pages'[p] # None => pages'[p] = Current'
           /\ Current' = Current
  BY DEF WorkspaceInv, ScreenInv, QueueInv, StoredInv, FollowInv, Current, NoStart,
         NoStartAfter, Queued, Kept

\* What is written waits at the end of the queue, and nothing is overtaken.
LEMMA WritesQueue ==
    ASSUME queue \in Seq(Transaction), NEW S, NEW t, Writes(S, t), stored' = stored
    PROVE  /\ \A p \in S : \E j \in DOMAIN queue' : Queued(p, j)'
           /\ \A p \in Pages \ S : Kept(p) => Kept(p)'
           /\ \A p, i : i \in DOMAIN queue /\ Queued(p, i) =>
                 i \in DOMAIN queue' /\ Queued(p, i)'
<1>1. /\ t \in Seq(Transaction) /\ queue' = queue \o t
      /\ \A i \in DOMAIN t : t[i].kind = "page"
      /\ \A p \in S : \E i \in DOMAIN t : t[i].page = p
      /\ pages' = [p \in Pages |-> IF p \in S THEN Current ELSE pages[p]]
  BY DEF Writes
<1>2. /\ NoStart' <=> NoStart
      /\ Len(queue) \in Nat /\ DOMAIN queue = 1 .. Len(queue)
      /\ \A i \in DOMAIN queue : /\ i \in DOMAIN queue' /\ queue'[i] = queue[i]
                                 /\ NoStartAfter(i)' <=> NoStartAfter(i)
      /\ \A i \in DOMAIN t : /\ Len(queue) + i \in DOMAIN queue'
                             /\ queue'[Len(queue) + i] = t[i]
                             /\ NoStartAfter(Len(queue) + i)'
      /\ \A j \in DOMAIN queue' : j \in DOMAIN queue \/
            \E i \in DOMAIN t : j = Len(queue) + i
  BY <1>1, QueueGrows
<1>3. ASSUME NEW p \in S PROVE \E j \in DOMAIN queue' : Queued(p, j)'
  <2>1. PICK i \in DOMAIN t : t[i].page = p
    BY <1>1
  <2>2. PICK j : j = Len(queue) + i
    OBVIOUS
  <2>3. j \in DOMAIN queue' /\ queue'[j] = t[i] /\ t[i].kind = "page" /\ i \in Nat
    BY <1>1, <1>2, <2>2
  <2>4. ASSUME NEW k \in DOMAIN queue', k > j PROVE queue'[k].kind = "page"
    <3>1. k \notin DOMAIN queue
      BY <1>2, <2>2, <2>3, <2>4
    <3> QED
      BY <1>1, <1>2, <3>1
  <2>5. NoStartAfter(j)'
    BY <2>4 DEF NoStartAfter
  <2> QED
    BY <2>1, <2>3, <2>5 DEF Queued
<1>4. ASSUME NEW p \in Pages \ S, Kept(p) PROVE Kept(p)'
  BY <1>1, <1>2, <1>4 DEF Kept
<1>5. ASSUME NEW p, NEW i, i \in DOMAIN queue, Queued(p, i)
      PROVE  i \in DOMAIN queue' /\ Queued(p, i)'
  BY <1>2, <1>5 DEF Queued
<1> QED
  BY <1>3, <1>4, <1>5

LEMMA WritesKeep ==
    ASSUME IInv, WorkspaceInv, home = "own", Current \in Value,
           NEW S, NEW t, Writes(S, t), UNCHANGED <<session, stored>>
    PROVE  /\ QueueInv' /\ StoredInv' /\ FollowInv'
           /\ \A p \in Pages : pages'[p] # None => pages'[p] = Current'
<1>1. /\ queue \in Seq(Transaction) /\ t \in Seq(Transaction) /\ queue' = queue \o t
      /\ \A i \in DOMAIN t : t[i].kind = "page" /\ t[i].page \in S /\ t[i].value = Current
      /\ \A p \in S : \E i \in DOMAIN t : t[i].page = p
      /\ pages' = [p \in Pages |-> IF p \in S THEN Current ELSE pages[p]]
      /\ S \subseteq Pages
  BY DEF IInv, StateInv, Writes
<1>2. /\ NoStart' <=> NoStart
      /\ Len(queue) \in Nat /\ DOMAIN queue = 1 .. Len(queue)
      /\ \A i \in DOMAIN queue : /\ i \in DOMAIN queue' /\ queue'[i] = queue[i]
                                 /\ NoStartAfter(i)' <=> NoStartAfter(i)
      /\ \A i \in DOMAIN t : /\ Len(queue) + i \in DOMAIN queue'
                             /\ queue'[Len(queue) + i] = t[i]
                             /\ NoStartAfter(Len(queue) + i)'
      /\ \A j \in DOMAIN queue' : j \in DOMAIN queue \/
            \E i \in DOMAIN t : j = Len(queue) + i
  BY <1>1, QueueGrows
<1>3. /\ version' = version /\ doc' = doc /\ home' = home /\ stored' = stored
      /\ Current' = Current /\ None \notin Value
  BY SessionAssumption DEF session, Current
<1>4. \A j \in DOMAIN queue' : \/ j \in DOMAIN queue /\ queue'[j] = queue[j]
                               \/ queue'[j].value = Current
  BY <1>1, <1>2
<1>5. Current.version = version /\ Current.doc = doc
  BY DEF Current
<1>6. QueueInv'
  <2>1. \A i \in DOMAIN queue' : queue'[i].value.version = version
    BY <1>4, <1>5 DEF WorkspaceInv, QueueInv
  <2>2. queue' \in Seq(Transaction) /\ Len(queue) <= Len(queue') /\ Len(queue') \in Nat
        /\ DOMAIN queue' = 1 .. Len(queue')
    BY <1>1, <1>2
  <2>3. ASSUME NEW n \in Nat, Len(queue) + 1 <= n
        PROVE  Home(queue', stored.open, n, doc)
    <3>1. \A k \in DOMAIN queue' : Len(queue) + 1 <= k => queue'[k].kind = "page"
      BY <1>1, <1>2
    <3>2. PICK m \in Nat : m = Len(queue) + 1
      BY <1>2
    <3>3. Home(queue, stored.open, m, doc)
      BY <3>2 DEF WorkspaceInv, QueueInv
    <3>4. /\ m <= n /\ m <= Len(queue) + 1
          /\ \A i \in DOMAIN queue : i \in DOMAIN queue' /\ queue'[i] = queue[i]
          /\ \A k \in DOMAIN queue' : m <= k /\ k < n => queue'[k].kind = "page"
      BY <1>2, <2>3, <3>1, <3>2
    <3> HIDE DEF Home
    <3> QED
      BY <1>1, <2>2, <3>3, <3>4, HomeIsKept
  <2>4. ASSUME NEW i \in DOMAIN queue', queue'[i].kind = "page"
        PROVE  Home(queue', stored.open, i, queue'[i].value.doc)
    <3>1. CASE i \in DOMAIN queue
      <4>1. Home(queue, stored.open, i, queue[i].value.doc) /\ queue'[i] = queue[i]
        BY <1>2, <2>4, <3>1 DEF WorkspaceInv, QueueInv
      <4>2. /\ i \in Nat /\ i <= i /\ i <= Len(queue) + 1
            /\ \A j \in DOMAIN queue : j \in DOMAIN queue' /\ queue'[j] = queue[j]
            /\ \A k \in DOMAIN queue' : i <= k /\ k < i => queue'[k].kind = "page"
        BY <1>2, <2>2, <3>1
      <4> HIDE DEF Home
      <4> QED
        BY <1>1, <2>2, <4>1, <4>2, HomeIsKept
    <3>2. CASE i \notin DOMAIN queue
      <4>1. queue'[i].value = Current /\ i \in Nat /\ Len(queue) + 1 <= i
        BY <1>2, <1>4, <2>2, <3>2
      <4> QED
        BY <1>5, <2>3, <4>1
    <3> QED
      BY <3>1, <3>2
  <2>5. Home(queue', stored.open, Len(queue') + 1, doc)
    BY <1>2, <2>2, <2>3
  <2> QED
    BY <1>3, <2>1, <2>4, <2>5 DEF QueueInv
<1>7. StoredInv'
  BY <1>3 DEF WorkspaceInv, StoredInv
<1>8. \A p \in Pages : /\ pages'[p] # None => pages'[p] = Current
                       /\ pages[p] # None => pages'[p] = pages[p]
                       /\ p \in S => pages'[p] = Current
                       /\ p \notin S => pages'[p] = pages[p]
  BY <1>1 DEF WorkspaceInv, ScreenInv
<1>9. FollowInv'
  <2>1. ASSUME NEW j \in DOMAIN queue', queue'[j].kind = "page", NoStartAfter(j)'
        PROVE  pages'[queue'[j].page] = queue'[j].value
    <3>1. CASE j \in DOMAIN queue
      <4>1. queue'[j] = queue[j] /\ NoStartAfter(j) /\ queue[j] \in Transaction
        BY <1>1, <1>2, <2>1, <3>1
      <4>2. pages[queue[j].page] = queue[j].value
        BY <2>1, <4>1, <3>1 DEF WorkspaceInv, FollowInv
      <4>3. queue[j].page \in Pages /\ queue[j].value # None
        BY <1>3, <2>1, <4>1 DEF Transaction
      <4> QED
        BY <1>8, <4>1, <4>2, <4>3
    <3>2. CASE \E i \in DOMAIN t : j = Len(queue) + i
      <4>1. PICK i \in DOMAIN t : j = Len(queue) + i
        BY <3>2
      <4>2. queue'[j] = t[i] /\ t[i].page \in S /\ t[i].value = Current
        BY <1>1, <1>2, <4>1
      <4> QED
        BY <1>1, <1>8, <4>2
    <3> QED
      BY <1>2, <3>1, <3>2
  <2>2. NoStart' /\ stored.open.version = version =>
          \A p \in Pages : stored.pages[p] # None => stored.pages[p] = pages'[p]
    BY <1>2, <1>8 DEF WorkspaceInv, FollowInv
  <2>3. ASSUME NEW p \in Pages, pages'[p] # None, ~WritesMayFail
        PROVE  Kept(p)' \/ \E i \in DOMAIN queue' : Queued(p, i)'
    <3>1. CASE p \in S
      BY <1>1, <1>3, <3>1, WritesQueue
    <3>2. CASE p \notin S
      <4>1. pages[p] # None /\ pages'[p] = pages[p]
        BY <1>8, <2>3, <3>2
      <4>2. Kept(p) \/ \E i \in DOMAIN queue : Queued(p, i)
        BY <2>3, <4>1 DEF WorkspaceInv, FollowInv
      <4> QED
        BY <1>1, <1>3, <3>2, <4>2, WritesQueue
    <3> QED
      BY <3>1, <3>2
  <2> QED
    BY <1>3, <2>1, <2>2, <2>3 DEF FollowInv
<1> QED
  BY <1>3, <1>6, <1>7, <1>8, <1>9

\* The first write is stored, the others move up.
LEMMA CommitQueue ==
    ASSUME IInv, WorkspaceInv, home = "own", Commit,
           NEW p \in Pages, pages[p] # None
    PROVE  /\ Kept(p) => Kept(p)'
           /\ \A i \in DOMAIN queue : Queued(p, i) =>
                 \/ Kept(p)'
                 \/ i # 1 /\ i - 1 \in DOMAIN queue' /\ Queued(p, i - 1)'
<1> DEFINE w == queue[1]
<1>1. /\ queue \in Seq(Transaction) /\ queue # <<>> /\ queue' = Tail(queue) /\ pages' = pages
  BY DEF IInv, StateInv, Commit, Dequeue
<1>2. /\ 1 \in DOMAIN queue /\ Head(queue) = queue[1]
      /\ NoStart' <=> NoStartAfter(1)
      /\ \A i \in DOMAIN queue : i # 1 =>
            /\ i - 1 \in DOMAIN queue' /\ queue'[i - 1] = queue[i]
            /\ NoStartAfter(i - 1)' <=> NoStartAfter(i)
  BY <1>1, QueueShrinks
<1>3. w \in Transaction /\ (w.kind = "page" => w.page \in Pages)
  BY <1>1, <1>2 DEF Transaction
<1>4. w.kind = "page" =>
        /\ w.page = p => stored'.pages[p] = w.value
        /\ w.page # p => stored'.pages[p] = stored.pages[p]
  BY <1>2, <1>3 DEF Commit, IInv, StateInv
<1>5. w.kind = "page" /\ NoStartAfter(1) => pages[w.page] = w.value
  BY <1>2 DEF WorkspaceInv, FollowInv
<1>6. ASSUME Kept(p) PROVE Kept(p)'
  <2>1. w.kind = "page" /\ NoStartAfter(1)
    BY <1>2, <1>6 DEF Kept, NoStart, NoStartAfter
  <2> QED
    BY <1>1, <1>2, <1>4, <1>5, <1>6, <2>1 DEF Kept
<1>7. ASSUME Queued(p, 1) PROVE Kept(p)'
  BY <1>1, <1>2, <1>4, <1>5, <1>7 DEF Kept, Queued
<1>8. ASSUME NEW i \in DOMAIN queue, i # 1, Queued(p, i)
      PROVE  i - 1 \in DOMAIN queue' /\ Queued(p, i - 1)'
  <2>1. PICK j : j = i - 1
    OBVIOUS
  <2>2. j \in DOMAIN queue' /\ queue'[j] = queue[i] /\ NoStartAfter(i - 1)'
    BY <1>2, <1>8, <2>1 DEF Queued
  <2> QED
    BY <1>2, <1>8 DEF Queued
<1> QED
  BY <1>6, <1>7, <1>8

\* The first transaction is over.
LEMMA CommitsKeep ==
    ASSUME IInv, WorkspaceInv, Commit \/ CommitFails
    PROVE  /\ QueueInv' /\ StoredInv' /\ FollowInv'
<1> DEFINE w == queue[1]
<1>1. /\ queue \in Seq(Transaction) /\ queue # <<>> /\ queue' = Tail(queue)
      /\ UNCHANGED <<version, doc, home, pages>>
      /\ None \notin Value
  BY SessionAssumption DEF IInv, StateInv, Commit, CommitFails, Dequeue, session
<1>2. /\ DOMAIN queue = 1 .. Len(queue) /\ Len(queue) \in Nat /\ 1 \in DOMAIN queue
      /\ Head(queue) = queue[1] /\ Len(queue') = Len(queue) - 1
      /\ DOMAIN queue' = 1 .. Len(queue')
      /\ NoStart' <=> NoStartAfter(1)
      /\ \A i \in DOMAIN queue' : /\ i \in Nat /\ i + 1 \in DOMAIN queue
                                  /\ queue'[i] = queue[i + 1]
                                  /\ NoStartAfter(i)' <=> NoStartAfter(i + 1)
      /\ \A i \in DOMAIN queue : i # 1 =>
            /\ i - 1 \in DOMAIN queue' /\ queue'[i - 1] = queue[i]
            /\ NoStartAfter(i - 1)' <=> NoStartAfter(i)
  BY <1>1, QueueShrinks
<1>3. /\ version' = version /\ doc' = doc /\ home' = home
      /\ pages' = pages /\ Current' = Current
  BY <1>1 DEF Current
<1>4. w \in Transaction /\ w.value \in Value /\ w.value.version = version
      /\ version \in Nat
  BY <1>1, <1>2 DEF Transaction, WorkspaceInv, QueueInv, IInv, StateInv
<1>5. w.kind = "page" => w.page \in Pages
  BY <1>4 DEF Transaction
<1>6. \/ w.kind = "page" /\ stored' = stored /\ WritesMayFail
      \/ w.kind = "page" /\ stored' = [stored EXCEPT !.pages[w.page] = w.value]
      \/ w.kind # "page" /\ stored' = [open |-> w.value, pages |-> NoPages]
  BY <1>2 DEF Commit, CommitFails
<1>7. stored \in [open : Value \cup {None}, pages : [Pages -> Value \cup {None}]]
  BY DEF IInv, StateInv
<1>8. \/ /\ w.kind = "page"
         /\ stored'.open = stored.open
         /\ \A p \in Pages : \/ stored'.pages[p] = stored.pages[p] /\ (WritesMayFail \/ p # w.page)
                             \/ p = w.page /\ stored'.pages[p] = w.value
      \/ /\ w.kind # "page" /\ stored'.open = w.value /\ stored'.pages = NoPages
  BY <1>4, <1>5, <1>6, <1>7
<1>9. w.kind = "page" => stored.open # None /\ w.value.doc = stored.open.doc
  <2>1. w.kind = "page" => Home(queue, stored.open, 1, w.value.doc)
    BY <1>2 DEF WorkspaceInv, QueueInv
  <2>2. \A j \in DOMAIN queue : ~(j < 1)
    BY <1>2
  <2> QED
    BY <2>1, <2>2 DEF Home
<1>10. stored'.open = IF w.kind = "page" THEN stored.open ELSE w.value
  BY <1>8
<1>11. QueueInv'
  <2>1. \A i \in DOMAIN queue' : queue'[i].value.version = version
    BY <1>2 DEF WorkspaceInv, QueueInv
  <2>2. ASSUME NEW n \in Nat, n > 0, NEW d, Home(queue, stored.open, n + 1, d)
        PROVE  Home(queue', stored'.open, n, d)
    <3>1. PICK m \in Nat : m = n + 1
      OBVIOUS
    <3>2. Home(queue, stored.open, m, d) /\ m > 1 /\ m - 1 = n /\ queue[1].value # None
      BY <1>1, <1>4, <2>2, <3>1
    <3> HIDE DEF Home
    <3>3. Home(Tail(queue), stored'.open, m - 1, d)
      BY <1>1, <1>10, <3>2, HomeMovesUp
    <3> QED
      BY <1>1, <3>2, <3>3
  <2>3. ASSUME NEW i \in DOMAIN queue', queue'[i].kind = "page"
        PROVE  Home(queue', stored'.open, i, queue'[i].value.doc)
    <3>1. /\ i \in Nat /\ i > 0 /\ i + 1 \in DOMAIN queue /\ queue'[i] = queue[i + 1]
      BY <1>2
    <3>2. Home(queue, stored.open, i + 1, queue'[i].value.doc)
      BY <2>3, <3>1 DEF WorkspaceInv, QueueInv
    <3> QED
      BY <2>2, <3>1, <3>2
  <2>4. home = "own" => Home(queue', stored'.open, Len(queue') + 1, doc)
    <3> DEFINE n == Len(queue)
    <3>1. n \in Nat /\ n > 0 /\ n = Len(queue') + 1
      BY <1>2
    <3>2. home = "own" => Home(queue, stored.open, n + 1, doc)
      BY DEF WorkspaceInv, QueueInv
    <3> HIDE DEF n
    <3> QED
      BY <2>2, <3>1, <3>2
  <2> QED
    BY <1>3, <2>1, <2>3, <2>4 DEF QueueInv
<1>12. StoredInv'
  <2>1. stored'.open # None => stored'.open.version <= version
    BY <1>4, <1>8 DEF WorkspaceInv, StoredInv
  <2>2. ASSUME NEW p \in Pages, stored'.pages[p] # None
        PROVE  /\ stored'.open # None /\ stored'.pages[p].doc = stored'.open.doc
               /\ stored'.open.version <= stored'.pages[p].version
               /\ stored'.pages[p].version <= version
    <3>1. w.kind = "page" /\ stored'.open = stored.open
      BY <1>8, <2>2 DEF NoPages
    <3>2. stored.open # None /\ w.value.doc = stored.open.doc
      BY <1>9, <3>1
    <3>3. CASE stored'.pages[p] = stored.pages[p]
      BY <2>2, <3>1, <3>3 DEF WorkspaceInv, StoredInv
    <3>4. CASE stored'.pages[p] = w.value
      BY <1>4, <3>1, <3>2, <3>4 DEF WorkspaceInv, StoredInv
    <3> QED
      BY <1>8, <3>1, <3>3, <3>4
  <2> QED
    BY <1>3, <2>1, <2>2 DEF StoredInv
<1>13. FollowInv'
  <2>1. SUFFICES ASSUME home = "own" PROVE FollowInv'
    BY <1>3 DEF FollowInv
  <2>2. /\ \A i \in DOMAIN queue : queue[i].kind = "page" /\ NoStartAfter(i) =>
             pages[queue[i].page] = queue[i].value
        /\ NoStart /\ stored.open.version = version =>
             \A p \in Pages : stored.pages[p] # None => stored.pages[p] = pages[p]
        /\ \A p \in Pages : pages[p] # None =>
             WritesMayFail \/ Kept(p) \/ \E i \in DOMAIN queue : Queued(p, i)
    BY <2>1 DEF WorkspaceInv, FollowInv
  <2>3. \A i \in DOMAIN queue' : queue'[i].kind = "page" /\ NoStartAfter(i)' =>
             pages[queue'[i].page] = queue'[i].value
    BY <1>2, <2>2
  <2>4. w.kind = "page" /\ NoStart' => NoStart /\ pages[w.page] = w.value
    <3>1. w.kind = "page" /\ NoStart' => NoStart
      BY <1>2 DEF NoStart, NoStartAfter
    <3> QED
      BY <1>2, <2>2, <3>1
  <2>5. NoStart' /\ stored'.open.version = version =>
             \A p \in Pages : stored'.pages[p] # None => stored'.pages[p] = pages[p]
    BY <1>8, <2>2, <2>4 DEF NoPages
  <2>6. ASSUME NEW p \in Pages, pages[p] # None, ~WritesMayFail
        PROVE  Kept(p)' \/ \E i \in DOMAIN queue' : Queued(p, i)'
    <3>1. Commit
      BY <2>6 DEF CommitFails
    <3>2. /\ Kept(p) => Kept(p)'
          /\ \A i \in DOMAIN queue : Queued(p, i) =>
                \/ Kept(p)'
                \/ i # 1 /\ i - 1 \in DOMAIN queue' /\ Queued(p, i - 1)'
      BY <2>1, <2>6, <3>1, CommitQueue
    <3>3. CASE Kept(p)
      BY <3>2, <3>3
    <3>4. CASE \E i \in DOMAIN queue : Queued(p, i)
      <4>1. PICK i \in DOMAIN queue : Queued(p, i)
        BY <3>4
      <4>2. PICK j : j = i - 1
        OBVIOUS
      <4>3. Kept(p)' \/ (j \in DOMAIN queue' /\ Queued(p, i - 1)')
        BY <3>2, <4>1, <4>2
      <4> QED
        BY <4>2, <4>3 DEF Queued
    <3> QED
      BY <2>2, <2>6, <3>3, <3>4
  <2> QED
    BY <1>3, <2>3, <2>5, <2>6 DEF FollowInv
<1> QED
  BY <1>11, <1>12, <1>13

\* A workspace is started after all that waits, for a screen that is empty.
LEMMA StartKeeps ==
    ASSUME IInv, WorkspaceInv, NEW kind \in {"open", "cancel"}, NEW d \in Docs,
           queue' = StartWorkspace(kind, d), UNCHANGED <<version, doc, stored>>,
           home' = "own" => d = doc /\ pages' = NoPages
    PROVE  QueueInv' /\ StoredInv' /\ FollowInv'
<1> DEFINE t == [kind |-> kind, value |-> [doc |-> d, version |-> version]]
<1>1. /\ t.kind # "page" /\ t.value.doc = d /\ t.value.version = version
      /\ queue' = Append(queue, t)
      /\ queue \in Seq(Transaction) /\ queue' \in Seq(Transaction)
  BY StartWorkspaceQueued DEF StartWorkspace, IInv, StateInv
<1> HIDE DEF t, Transaction
<1>2. /\ Len(queue) \in Nat /\ DOMAIN queue = 1 .. Len(queue)
      /\ Len(queue') = Len(queue) + 1 /\ DOMAIN queue' = 1 .. (Len(queue) + 1)
      /\ queue'[Len(queue) + 1] = t /\ \A i \in DOMAIN queue : queue'[i] = queue[i]
  BY <1>1
<1>3. PICK n \in Nat : n = Len(queue) + 1
  BY <1>2
<1>4. n \in DOMAIN queue' /\ queue'[n] = t /\ Len(queue') = n
  BY <1>2, <1>3
<1>5. \A i \in DOMAIN queue' : i = n \/ (i \in DOMAIN queue /\ i < n /\ queue'[i] = queue[i])
  BY <1>2, <1>3
<1>6. QueueInv'
  <2>1. \A i \in DOMAIN queue' : queue'[i].value.version = version
    BY <1>1, <1>4, <1>5 DEF WorkspaceInv, QueueInv
  <2>2. ASSUME NEW i \in DOMAIN queue', queue'[i].kind = "page"
        PROVE  Home(queue', stored.open, i, queue'[i].value.doc)
    <3>1. i \in DOMAIN queue /\ queue'[i] = queue[i]
      BY <1>1, <1>4, <1>5, <2>2
    <3>2. Home(queue, stored.open, i, queue'[i].value.doc)
      BY <2>2, <3>1 DEF WorkspaceInv, QueueInv
    <3>3. /\ i \in Nat /\ i <= i /\ i <= Len(queue) + 1
          /\ \A j \in DOMAIN queue : j \in DOMAIN queue' /\ queue'[j] = queue[j]
          /\ \A k \in DOMAIN queue' : i <= k /\ k < i => queue'[k].kind = "page"
      BY <1>2, <3>1
    <3> HIDE DEF Home
    <3> QED
      BY <1>1, <3>2, <3>3, HomeIsKept
  <2>3. Home(queue', stored.open, Len(queue') + 1, d)
    <3>1. n < Len(queue') + 1 /\ \A k \in DOMAIN queue' : ~(n < k)
      BY <1>2, <1>3
    <3> QED
      BY <1>1, <1>4, <3>1 DEF Home
  <2> QED
    BY <2>1, <2>2, <2>3 DEF QueueInv
<1>7. StoredInv'
  BY DEF WorkspaceInv, StoredInv
<1>8. FollowInv'
  <2>1. ASSUME NEW i \in DOMAIN queue', queue'[i].kind = "page" PROVE ~NoStartAfter(i)'
    <3>1. i < n /\ i \in Nat
      BY <1>1, <1>2, <1>4, <1>5, <2>1
    <3> QED
      BY <1>1, <1>4, <3>1 DEF NoStartAfter
  <2>2. ~NoStart'
    BY <1>1, <1>4 DEF NoStart
  <2> QED
    BY <2>1, <2>2 DEF FollowInv, NoPages
<1> QED
  BY <1>6, <1>7, <1>8

\* One PDF takes the place of another, or of the welcome page, while no run works, or
\* its workspace is started.
LEMMA OpeningKeeps ==
    ASSUME IInv, WorkspaceInv, home # "mixed", home' # "mixed", NEW d \in Docs,
           OpenFile(d) \/ OpenPrepared(d) \/ OpenFails(d)
    PROVE  WorkspaceInv'
<1>1. /\ version' = version /\ stored' = stored /\ run' = run /\ active' = active
      /\ \A a \in Runs : Active(a)' <=> Active(a)
  BY DEF OpenFile, OpenPrepared, OpenFails, session, Active
<1>2. CASE OpenFile(d)
  <2>1. /\ ~Working /\ home' = "other" /\ pages' = NoPages /\ queue' = queue
    BY <1>2 DEF OpenFile
  <2>2. ScreenInv'
    BY <1>1, <2>1 DEF ScreenInv, NoPages, Working
  <2>3. QueueInv' /\ StoredInv' /\ FollowInv'
    BY <1>1, <2>1 DEF WorkspaceInv, QueueInv, StoredInv, FollowInv
  <2> QED
    BY <2>2, <2>3 DEF WorkspaceInv
<1>3. CASE OpenPrepared(d)
  <2>1. /\ pages' = pages /\ doc' = doc /\ queue' = StartWorkspace("open", d)
        /\ \/ home' = "own" /\ d = doc /\ pages' = NoPages
           \/ home' = "other" /\ ~Working
    BY <1>3 DEF OpenPrepared
  <2>2. Current' = Current
    BY <1>1, <2>1 DEF Current
  <2>3. ScreenInv'
    BY <1>1, <2>1, <2>2 DEF WorkspaceInv, ScreenInv, Working
  <2>4. QueueInv' /\ StoredInv' /\ FollowInv'
    BY <1>1, <2>1, StartKeeps
  <2> QED
    BY <2>3, <2>4 DEF WorkspaceInv
<1>4. CASE OpenFails(d)
  <2>1. UNCHANGED <<version, doc, home, pages, queue, stored>>
    BY <1>4 DEF OpenFails, session
  <2>2. /\ QueueInv' /\ StoredInv' /\ FollowInv' /\ Current' = Current
        /\ \A p \in Pages : pages'[p] # None => pages'[p] = Current'
    BY <2>1, WorkspaceSame
  <2> QED
    BY <1>1, <2>1, <2>2 DEF WorkspaceInv, ScreenInv
<1> QED
  BY <1>2, <1>3, <1>4

LEMMA RestoreKeeps ==
    ASSUME IInv, WorkspaceInv, Restore
    PROVE  WorkspaceInv'
<1>1. /\ ~active /\ queue = <<>> /\ stored.open # None /\ doc' = stored.open.doc
      /\ pages' = IF stored.open.version = version THEN stored.pages ELSE NoPages
      /\ version' = version /\ run' = run /\ queue' = queue /\ stored' = stored
  BY DEF Restore
<1>2. queue' = <<>> /\ DOMAIN queue' = {} /\ \A a \in Runs : ~Active(a)'
  BY <1>1 DEF WorkspaceInv, ScreenInv, Active
<1>3. ASSUME NEW p \in Pages, pages'[p] # None
      PROVE  pages'[p] = Current' /\ stored.pages[p] = pages'[p]
  <2>1. stored.open.version = version /\ pages'[p] = stored.pages[p]
    BY <1>1, <1>3 DEF NoPages
  <2>2. stored.pages[p] \in Value /\ version \in Nat
    BY <1>3, <2>1 DEF IInv, StateInv
  <2>3. stored.pages[p].doc = doc' /\ stored.pages[p].version = version'
    BY <1>1, <1>3, <2>1, <2>2 DEF WorkspaceInv, StoredInv, Value
  <2> QED
    BY <2>1, <2>2, <2>3 DEF Current, Value
<1>4. ScreenInv'
  BY <1>2, <1>3 DEF ScreenInv
<1>5. QueueInv'
  BY <1>1, <1>2 DEF QueueInv, Home
<1>6. StoredInv'
  BY <1>1 DEF WorkspaceInv, StoredInv
<1>7. FollowInv'
  <2>1. NoStart'
    BY <1>2 DEF NoStart
  <2>2. \A p \in Pages : pages'[p] # None => Kept(p)'
    BY <1>1, <1>3, <2>1 DEF Kept
  <2>3. stored.open.version = version => \A p \in Pages : stored.pages[p] = pages'[p]
    BY <1>1
  <2> QED
    BY <1>1, <1>2, <2>2, <2>3 DEF FollowInv
<1> QED
  BY <1>4, <1>5, <1>6, <1>7 DEF WorkspaceInv

LEMMA ReloadKeeps ==
    ASSUME IInv, WorkspaceInv, home # "mixed", Reload
    PROVE  WorkspaceInv'
<1>1. /\ version' \in version .. MaxVersion /\ pages' = NoPages /\ home' = "other"
      /\ queue' = <<>> /\ stored' = stored
      /\ \A a \in Runs : run'[a] = IF Active(a) THEN Gone ELSE run[a]
  BY DEF Reload, Gone
<1>2. \A a \in Runs : ~Active(a)'
  BY <1>1, GoneIsSound DEF Active
<1>3. /\ version \in Nat /\ version' \in Nat /\ version <= version'
      /\ stored.open # None => stored.open.version \in Nat
      /\ \A p \in Pages : stored.pages[p] # None => stored.pages[p].version \in Nat
  BY <1>1, SessionAssumption DEF IInv, StateInv, Value
<1>4. ScreenInv'
  BY <1>1, <1>2 DEF ScreenInv, NoPages
<1>5. DOMAIN queue' = {}
  BY <1>1
<1>6. QueueInv'
  BY <1>1, <1>5 DEF QueueInv
<1>7. StoredInv'
  BY <1>1, <1>3 DEF WorkspaceInv, StoredInv
<1>8. FollowInv'
  BY <1>1 DEF FollowInv
<1> QED
  BY <1>4, <1>6, <1>7, <1>8 DEF WorkspaceInv

-----------------------------------------------------------------------------
(* What a step of a run does to its work, the screen and the queue.        *)

\* The run is given other pages to work on.
Regroups(r, s) ==
    /\ s.wanted = r.wanted /\ s.failed = r.failed /\ r.retried \subseteq s.retried
    /\ s.stopped = r.stopped /\ s.alone = r.alone /\ s.source = Current
    /\ s.pc \in {"browser", "companion"}
    /\ s.todo \subseteq r.todo
    /\ r.todo \subseteq s.todo \cup s.batch \cup s.sub
    /\ r.pc # "persisting" => r.batch \subseteq s.todo \cup s.batch \cup s.sub
    /\ r.pc = "browser" => r.sub = {}
    /\ s.pc = "companion" => r.pc = "persisting" /\ s.sub = r.sub

SameWork(r, s) ==
    /\ s.wanted = r.wanted /\ s.todo = r.todo /\ s.batch = r.batch
    /\ s.retried = r.retried /\ s.source = r.source /\ s.stopped = r.stopped
    /\ s.alone = r.alone

\* A page could not be extracted.
Loses(r, s) ==
    /\ SameWork(r, s) /\ r.pc = "browser" /\ s.pc = "browser"
    /\ \E p \in r.sub : s.sub = r.sub \ {p} /\ s.failed = r.failed \cup {p}

\* The run waits for something, or has waited for it.
Proceeds(r, s) ==
    /\ SameWork(r, s) /\ s.sub = r.sub /\ s.failed = r.failed
    /\ \/ /\ s.pc = "settling" /\ s.waits = LastWrite(queue)
          /\ \/ r.pc = "acknowledging"
             \/ /\ r.pc = "browser" /\ r.sub = {} /\ r.batch = {}
                /\ r.failed \subseteq r.retried
       \/ /\ r.pc = "confirming" /\ s.pc = "acknowledging"
          /\ r.waits = 0 /\ ~checkpointError
       \/ /\ r.pc = "settling" /\ s.pc = "persisting"
          /\ r.waits = 0 /\ ~checkpointError
       \/ r.pc = "persisting" /\ s.pc = "finishing" /\ running /\ r.todo = {}

\* Pages have come, which are shown and queued.
Shows(r, s) ==
    /\ SameWork(r, s) /\ s.failed = r.failed
    /\ \E S, t : /\ Writes(S, t)
                 /\ \/ /\ r.pc = "browser" /\ s.pc = "browser"
                       /\ S \subseteq r.sub /\ s.sub = r.sub \ S
                    \/ /\ r.pc = "companion" /\ s.pc = "confirming"
                       /\ s.sub = r.sub /\ S = r.batch /\ s.waits = LastWrite(queue')

Moves(r, s) ==
    \/ UNCHANGED <<pages, queue>> /\ (s = Gone \/ Regroups(r, s) \/ Loses(r, s) \/ Proceeds(r, s))
    \/ Shows(r, s)

\* The pages of a batch, in order, are all of them.
LEMMA OrderedCovers ==
    ASSUME NEW S \in SUBSET Pages, NEW s \in Ordered(S)
    PROVE  /\ Cardinality(S) \in Nat /\ DOMAIN s = 1 .. Cardinality(S)
           /\ \A i \in DOMAIN s : s[i] \in S
           /\ \A p \in S : \E i \in DOMAIN s : s[i] = p
<1>1. IsFiniteSet(S) /\ Cardinality(S) \in Nat /\ S \subseteq Nat
  BY SessionAssumption, FS_Subset, FS_CardinalityType
<1> DEFINE N == 1 .. Cardinality(S)
<1>2. s \in [N -> S] /\ \A i, j \in N : i < j => s[i] < s[j]
  BY DEF Ordered
<1>3. \A i, j \in N : s[i] = s[j] => i = j
  <2> SUFFICES ASSUME NEW i \in N, NEW j \in N, i # j PROVE s[i] # s[j]
    OBVIOUS
  <2>1. s[i] \in Nat /\ s[j] \in Nat
    <3>1. s[i] \in S /\ s[j] \in S
      BY <1>2
    <3> QED
      BY <1>1, <3>1
  <2>2. i \in Nat /\ j \in Nat
    BY <1>1
  <2>3. i < j \/ j < i
    BY <2>2
  <2> QED
    BY <1>2, <2>1, <2>3
<1>4. IsFiniteSet(N) /\ Cardinality(N) = Cardinality(S)
  BY <1>1, FS_Interval
<1> HIDE DEF N
<1>5. s \in Injection(N, S)
  BY <1>2, <1>3 DEF Injection, IsInjective
<1>6. s \in Surjection(N, S)
  BY <1>1, <1>4, <1>5, FS_Injection
<1>7. \A p \in S : \E i \in N : s[i] = p
  BY <1>6 DEF Surjection
<1> QED
  BY <1>1, <1>2, <1>7 DEF N

LEMMA RunMoves ==
    ASSUME IInv, ScreenInv, NEW a \in Runs, RunStep(a)
    PROVE  /\ Active(a) /\ UNCHANGED <<session, opening, stored, checkpointError, latest>>
           /\ \E s : run' = [run EXCEPT ![a] = s] /\ Moves(run[a], s)
<1> DEFINE r == run[a]
<1>1. r \in RunType /\ Parts(r) /\ run \in [Runs -> RunType] /\ queue \in Seq(Transaction)
  BY DEF IInv, RunsInv, RunInv, StateInv
<1>2. Active(a) /\ UNCHANGED <<session, opening, stored, checkpointError, latest>>
  BY DEF RunStep, Resume, Proceed, WorkerPage, WorkerPageFails, WorkerDone,
         WorkerCrash, CompanionAnswers, TakeResult, CompanionFails, CompanionStops,
         Confirm, ConfirmFails, Acknowledged, Settle, Persisted, Finish, Active
<1>3. Current \in Value /\ r.source = Current
  BY <1>2, CurrentIsValue DEF ScreenInv
<1>4. End(a) /\ UNCHANGED <<pages, queue>> =>
        \E s : run' = [run EXCEPT ![a] = s] /\ Moves(r, s)
  BY DEF End, Moves, Gone
<1>5. ASSUME NEW pc, NEW w, UNCHANGED <<pages, queue>>,
             run' = [run EXCEPT ![a].pc = pc, ![a].waits = w],
             \/ /\ pc = "settling" /\ w = LastWrite(queue)
                /\ \/ r.pc = "acknowledging"
                   \/ /\ r.pc = "browser" /\ r.sub = {} /\ r.batch = {}
                      /\ r.failed \subseteq r.retried
             \/ /\ r.pc = "confirming" /\ pc = "acknowledging"
                /\ r.waits = 0 /\ ~checkpointError
             \/ /\ r.pc = "settling" /\ pc = "persisting"
                /\ r.waits = 0 /\ ~checkpointError
             \/ r.pc = "persisting" /\ pc = "finishing" /\ running /\ r.todo = {}
      PROVE  \E s : run' = [run EXCEPT ![a] = s] /\ Moves(r, s)
  <2> DEFINE s == [r EXCEPT !.pc = pc, !.waits = w]
  <2>1. run' = [run EXCEPT ![a] = s]
    BY <1>1, <1>5
  <2>2. /\ SameWork(r, s) /\ s.sub = r.sub /\ s.failed = r.failed
        /\ s.pc = pc /\ s.waits = w
    BY <1>1 DEF RunType, SameWork
  <2> HIDE DEF s
  <2>3. Proceeds(r, s)
    BY <1>5, <2>2 DEF Proceeds
  <2> QED
    BY <1>5, <2>1, <2>3 DEF Moves
<1>6. ASSUME NEW pc, UNCHANGED <<pages, queue>>, run' = [run EXCEPT ![a].pc = pc],
             \/ /\ r.pc = "confirming" /\ pc = "acknowledging"
                /\ r.waits = 0 /\ ~checkpointError
             \/ /\ r.pc = "settling" /\ pc = "persisting"
                /\ r.waits = 0 /\ ~checkpointError
             \/ r.pc = "persisting" /\ pc = "finishing" /\ running /\ r.todo = {}
      PROVE  \E s : run' = [run EXCEPT ![a] = s] /\ Moves(r, s)
  <2>1. run' = [run EXCEPT ![a].pc = pc, ![a].waits = r.waits]
    BY <1>1, <1>6 DEF RunType
  <2>2. PICK w : w = r.waits
    OBVIOUS
  <2> QED
    BY <1>5, <1>6, <2>1, <2>2
<1>7. CASE WorkerPage(a)
  <2>1. PICK p \in First(1, r.sub) :
          /\ pages' = [pages EXCEPT ![p] = r.source]
          /\ queue' = Append(queue, SavePage(p, r.source))
          /\ run' = [run EXCEPT ![a].sub = @ \ {p}]
    BY <1>7 DEF WorkerPage
  <2>2. r.pc = "browser" /\ p \in r.sub /\ p \in Pages
    BY <1>1, <1>7, FirstIsPart DEF WorkerPage, RunType
  <2> DEFINE e == SavePage(p, Current)
             t == <<e>>
             s == [r EXCEPT !.sub = r.sub \ {p}]
  <2>3. e \in Transaction /\ e.kind = "page" /\ e.page = p /\ e.value = Current
    BY <1>3, <2>2, SavePageIsTransaction DEF SavePage
  <2>4. queue' = Append(queue, e)
    BY <1>3, <2>1, <2>2
  <2> HIDE DEF e
  <2>5. /\ t \in Seq(Transaction) /\ DOMAIN t = {1} /\ t[1] = e /\ queue' = queue \o t
    BY <1>1, <2>3, <2>4
  <2>6. pages' = [q \in Pages |-> IF q \in {p} THEN Current ELSE pages[q]]
    BY <1>3, <2>1, <2>2 DEF IInv, StateInv
  <2> HIDE DEF t
  <2>7. Writes({p}, t)
    BY <2>2, <2>3, <2>5, <2>6 DEF Writes
  <2>8. run' = [run EXCEPT ![a] = s]
    BY <1>1, <2>1
  <2>9. SameWork(r, s) /\ s.failed = r.failed /\ s.pc = "browser" /\ s.sub = r.sub \ {p}
    BY <1>1, <2>2 DEF SameWork, RunType
  <2> HIDE DEF s
  <2>10. Shows(r, s)
    <3>1. {p} \subseteq r.sub
      BY <2>2
    <3> QED
      BY <2>2, <2>7, <2>9, <3>1 DEF Shows
  <2> QED
    BY <1>2, <2>8, <2>10 DEF Moves
<1>8. CASE WorkerPageFails(a)
  <2>1. PICK p \in First(1, r.sub) :
          run' = [run EXCEPT ![a].sub = @ \ {p}, ![a].failed = @ \cup {p}]
    BY <1>8 DEF WorkerPageFails
  <2>2. r.pc = "browser" /\ p \in r.sub /\ UNCHANGED <<pages, queue>>
    BY <1>1, <1>8, FirstIsPart DEF WorkerPageFails
  <2> DEFINE s == [r EXCEPT !.sub = r.sub \ {p}, !.failed = r.failed \cup {p}]
  <2>3. run' = [run EXCEPT ![a] = s]
    BY <1>1, <2>1
  <2>4. SameWork(r, s) /\ s.pc = "browser" /\ s.sub = r.sub \ {p} /\ s.failed = r.failed \cup {p}
    BY <1>1, <2>2 DEF SameWork, RunType
  <2> HIDE DEF s
  <2>5. Loses(r, s)
    BY <2>2, <2>4 DEF Loses
  <2> QED
    BY <1>2, <2>2, <2>3, <2>5 DEF Moves
<1>9. CASE WorkerDone(a)
  <2> DEFINE retry == r.failed \ r.retried
  <2>1. r.pc = "browser" /\ r.sub = {} /\ UNCHANGED <<pages, queue>>
    BY <1>9 DEF WorkerDone
  <2>2. CASE r.batch # {}
    <3> DEFINE s == BrowserBatches(r)
    <3>1. run' = [run EXCEPT ![a] = s]
      BY <1>9, <2>2 DEF WorkerDone
    <3>2. /\ Parts(s) /\ Keeps(s, r) /\ s.pc = "browser" /\ s.source = Current
          /\ s.todo = r.todo /\ s.batch \cup s.sub = r.batch
      BY <1>1, <1>3, BrowserBatchesParts
    <3> HIDE DEF s
    <3>3. Regroups(r, s)
      BY <2>1, <3>2 DEF Regroups, Keeps
    <3> QED
      BY <1>2, <2>1, <3>1, <3>3 DEF Moves
  <2>3. CASE r.batch = {} /\ retry # {}
    <3> DEFINE s == [r EXCEPT !.retried = r.retried \cup retry, !.pc = "browser",
                              !.sub = retry, !.source = Current]
    <3>1. run' = [run EXCEPT ![a] = s]
      BY <1>1, <1>9, <2>3 DEF WorkerDone, Work, RunType
    <3>2. /\ s.wanted = r.wanted /\ s.failed = r.failed /\ s.retried = r.retried \cup retry
          /\ s.stopped = r.stopped /\ s.alone = r.alone /\ s.source = Current /\ s.pc = "browser"
          /\ s.todo = r.todo /\ s.batch = r.batch
      BY <1>1 DEF RunType
    <3> HIDE DEF s
    <3>3. Regroups(r, s)
      BY <2>1, <2>3, <3>2 DEF Regroups
    <3> QED
      BY <1>2, <2>1, <3>1, <3>3 DEF Moves
  <2>4. CASE r.batch = {} /\ retry = {}
    <3>1. run' = [run EXCEPT ![a].pc = "settling", ![a].waits = LastWrite(queue)]
      BY <1>9, <2>4 DEF WorkerDone, Await
    <3>2. PICK w : w = LastWrite(queue)
      OBVIOUS
    <3>3. r.failed \subseteq r.retried
      BY <2>4
    <3> QED
      BY <1>2, <1>5, <2>1, <2>4, <3>1, <3>2, <3>3
  <2> QED
    BY <2>2, <2>3, <2>4
<1>10. CASE WorkerCrash(a) \/ CompanionStops(a) \/ Finish(a)
  BY <1>2, <1>4, <1>10 DEF WorkerCrash, CompanionStops, Finish
<1>11. CASE CompanionAnswers(a)
  <2>1. /\ r.pc = "companion" /\ ~r.aborted
        /\ pages' = [p \in Pages |-> IF p \in r.batch THEN r.source ELSE pages[p]]
        /\ \E o \in Ordered(r.batch) :
             queue' = queue \o [i \in DOMAIN o |-> SavePage(o[i], r.source)]
        /\ run' = [run EXCEPT ![a].pc = "confirming", ![a].waits = LastWrite(queue')]
    BY <1>11 DEF CompanionAnswers, TakeResult, Await
  <2>2. r.batch \in SUBSET Pages /\ r.source = Current
    BY <1>1, <1>3 DEF RunType
  <2>3. PICK o \in Ordered(r.batch) :
             queue' = queue \o [i \in DOMAIN o |-> SavePage(o[i], Current)]
    BY <2>1, <2>2
  <2> DEFINE t == [i \in DOMAIN o |-> SavePage(o[i], Current)]
             s == [r EXCEPT !.pc = "confirming", !.waits = LastWrite(queue')]
  <2>4. /\ Cardinality(r.batch) \in Nat /\ DOMAIN o = 1 .. Cardinality(r.batch)
        /\ \A i \in DOMAIN o : o[i] \in r.batch
        /\ \A p \in r.batch : \E i \in DOMAIN o : o[i] = p
    BY <2>2, OrderedCovers
  <2>5. \A i \in DOMAIN o : SavePage(o[i], Current) \in Transaction
    BY <1>3, <2>2, <2>4, SavePageIsTransaction
  <2>6. t \in Seq(Transaction) /\ DOMAIN t = DOMAIN o
    BY <2>4, <2>5
  <2>7. \A i \in DOMAIN t : t[i].kind = "page" /\ t[i].page = o[i] /\ t[i].value = Current
    BY DEF SavePage
  <2> HIDE DEF t
  <2>8. Writes(r.batch, t)
    <3>1. queue' = queue \o t
      BY <2>3 DEF t
    <3>2. pages' = [p \in Pages |-> IF p \in r.batch THEN Current ELSE pages[p]]
      BY <2>1, <2>2
    <3>3. \A i \in DOMAIN t : t[i].kind = "page" /\ t[i].page \in r.batch /\ t[i].value = Current
      BY <2>4, <2>6, <2>7
    <3>4. \A p \in r.batch : \E i \in DOMAIN t : t[i].page = p
      BY <2>4, <2>6, <2>7
    <3> QED
      BY <2>2, <2>6, <3>1, <3>2, <3>3, <3>4 DEF Writes
  <2>9. run' = [run EXCEPT ![a] = s]
    BY <1>1, <2>1
  <2>10. /\ SameWork(r, s) /\ s.failed = r.failed /\ s.pc = "confirming" /\ s.sub = r.sub
         /\ s.waits = LastWrite(queue')
    BY <1>1 DEF SameWork, RunType
  <2> HIDE DEF s
  <2>11. Shows(r, s)
    BY <2>1, <2>2, <2>8, <2>10 DEF Shows
  <2> QED
    BY <1>2, <2>9, <2>11 DEF Moves
<1>12. CASE CompanionFails(a) \/ (ConfirmFails(a) /\ ~r.aborted)
  <2> DEFINE s == Fallback(r)
  <2>1. /\ r.pc \in {"companion", "confirming"} /\ run' = [run EXCEPT ![a] = s]
        /\ UNCHANGED <<pages, queue>>
    BY <1>1, <1>12 DEF CompanionFails, ConfirmFails
  <2>2. /\ s.pc = "browser"
        /\ Parts(s) /\ Keeps(s, r) /\ s.source = Current
        /\ s.todo = r.todo /\ s.batch \cup s.sub = r.batch
    BY <1>1, <1>3, FallbackKeeps
  <2> HIDE DEF s
  <2>3. Regroups(r, s)
    BY <2>1, <2>2 DEF Regroups, Keeps
  <2> QED
    BY <1>2, <2>1, <2>3 DEF Moves
<1>13. CASE ConfirmFails(a) /\ r.aborted
  BY <1>2, <1>4, <1>13 DEF ConfirmFails
<1>14. CASE Confirm(a)
  <2>1. /\ r.pc = "confirming" /\ r.waits = 0 /\ ~checkpointError
        /\ run' = [run EXCEPT ![a].pc = "acknowledging"] /\ UNCHANGED <<pages, queue>>
    BY <1>14 DEF Confirm, Goto
  <2> QED
    BY <1>2, <1>6, <2>1
<1>15. CASE Acknowledged(a)
  <2>1. /\ r.pc = "acknowledging" /\ UNCHANGED <<pages, queue>>
        /\ run' = [run EXCEPT ![a].pc = "settling", ![a].waits = LastWrite(queue)]
    BY <1>15 DEF Acknowledged, Await
  <2>2. PICK w : w = LastWrite(queue)
    OBVIOUS
  <2> QED
    BY <1>2, <1>5, <2>1, <2>2
<1>16. CASE Settle(a)
  <2>1. CASE checkpointError
    BY <1>2, <1>4, <1>16, <2>1 DEF Settle
  <2>2. CASE ~checkpointError
    <3>1. /\ r.pc = "settling" /\ r.waits = 0 /\ UNCHANGED <<pages, queue>>
          /\ run' = [run EXCEPT ![a].pc = "persisting"]
      BY <1>16, <2>2 DEF Settle, Goto
    <3> QED
      BY <1>2, <1>6, <2>2, <3>1
  <2> QED
    BY <2>1, <2>2
<1>17. CASE Persisted(a)
  <2>1. r.pc = "persisting" /\ UNCHANGED <<pages, queue>>
    BY <1>17 DEF Persisted
  <2>2. CASE End(a)
    BY <1>2, <1>4, <2>1, <2>2
  <2>3. CASE run' = [run EXCEPT ![a] = NextBatch(r)]
    <3> DEFINE s == NextBatch(r)
    <3>1. /\ Parts(s) /\ Keeps(s, r) /\ s.pc \in {"browser", "companion"}
          /\ s.source = Current /\ r.todo \subseteq s.todo \cup s.batch \cup s.sub
          /\ s.todo \subseteq r.todo /\ (s.pc = "companion" => s.sub = r.sub)
      BY <1>1, <1>3, NextBatchParts
    <3>2. run' = [run EXCEPT ![a] = s]
      BY <2>3
    <3> HIDE DEF s
    <3>3. Regroups(r, s)
      BY <2>1, <3>1 DEF Regroups, Keeps
    <3> QED
      BY <1>2, <2>1, <3>2, <3>3 DEF Moves
  <2>4. CASE running /\ r.todo = {} /\ run' = [run EXCEPT ![a].pc = "finishing"]
    BY <1>2, <1>6, <2>1, <2>4
  <2> QED
    BY <1>1, <1>17, <2>2, <2>3, <2>4 DEF Persisted, Goto
<1> QED
  BY <1>7, <1>8, <1>9, <1>10, <1>11, <1>12, <1>13, <1>14, <1>15, <1>16, <1>17
  DEF RunStep, Resume, Proceed

-----------------------------------------------------------------------------
(* The steps of runs and users, and the theorem.                           *)

LEMMA RunStepFollows ==
    ASSUME IInv, WorkspaceInv, NEW a \in Runs, RunStep(a)
    PROVE  WorkspaceInv'
<1> DEFINE r == run[a]
<1>1. PICK s : run' = [run EXCEPT ![a] = s] /\ Moves(r, s)
  BY RunMoves DEF WorkspaceInv
<1>2. Active(a) /\ UNCHANGED <<session, opening, stored, checkpointError, latest>>
  BY RunMoves DEF WorkspaceInv
<1>3. \A b \in Runs : run'[b] = IF b = a THEN s ELSE run[b]
  BY <1>1 DEF IInv, RunsInv
<1>4. /\ home = "own" /\ home' = home /\ active' /\ r.source = Current
      /\ Current' = Current
  BY <1>2 DEF WorkspaceInv, ScreenInv, session, Current
<1>5. s = Gone \/ s.source = Current
  BY <1>1, <1>4 DEF Moves, Regroups, Loses, Proceeds, Shows, SameWork
<1>6. \A b \in Runs : Active(b)' =>
        home' = "own" /\ active' /\ run'[b].source = Current'
  BY <1>3, <1>4, <1>5, GoneIsSound DEF WorkspaceInv, ScreenInv, Active
<1>7. CASE UNCHANGED <<pages, queue>>
  <2>1. /\ QueueInv' /\ StoredInv' /\ FollowInv'
        /\ \A p \in Pages : pages'[p] # None => pages'[p] = Current'
    BY <1>2, <1>7, WorkspaceSame DEF session
  <2> QED
    BY <1>6, <2>1 DEF WorkspaceInv, ScreenInv
<1>8. CASE Shows(r, s)
  <2>1. PICK S, t : Writes(S, t)
    BY <1>8 DEF Shows
  <2>2. Current \in Value
    BY <1>2, CurrentIsValue
  <2>3. /\ QueueInv' /\ StoredInv' /\ FollowInv'
        /\ \A p \in Pages : pages'[p] # None => pages'[p] = Current'
    BY <1>2, <1>4, <2>1, <2>2, WritesKeep
  <2> QED
    BY <1>6, <2>3 DEF WorkspaceInv, ScreenInv
<1> QED
  BY <1>1, <1>7, <1>8 DEF Moves

LEMMA StopFollows ==
    ASSUME IInv, ControlInv, WorkspaceInv, Pause \/ Cancel
    PROVE  WorkspaceInv'
<1>1. running /\ StopRuns /\ UNCHANGED <<session, stored>> /\ Current' = Current
  BY DEF Pause, Cancel, StopRuns, session, Current
<1>2. home = "own" /\ doc \in Docs
  <2>1. latest \in Runs /\ Active(latest)
    BY <1>1, SessionAssumption DEF ControlInv, IInv, StateInv, Runs
  <2> QED
    BY <2>1 DEF WorkspaceInv, ScreenInv, IInv, StateInv
<1>3. ASSUME NEW a \in Runs, Active(a)'
      PROVE  Active(a) /\ run'[a].source = run[a].source
  <2>1. run[a] \in RunType /\ run'[a] # Gone
    BY <1>3, GoneIsSound DEF IInv, RunsInv, Active
  <2>2. run'[a] = run[a] \/ run'[a] = [run[a] EXCEPT !.stopped = TRUE,
                                                   !.aborted = @ \/ a = abort]
    BY <1>1, <2>1 DEF StopRuns, Gone
  <2>3. run'[a].pc = run[a].pc /\ run'[a].source = run[a].source
    BY <2>1, <2>2 DEF RunType
  <2> QED
    BY <1>3, <2>3 DEF Active
<1>4. \A a \in Runs : Active(a)' =>
        home' = "own" /\ active' /\ run'[a].source = Current'
  BY <1>1, <1>3 DEF WorkspaceInv, ScreenInv, session
<1>5. /\ QueueInv' /\ StoredInv' /\ FollowInv'
      /\ \A p \in Pages : pages'[p] # None => pages'[p] = Current'
  <2>1. CASE Pause
    <3>1. UNCHANGED <<version, doc, home, pages, queue, stored>>
      BY <2>1 DEF Pause, session
    <3> QED
      BY <3>1, WorkspaceSame
  <2>2. CASE Cancel
    <3>1. /\ pages' = NoPages /\ queue' = StartWorkspace("cancel", doc)
          /\ UNCHANGED <<version, doc, stored>>
      BY <2>2 DEF Cancel, session
    <3>2. QueueInv' /\ StoredInv' /\ FollowInv'
      BY <1>2, <3>1, StartKeeps
    <3> QED
      BY <3>1, <3>2 DEF NoPages
  <2> QED
    BY <2>1, <2>2
<1> QED
  BY <1>4, <1>5 DEF WorkspaceInv, ScreenInv

LEMMA StartFollows ==
    ASSUME IInv, WorkspaceInv, home # "mixed", home' # "mixed", NEW W \in Selections,
           NEW engine \in {"browser", "companion"}, Start(W, engine)
    PROVE  WorkspaceInv'
<1>1. /\ active /\ home = "own" /\ home' = home
      /\ UNCHANGED <<version, doc, active, pages, queue, stored>>
  BY DEF Start
<1>2. PICK b \in Runs : /\ b = latest + 1 /\ run'[b] = NewRun(W, engine)
                        /\ Current \in Value
                        /\ \A a \in Runs : a # b =>
                             run'[a] = IF Active(a) THEN Beside(run[a]) ELSE run[a]
  BY StartMakes
<1>3. run'[b].source = Current
  <2>1. Current \in Value
    BY <1>2
  <2>2. NewRun(W, engine).source = Current
    BY <2>1, NewRunParts
  <2> QED
    BY <1>2, <2>2
<1>4. ASSUME NEW a \in Runs, Active(a)'
      PROVE  run'[a].source = Current
  <2>1. CASE a = b
    BY <1>3, <2>1
  <2>2. CASE a # b
    <3>1. run[a] \in RunType
      BY DEF IInv, RunsInv
    <3>2. /\ Beside(run[a]).source = run[a].source /\ Beside(run[a]).pc = run[a].pc
      BY <3>1 DEF Beside, RunType
    <3>3. Active(a) /\ run'[a].source = run[a].source
      BY <1>2, <1>4, <2>2, <3>2 DEF Active
    <3> QED
      BY <3>3 DEF WorkspaceInv, ScreenInv
  <2> QED
    BY <2>1, <2>2
<1>5. /\ QueueInv' /\ StoredInv' /\ FollowInv' /\ Current' = Current
      /\ \A p \in Pages : pages'[p] # None => pages'[p] = Current'
  BY <1>1, WorkspaceSame
<1> QED
  BY <1>1, <1>4, <1>5 DEF WorkspaceInv, ScreenInv

LEMMA DatabaseFollows ==
    ASSUME IInv, WorkspaceInv, DatabaseStep
    PROVE  WorkspaceInv'
<1>1. QueueInv' /\ StoredInv' /\ FollowInv'
  BY CommitsKeep DEF DatabaseStep
<1>2. /\ UNCHANGED <<version, doc, home, pages>> /\ Current' = Current
      /\ active => active'
  <2>1. CASE Commit
    BY <2>1 DEF Commit, Current
  <2>2. CASE CommitFails
    BY <2>2 DEF CommitFails, session, Current
  <2> QED
    BY <2>1, <2>2 DEF DatabaseStep
<1>3. ASSUME NEW a \in Runs
      PROVE  run'[a].pc = run[a].pc /\ run'[a].source = run[a].source
  <2>1. run[a] \in RunType
    BY DEF IInv, RunsInv
  <2>2. run'[a] = [run[a] EXCEPT !.waits = IF @ = 0 THEN 0 ELSE @ - 1]
    BY DEF DatabaseStep, Commit, CommitFails, Dequeue
  <2> QED
    BY <2>1, <2>2 DEF RunType
<1>4. ScreenInv'
  BY <1>2, <1>3 DEF WorkspaceInv, ScreenInv, Active
<1> QED
  BY <1>1, <1>4 DEF WorkspaceInv

\* Once an extraction has worked in a workspace that is not its own, nothing is said.
LEMMA MixedForGood ==
    ASSUME IInv, [Next]_vars, home = "mixed"
    PROVE  home' = "mixed"
<1>1. ASSUME NEW a \in Runs, RunStep(a) PROVE home' = home
  BY <1>1 DEF RunStep, Resume, Proceed, WorkerPage, WorkerPageFails, WorkerDone,
              WorkerCrash, CompanionAnswers, TakeResult, CompanionFails,
              CompanionStops, Confirm, ConfirmFails, Acknowledged, Settle, Persisted,
              Finish, session
<1>2. DatabaseStep => home' = home
  BY DEF DatabaseStep, Commit, CommitFails, session
<1>3. OpenStep \/ UserStep => home' = "mixed"
  BY DEF OpenStep, UserStep, OpenFile, OpenPrepared, OpenFails, Restore, Reload, Pause,
         Cancel, Start, session
<1> QED
  BY <1>1, <1>2, <1>3 DEF Next, vars, session

LEMMA WorkspaceStep ==
    ASSUME IInv, ControlInv, home # "mixed" => WorkspaceInv, [Next]_vars
    PROVE  home' # "mixed" => WorkspaceInv'
<1> SUFFICES ASSUME home' # "mixed" PROVE WorkspaceInv'
  OBVIOUS
<1>1. WorkspaceInv /\ home # "mixed"
  BY MixedForGood
<1>2. CASE UNCHANGED vars
  <2>1. UNCHANGED <<version, doc, home, active, pages, queue, stored, run>>
    BY <1>2 DEF vars, session
  <2>2. /\ QueueInv' /\ StoredInv' /\ FollowInv' /\ Current' = Current
        /\ \A p \in Pages : pages'[p] # None => pages'[p] = Current'
    BY <1>1, <2>1, WorkspaceSame
  <2> QED
    BY <1>1, <2>1, <2>2 DEF WorkspaceInv, ScreenInv, Active
<1>3. ASSUME NEW a \in Runs, RunStep(a)
      PROVE  WorkspaceInv'
  BY <1>1, <1>3, RunStepFollows
<1>4. CASE DatabaseStep
  BY <1>1, <1>4, DatabaseFollows
<1>5. CASE OpenStep
  BY <1>1, <1>5, OpeningKeeps DEF OpenStep
<1>6. CASE \E d \in Docs : OpenFile(d)
  BY <1>1, <1>6, OpeningKeeps
<1>7. CASE Restore \/ Reload \/ Pause \/ Cancel
  BY <1>1, <1>7, RestoreKeeps, ReloadKeeps, StopFollows
<1>8. ASSUME NEW W \in Selections, NEW e \in {"browser", "companion"}, Start(W, e)
      PROVE  WorkspaceInv'
  BY <1>1, <1>8, StartFollows
<1> QED
  BY <1>2, <1>3, <1>4, <1>5, <1>6, <1>7, <1>8 DEF Next, UserStep

LEMMA WorkspaceStart ==
    ASSUME Init
    PROVE  WorkspaceInv
<1>1. /\ pages = NoPages /\ home = "other" /\ queue = <<>>
      /\ stored.open = None /\ stored.pages = NoPages /\ DOMAIN queue = {}
      /\ \A a \in Runs : ~Active(a)
  BY DEF Init, NoRun, Active
<1> QED
  BY <1>1 DEF WorkspaceInv, ScreenInv, QueueInv, StoredInv, FollowInv, NoPages

LEMMA WorkspaceInvariance == Spec => [](home # "mixed" => WorkspaceInv)
<1> DEFINE Holds == home # "mixed" => WorkspaceInv
<1>1. Init => Holds
  BY WorkspaceStart
<1>2. IInv /\ ControlInv /\ Holds /\ [Next]_vars => Holds'
  BY WorkspaceStep
<1> HIDE DEF Holds
<1>3. Spec => []Holds
  BY <1>1, <1>2, Invariance, ControlInvariance, PTL DEF Spec
<1> QED
  BY <1>3 DEF Holds

\* The last transaction of a kind there is one of.
LEMMA LastOne ==
    ASSUME queue \in Seq(Transaction), NEW A \in SUBSET DOMAIN queue, A # {}
    PROVE  LET last == CHOOSE i \in A : \A j \in A : j <= i
           IN  last \in A /\ \A j \in A : j <= last
<1> DEFINE n == Len(queue)
           B == {n - i : i \in A}
<1>1. n \in Nat /\ A \subseteq 1 .. n
  OBVIOUS
<1> HIDE DEF n
<1>2. B \in SUBSET Nat /\ B # {}
  BY <1>1
<1> HIDE DEF B
<1>3. PICK m \in B : \A k \in B : m <= k
  <2> DEFINE R == OpToRel(<, Nat)
  <2>1. IsWellFoundedOn(R, Nat)
    BY NatLessThanWellFounded, Zenon
  <2>2. \A k, l \in Nat : k < l => <<k, l>> \in R
    BY DEF OpToRel
  <2> HIDE DEF R
  <2>3. PICK m \in B : \A k \in B : <<k, m>> \notin R
    BY <1>2, <2>1, WFMin
  <2>4. ASSUME NEW k \in B PROVE m <= k
    <3>1. k \in Nat /\ m \in Nat /\ ~(k < m)
      BY <1>2, <2>2, <2>3
    <3> QED
      BY <3>1
  <2> QED
    BY <2>4
<1>4. PICK i \in A : m = n - i
  BY <1>3 DEF B
<1>5. \A j \in A : j <= i
  <2> SUFFICES ASSUME NEW j \in A PROVE j <= i
    OBVIOUS
  <2>1. n - j \in B
    BY DEF B
  <2>2. n - i <= n - j
    BY <1>3, <1>4, <2>1
  <2> QED
    BY <1>1, <2>2
<1> QED
  BY <1>4, <1>5

LEMMA FollowsFromQueue ==
    ASSUME IInv, WorkspaceInv
    PROVE  CheckpointsFollow
<1> SUFFICES ASSUME home = "own", NEW p \in Pages,
                    ~(stored.open # None /\ stored.open.version # version)
             PROVE  /\ Eventually(p) = pages[p] \/ (WritesMayFail /\ Eventually(p) = None)
                    /\ NoStart => stored.pages[p] \in {None, pages[p]}
  BY DEF CheckpointsFollow, NoStart
<1> DEFINE about == {i \in DOMAIN queue : queue[i].kind = "page" => queue[i].page = p}
           last == CHOOSE i \in about : \A j \in about : j <= i
<1>1. queue \in Seq(Transaction) /\ \A i \in DOMAIN queue : i \in Nat
  BY DEF IInv, StateInv
<1>2. /\ \A i \in DOMAIN queue : queue[i].kind = "page" /\ NoStartAfter(i) =>
             pages[queue[i].page] = queue[i].value
      /\ NoStart /\ stored.open.version = version =>
             \A q \in Pages : stored.pages[q] # None => stored.pages[q] = pages[q]
      /\ pages[p] # None => WritesMayFail \/ Kept(p) \/ \E i \in DOMAIN queue : Queued(p, i)
  BY DEF WorkspaceInv, FollowInv
<1>3. /\ about \in SUBSET DOMAIN queue
      /\ \A i \in DOMAIN queue : i \in about <=> (queue[i].kind = "page" => queue[i].page = p)
      /\ Eventually(p) = IF about = {} THEN stored.pages[p]
                         ELSE IF queue[last].kind = "page" THEN queue[last].value ELSE None
  BY DEF Eventually
<1>4. about # {} => last \in about /\ \A j \in about : j <= last
  BY <1>3, <1>1, LastOne
<1> HIDE DEF about, last
<1>5. NoStart => stored.open # None /\ stored.open.version = version
  <2>1. Home(queue, stored.open, Len(queue) + 1, doc)
    BY DEF WorkspaceInv, QueueInv
  <2> QED
    BY <2>1 DEF Home, NoStart
<1>6. NoStart => stored.pages[p] \in {None, pages[p]}
  BY <1>2, <1>5
<1>7. CASE about = {}
  <2>1. Eventually(p) = stored.pages[p]
    BY <1>3, <1>7
  <2>2. NoStart /\ ~\E i \in DOMAIN queue : Queued(p, i)
    BY <1>3, <1>1, <1>7 DEF NoStart, Queued
  <2> QED
    BY <1>2, <1>5, <1>6, <2>1, <2>2 DEF Kept
<1>8. CASE about # {}
  <2>1. last \in DOMAIN queue /\ last \in about /\ \A j \in about : j <= last
    BY <1>3, <1>8, <1>4
  <2>2. Eventually(p) = IF queue[last].kind = "page" THEN queue[last].value ELSE None
    BY <1>3, <1>8
  <2>3. CASE queue[last].kind = "page"
    <3>1. ASSUME NEW j \in DOMAIN queue, j > last PROVE queue[j].kind = "page"
      BY <1>3, <1>1, <2>1, <3>1
    <3>2. NoStartAfter(last)
      BY <3>1 DEF NoStartAfter
    <3>3. queue[last].page = p
      BY <1>3, <2>1, <2>3
    <3> QED
      BY <1>2, <1>6, <2>1, <2>2, <2>3, <3>2, <3>3
  <2>4. CASE queue[last].kind # "page"
    <3>1. ~NoStart
      BY <2>1, <2>4 DEF NoStart
    <3>2. ASSUME NEW i \in DOMAIN queue, Queued(p, i) PROVE FALSE
      <4>1. i \in about
        BY <1>3, <3>2 DEF Queued
      <4>2. i <= last /\ i # last /\ i \in Nat /\ last \in Nat
        BY <1>1, <2>1, <2>4, <3>2, <4>1 DEF Queued
      <4>3. last > i
        BY <4>2
      <4> QED
        BY <2>1, <2>4, <3>2, <4>3 DEF Queued, NoStartAfter
    <3> QED
      BY <1>2, <1>6, <2>2, <2>4, <3>1, <3>2 DEF Kept
  <2> QED
    BY <1>6, <2>3, <2>4
<1> QED
  BY <1>7, <1>8

\* Until an extraction works in a workspace that is not its own, the screen and the
\* database never mix documents or versions, and the checkpoints end as what is shown
\* (openFile, restore, extract and stop of app.js, workspace-db.js).
THEOREM PagesAreOfOneDocument == Spec => []PagesFollowTheDocument
<1>1. IInv /\ (home # "mixed" => WorkspaceInv) => PagesFollowTheDocument
  <2> SUFFICES ASSUME IInv, WorkspaceInv PROVE OneDocument /\ CheckpointsFollow
    BY DEF PagesFollowTheDocument
  <2>1. OneDocument
    BY DEF WorkspaceInv, ScreenInv, StoredInv, OneDocument
  <2> QED
    BY <2>1, FollowsFromQueue
<1> QED
  BY <1>1, Invariance, WorkspaceInvariance, PTL

-----------------------------------------------------------------------------
(* What a run has done is stored, or still to come.                        *)

Pending(a, p) ==
    \/ checkpointError \/ Kept(p)
    \/ \E i \in DOMAIN queue :
         /\ Queued(p, i)
         /\ run[a].pc \in {"confirming", "settling"} => i <= run[a].waits

\* A page the run has worked on is stored when it is shown, or it is among the
\* writes that the run is waiting for, unless others work beside it.
DurableInv ==
    \A a \in Runs : Active(a) /\ run[a].alone =>
        /\ \A p \in run[a].todo : pages[p] = None
        /\ \A p \in run[a].wanted \ run[a].todo : pages[p] # None => Pending(a, p)

\* Each page the run wants is still in hand, or shown, or was tried twice.
ProgressInv ==
    \A a \in Runs : Active(a) /\ run[a].alone /\ ~run[a].stopped =>
        LET r == run[a]
        IN  /\ \A p \in r.wanted :
                 p \in r.todo \cup r.batch \cup r.sub \cup r.failed \/ pages[p] # None
            /\ r.pc # "browser" => r.sub = {} /\ r.failed \subseteq r.retried
            /\ r.pc \notin {"browser", "companion"} => \A p \in r.batch : pages[p] # None

WorkInv == DurableInv /\ ProgressInv

\* A write is waited for by whoever waits for the last one.
LEMMA LastWriteCovers ==
    ASSUME NEW q \in Seq(Transaction), NEW i \in DOMAIN q, q[i].kind = "page"
    PROVE  i <= LastWrite(q)
<1> DEFINE S == {n \in DOMAIN q : \E k \in n .. Len(q) : q[k].kind = "page"}
<1>1. Len(q) \in Nat /\ S \subseteq 1 .. Len(q) /\ DOMAIN q = 1 .. Len(q) /\ i \in Nat
  OBVIOUS
<1>2. 1 .. i \subseteq S
  <2> SUFFICES ASSUME NEW n \in 1 .. i PROVE n \in S
    OBVIOUS
  <2>1. n \in DOMAIN q /\ i \in n .. Len(q)
    BY <1>1
  <2> QED
    BY <2>1
<1>3. LastWrite(q) = Cardinality(S)
  BY DEF LastWrite
<1> HIDE DEF S
<1>4. IsFiniteSet(1 .. Len(q)) /\ Cardinality(1 .. i) = i
  BY <1>1, FS_Interval
<1>5. IsFiniteSet(S)
  BY <1>1, <1>4, FS_Subset
<1>6. i <= Cardinality(S)
  BY <1>2, <1>4, <1>5, FS_Subset
<1> QED
  BY <1>3, <1>6

LEMMA RunStepWorks ==
    ASSUME IInv, ControlInv, WorkspaceInv, WorkInv, NEW a \in Runs, RunStep(a)
    PROVE  WorkInv'
<1> DEFINE r == run[a]
<1>1. PICK s : run' = [run EXCEPT ![a] = s] /\ Moves(r, s)
  BY RunMoves DEF WorkspaceInv
<1>2. /\ Active(a) /\ stored' = stored /\ checkpointError' = checkpointError
      /\ queue \in Seq(Transaction) /\ queue' \in Seq(Transaction)
      /\ Parts(r) /\ Current \in Value /\ None \notin Value
  BY RunMoves, Step, CurrentIsValue, SessionAssumption
  DEF WorkspaceInv, IInv, StateInv, RunsInv, RunInv, Next
<1>3. /\ \A b \in Runs : run'[b] = IF b = a THEN s ELSE run[b]
      /\ \A b \in Runs : Active(b)' /\ run'[b].alone => b = a
  BY <1>1, <1>2 DEF IInv, RunsInv, ControlInv, AloneInv, Active
<1>4. CASE s = Gone \/ ~s.alone
  BY <1>3, <1>4, GoneIsSound DEF WorkInv, DurableInv, ProgressInv, Active
<1> SUFFICES ASSUME s # Gone, s.alone PROVE WorkInv'
  BY <1>4
<1>5. r.alone
  BY <1>1 DEF Moves, Regroups, Loses, Proceeds, Shows, SameWork
<1>6. /\ \A p \in r.todo : pages[p] = None
      /\ \A p \in r.wanted \ r.todo : pages[p] # None => Pending(a, p)
  BY <1>2, <1>5 DEF WorkInv, DurableInv
<1>7. ~r.stopped =>
        /\ \A p \in r.wanted :
             p \in r.todo \cup r.batch \cup r.sub \cup r.failed \/ pages[p] # None
        /\ r.pc # "browser" => r.sub = {} /\ r.failed \subseteq r.retried
        /\ r.pc \notin {"browser", "companion"} => \A p \in r.batch : pages[p] # None
  BY <1>2, <1>5 DEF WorkInv, ProgressInv
<1>8. \A p, i : i \in DOMAIN queue /\ Queued(p, i) => i <= LastWrite(queue)
  BY <1>2, LastWriteCovers DEF Queued
<1>9. ASSUME UNCHANGED <<pages, queue>>
      PROVE  \A p : Kept(p)' = Kept(p) /\ \A i : Queued(p, i)' = Queued(p, i)
  BY <1>2, <1>9 DEF Kept, Queued, NoStart, NoStartAfter
<1>10. ASSUME \A p \in s.todo : pages'[p] = None,
             \A p \in s.wanted \ s.todo : pages'[p] # None =>
               \/ checkpointError \/ Kept(p)'
               \/ \E i \in DOMAIN queue' :
                    /\ Queued(p, i)'
                    /\ s.pc \in {"confirming", "settling"} => i <= s.waits
      PROVE  DurableInv'
  BY <1>2, <1>3, <1>10 DEF DurableInv, Pending
<1>11. ASSUME ~s.stopped =>
                /\ \A p \in s.wanted :
                     p \in s.todo \cup s.batch \cup s.sub \cup s.failed \/ pages'[p] # None
                /\ s.pc # "browser" => s.sub = {} /\ s.failed \subseteq s.retried
                /\ s.pc \notin {"browser", "companion"} => \A p \in s.batch : pages'[p] # None
       PROVE  ProgressInv'
  BY <1>3, <1>11 DEF ProgressInv
<1>12. CASE UNCHANGED <<pages, queue>> /\ Regroups(r, s)
  <2>1. DurableInv'
    <3>1. \A p \in s.todo : pages'[p] = None
      BY <1>6, <1>12 DEF Regroups
    <3>2. ASSUME NEW p \in s.wanted \ s.todo, pages'[p] # None
          PROVE  \/ checkpointError \/ Kept(p)'
                 \/ \E i \in DOMAIN queue' : Queued(p, i)'
      <4>1. p \in r.wanted \ r.todo /\ pages[p] # None
        BY <1>6, <1>12, <3>2 DEF Regroups
      <4> QED
        BY <1>6, <1>9, <1>12, <4>1 DEF Pending
    <3>3. s.pc \notin {"confirming", "settling"}
      BY <1>12 DEF Regroups
    <3> QED
      BY <1>10, <3>1, <3>2, <3>3
  <2>2. ProgressInv'
    <3>1. SUFFICES ASSUME ~s.stopped
                   PROVE  /\ \A p \in s.wanted :
                               \/ p \in s.todo \cup s.batch \cup s.sub \cup s.failed
                               \/ pages'[p] # None
                          /\ s.pc # "browser" => s.sub = {} /\ s.failed \subseteq s.retried
                          /\ s.pc \in {"browser", "companion"}
      BY <1>11
    <3>2. ~r.stopped /\ r.sub = {}
      BY <1>7, <1>12, <3>1 DEF Regroups
    <3>3. \A p \in r.batch : p \in s.todo \cup s.batch \cup s.sub \/ pages[p] # None
      BY <1>7, <1>12, <3>2 DEF Regroups
    <3> QED
      BY <1>7, <1>12, <3>2, <3>3 DEF Regroups
  <2> QED
    BY <2>1, <2>2 DEF WorkInv
<1>13. CASE UNCHANGED <<pages, queue>> /\ Loses(r, s)
  <2>1. DurableInv'
    <3>1. s.todo = r.todo /\ s.wanted = r.wanted /\ s.pc \notin {"confirming", "settling"}
      BY <1>13 DEF Loses, SameWork
    <3>2. ASSUME NEW p \in s.wanted \ s.todo, pages'[p] # None
          PROVE  \/ checkpointError \/ Kept(p)'
                 \/ \E i \in DOMAIN queue' : Queued(p, i)'
      BY <1>6, <1>9, <1>13, <3>1, <3>2 DEF Pending
    <3> QED
      BY <1>6, <1>10, <1>13, <3>1, <3>2
  <2>2. ProgressInv'
    BY <1>7, <1>11, <1>13 DEF Loses, SameWork
  <2> QED
    BY <2>1, <2>2 DEF WorkInv
<1>14. CASE UNCHANGED <<pages, queue>> /\ Proceeds(r, s)
  <2>1. DurableInv'
    <3>1. s.todo = r.todo /\ s.wanted = r.wanted
          /\ (s.pc \in {"confirming", "settling"} => s.waits = LastWrite(queue))
      BY <1>14 DEF Proceeds, SameWork
    <3>2. ASSUME NEW p \in s.wanted \ s.todo, pages'[p] # None
          PROVE  \/ checkpointError \/ Kept(p)'
                 \/ \E i \in DOMAIN queue' :
                      /\ Queued(p, i)'
                      /\ s.pc \in {"confirming", "settling"} => i <= s.waits
      <4>1. checkpointError \/ Kept(p) \/ \E i \in DOMAIN queue : Queued(p, i)
        BY <1>6, <1>14, <3>1, <3>2 DEF Pending
      <4> QED
        BY <1>8, <1>9, <1>14, <3>1, <4>1
    <3> QED
      BY <1>6, <1>10, <1>14, <3>1, <3>2
  <2>2. ProgressInv'
    BY <1>7, <1>11, <1>14 DEF Proceeds, SameWork
  <2> QED
    BY <2>1, <2>2 DEF WorkInv
<1>15. CASE Shows(r, s)
  <2>1. PICK S, t : /\ Writes(S, t)
                    /\ \/ /\ r.pc = "browser" /\ s.pc = "browser"
                          /\ S \subseteq r.sub /\ s.sub = r.sub \ S
                       \/ /\ r.pc = "companion" /\ s.pc = "confirming"
                          /\ s.sub = r.sub /\ S = r.batch /\ s.waits = LastWrite(queue')
    BY <1>15 DEF Shows
  <2>2. SameWork(r, s) /\ s.failed = r.failed
    BY <1>15 DEF Shows
  <2>3. /\ \A p \in S : \E j \in DOMAIN queue' : Queued(p, j)'
        /\ \A p \in Pages \ S : Kept(p) => Kept(p)'
        /\ \A p, i : i \in DOMAIN queue /\ Queued(p, i) =>
              i \in DOMAIN queue' /\ Queued(p, i)'
    BY <1>2, <2>1, WritesQueue
  <2>4. /\ r.wanted \subseteq Pages /\ r.todo \subseteq Pages /\ S \cap r.todo = {}
        /\ \A p \in Pages : pages'[p] = IF p \in S THEN Current ELSE pages[p]
    BY <1>2, <2>1 DEF Writes, Parts, RunType
  <2>5. PICK q \in Seq(Transaction) : q = queue'
    BY <1>2
  <2>6. ASSUME NEW p, NEW i \in DOMAIN queue', Queued(p, i)' PROVE i <= LastWrite(queue')
    <3>1. q[i].kind = "page" /\ i \in DOMAIN q
      BY <2>5, <2>6 DEF Queued
    <3> QED
      BY <2>5, <3>1, LastWriteCovers
  <2>7. DurableInv'
    <3>1. s.todo = r.todo /\ s.wanted = r.wanted
          /\ (s.pc \in {"confirming", "settling"} => s.waits = LastWrite(queue'))
      BY <2>1, <2>2 DEF SameWork
    <3>2. \A p \in s.todo : pages'[p] = None
      BY <1>6, <2>4, <3>1
    <3>3. ASSUME NEW p \in s.wanted \ s.todo, pages'[p] # None
          PROVE  \/ checkpointError \/ Kept(p)'
                 \/ \E i \in DOMAIN queue' :
                      /\ Queued(p, i)'
                      /\ s.pc \in {"confirming", "settling"} => i <= s.waits
      <4>1. p \in Pages
        BY <2>4, <3>1, <3>3
      <4>2. p \notin S => checkpointError \/ Kept(p) \/ \E i \in DOMAIN queue : Queued(p, i)
        BY <1>6, <2>4, <3>1, <3>3, <4>1 DEF Pending
      <4>3. checkpointError \/ Kept(p)' \/ \E i \in DOMAIN queue' : Queued(p, i)'
        BY <2>3, <4>1, <4>2
      <4> QED
        BY <2>6, <3>1, <4>3
    <3> QED
      BY <1>10, <3>2, <3>3
  <2>8. ProgressInv'
    <3>1. /\ \A p \in r.wanted : p \in Pages
          /\ \A p \in Pages : pages[p] # None => pages'[p] # None
          /\ \A p \in S : p \in Pages /\ pages'[p] # None
      BY <1>2, <2>1, <2>4 DEF Writes
    <3>2. /\ s.wanted = r.wanted /\ s.todo = r.todo /\ s.batch = r.batch /\ s.failed = r.failed
          /\ s.retried = r.retried
      BY <2>2 DEF SameWork
    <3> SUFFICES ASSUME ~r.stopped
                 PROVE  /\ \A p \in s.wanted :
                             \/ p \in s.todo \cup s.batch \cup s.sub \cup s.failed
                             \/ pages'[p] # None
                        /\ s.pc # "browser" => s.sub = {} /\ s.failed \subseteq s.retried
                        /\ s.pc \notin {"browser", "companion"} =>
                             \A p \in s.batch : pages'[p] # None
      BY <1>11, <2>2 DEF SameWork
    <3>3. \A p \in s.wanted : p \in s.todo \cup s.batch \cup s.sub \cup s.failed \/ pages'[p] # None
      BY <1>7, <2>1, <2>2, <3>1, <3>2
    <3>4. s.pc # "browser" => s.sub = {} /\ s.failed \subseteq s.retried
      BY <1>7, <2>1, <2>2, <3>2
    <3>5. s.pc \notin {"browser", "companion"} => \A p \in s.batch : pages'[p] # None
      BY <2>1, <3>1, <3>2
    <3> QED
      BY <3>3, <3>4, <3>5
  <2> QED
    BY <2>7, <2>8 DEF WorkInv
<1> QED
  BY <1>1, <1>4, <1>12, <1>13, <1>14, <1>15 DEF Moves

\* Nothing is in hand when a PDF is opened or the page is left.
LEMMA OpeningWorks ==
    ASSUME IInv, WorkspaceInv, WorkInv, home # "mixed", home' # "mixed",
           \/ \E d \in Docs : OpenFile(d) \/ OpenPrepared(d) \/ OpenFails(d)
           \/ Restore \/ Reload
    PROVE  WorkInv'
<1>1. CASE Restore \/ Reload \/ \E d \in Docs : OpenFile(d)
  <2>1. \A a \in Runs : ~Active(a)'
    BY <1>1, GoneIsSound
    DEF Restore, Reload, OpenFile, Gone, Active, Working, WorkspaceInv, ScreenInv
  <2> QED
    BY <2>1 DEF WorkInv, DurableInv, ProgressInv
<1>2. CASE \E d \in Docs : OpenPrepared(d)
  <2>1. pages' = pages /\ run' = run /\ (pages' = NoPages \/ ~Working)
    BY <1>2 DEF OpenPrepared
  <2>2. \A a \in Runs : run'[a].wanted \subseteq Pages /\ run'[a].todo \subseteq Pages
    BY <2>1 DEF IInv, RunsInv, RunType
  <2>3. DurableInv'
    BY <2>1, <2>2 DEF DurableInv, NoPages, Working, Active
  <2>4. ProgressInv'
    BY <2>1 DEF WorkInv, ProgressInv, Active
  <2> QED
    BY <2>3, <2>4 DEF WorkInv
<1>3. CASE \E d \in Docs : OpenFails(d)
  <2>1. UNCHANGED <<pages, queue, stored, run, checkpointError>>
    BY <1>3 DEF OpenFails
  <2> QED
    BY <2>1 DEF WorkInv, DurableInv, ProgressInv, Pending, Kept, Queued, NoStart,
                NoStartAfter, Active
<1> QED
  BY <1>1, <1>2, <1>3

LEMMA StopWorks ==
    ASSUME IInv, WorkInv, Pause \/ Cancel
    PROVE  WorkInv'
<1>1. StopRuns /\ stored' = stored /\ checkpointError' = checkpointError
  BY DEF Pause, Cancel
<1>2. ASSUME NEW a \in Runs, Active(a)'
      PROVE  /\ Active(a) /\ run'[a].pc = run[a].pc /\ run'[a].waits = run[a].waits
             /\ run'[a].wanted = run[a].wanted /\ run'[a].todo = run[a].todo
             /\ run'[a].alone = run[a].alone /\ run'[a].stopped
             /\ run[a].wanted \subseteq Pages /\ run[a].todo \subseteq Pages
  <2>1. run[a] \in RunType
    BY DEF IInv, RunsInv
  <2>2. run'[a] # Gone
    BY <1>2, GoneIsSound DEF Active
  <2>3. \/ ~Active(a) /\ run'[a] = run[a]
        \/ run'[a] = [run[a] EXCEPT !.stopped = TRUE, !.aborted = @ \/ a = abort]
    BY <1>1, <2>2 DEF StopRuns, Gone
  <2>4. /\ run'[a].pc = run[a].pc /\ run'[a].waits = run[a].waits
        /\ run'[a].wanted = run[a].wanted /\ run'[a].todo = run[a].todo
        /\ run'[a].alone = run[a].alone
        /\ Active(a) => run'[a].stopped
    BY <2>1, <2>3 DEF RunType
  <2> QED
    BY <1>2, <2>1, <2>4 DEF Active, RunType
<1>3. ProgressInv'
  BY <1>2 DEF ProgressInv
<1>4. CASE pages' = NoPages
  <2>1. DurableInv'
    BY <1>2, <1>4 DEF DurableInv, NoPages
  <2> QED
    BY <1>3, <2>1 DEF WorkInv
<1>5. CASE UNCHANGED <<pages, queue>>
  <2>1. ASSUME NEW a \in Runs, Active(a)', NEW p, Pending(a, p) PROVE Pending(a, p)'
    BY <1>1, <1>2, <1>5, <2>1 DEF Pending, Kept, Queued, NoStart, NoStartAfter
  <2>2. DurableInv'
    BY <1>2, <1>5, <2>1 DEF WorkInv, DurableInv
  <2> QED
    BY <1>3, <2>2 DEF WorkInv
<1> QED
  BY <1>4, <1>5 DEF Pause, Cancel

LEMMA StartWorks ==
    ASSUME IInv, NEW W \in Selections, NEW engine \in {"browser", "companion"},
           Start(W, engine)
    PROVE  WorkInv'
<1> DEFINE s == NewRun(W, engine)
<1>1. PICK b \in Runs : /\ b = latest + 1 /\ run'[b] = s /\ Current \in Value
                        /\ \A a \in Runs : a # b =>
                             run'[a] = IF Active(a) THEN Beside(run[a]) ELSE run[a]
  BY StartMakes
<1>2. /\ Parts(s) /\ s.pc \in {"browser", "companion"}
      /\ s.failed = {} /\ s.retried = {}
      /\ s.pc = "companion" => s.sub = {}
      /\ s.wanted = {p \in W : pages[p] = None}
      /\ s.wanted \subseteq s.todo \cup s.batch \cup s.sub
  <2>1. Current \in Value
    BY <1>1
  <2> QED
    BY <2>1, NewRunParts
<1> HIDE DEF s
<1>3. pages' = pages
  BY DEF Start
<1>4. s.todo \subseteq s.wanted /\ \A p \in s.wanted : pages'[p] = None
  BY <1>2, <1>3 DEF Parts
<1>5. ASSUME NEW a \in Runs, Active(a)', run'[a].alone PROVE run'[a] = s
  <2>1. CASE a = b
    BY <1>1, <2>1
  <2>2. CASE a # b
    <3>1. run[a] \in RunType
      BY DEF IInv, RunsInv
    <3>2. Active(a) /\ run'[a] = Beside(run[a])
      BY <1>1, <1>5, <2>2 DEF Active
    <3> QED
      BY <1>5, <3>1, <3>2 DEF Beside, RunType
  <2> QED
    BY <2>1, <2>2
<1>6. DurableInv'
  BY <1>4, <1>5 DEF DurableInv
<1>7. ProgressInv'
  BY <1>2, <1>5 DEF ProgressInv
<1> QED
  BY <1>6, <1>7 DEF WorkInv

LEMMA DatabaseWorks ==
    ASSUME IInv, WorkspaceInv, WorkInv, DatabaseStep
    PROVE  WorkInv'
<1>1. /\ pages' = pages /\ \A a \in Runs : run'[a] =
           [run[a] EXCEPT !.waits = IF @ = 0 THEN 0 ELSE @ - 1]
  BY DEF DatabaseStep, Commit, CommitFails, Dequeue
<1>2. ASSUME NEW a \in Runs
      PROVE  /\ run'[a].pc = run[a].pc /\ run'[a].stopped = run[a].stopped
             /\ run'[a].wanted = run[a].wanted /\ run'[a].todo = run[a].todo
             /\ run'[a].batch = run[a].batch /\ run'[a].sub = run[a].sub
             /\ run'[a].failed = run[a].failed /\ run'[a].retried = run[a].retried
             /\ run'[a].waits = (IF run[a].waits = 0 THEN 0 ELSE run[a].waits - 1)
             /\ run'[a].alone = run[a].alone
             /\ run[a].waits \in Nat /\ run[a].wanted \subseteq Pages
  <2>1. run[a] \in RunType
    BY DEF IInv, RunsInv
  <2>2. run'[a] = [run[a] EXCEPT !.waits = IF @ = 0 THEN 0 ELSE @ - 1]
    BY <1>1
  <2> QED
    BY <2>1, <2>2 DEF RunType
<1>3. \A a \in Runs : Active(a)' <=> Active(a)
  BY <1>2 DEF Active
<1>4. ProgressInv'
  BY <1>1, <1>2, <1>3 DEF WorkInv, ProgressInv
<1>5. ASSUME NEW a \in Runs, Active(a), NEW p \in Pages, pages[p] # None, Pending(a, p)
      PROVE  Pending(a, p)'
  <2>1. CASE CommitFails
    BY <2>1 DEF CommitFails, Pending
  <2>2. CASE checkpointError /\ Commit
    BY <2>2 DEF Commit, Pending
  <2>3. CASE ~checkpointError /\ Commit
    <3>1. home = "own"
      BY <1>5 DEF WorkspaceInv, ScreenInv
    <3>2. /\ Kept(p) => Kept(p)'
          /\ \A i \in DOMAIN queue : Queued(p, i) =>
                \/ Kept(p)'
                \/ i # 1 /\ i - 1 \in DOMAIN queue' /\ Queued(p, i - 1)'
      BY <1>5, <2>3, <3>1, CommitQueue
    <3>3. CASE Kept(p)'
      BY <3>3 DEF Pending
    <3>4. CASE ~Kept(p)'
      <4>1. PICK i \in DOMAIN queue :
              /\ Queued(p, i)
              /\ run[a].pc \in {"confirming", "settling"} => i <= run[a].waits
        BY <1>5, <2>3, <3>2, <3>4 DEF Pending
      <4>2. PICK j : j = i - 1
        OBVIOUS
      <4>3. i # 1 /\ j \in DOMAIN queue' /\ Queued(p, i - 1)'
        BY <3>2, <3>4, <4>1, <4>2
      <4>4. i \in Nat /\ i > 0
        BY DEF IInv, StateInv
      <4>5. run'[a].pc \in {"confirming", "settling"} => j <= run'[a].waits
        BY <1>2, <4>1, <4>2, <4>3, <4>4
      <4>6. Queued(p, j)'
        BY <4>2, <4>3 DEF Queued
      <4> QED
        BY <4>3, <4>5, <4>6 DEF Pending
    <3> QED
      BY <3>3, <3>4
  <2> QED
    BY <2>1, <2>2, <2>3 DEF DatabaseStep
<1>6. DurableInv'
  BY <1>1, <1>2, <1>3, <1>5 DEF WorkInv, DurableInv
<1> QED
  BY <1>4, <1>6 DEF WorkInv

LEMMA WorkStep ==
    ASSUME IInv, ControlInv, home # "mixed" => WorkspaceInv /\ WorkInv, [Next]_vars
    PROVE  home' # "mixed" => WorkInv'
<1> SUFFICES ASSUME home' # "mixed" PROVE WorkInv'
  OBVIOUS
<1>1. WorkspaceInv /\ WorkInv /\ home # "mixed"
  BY MixedForGood
<1>2. CASE UNCHANGED vars
  <2>1. UNCHANGED <<pages, queue, stored, run, checkpointError>>
    BY <1>2 DEF vars
  <2> QED
    BY <1>1, <2>1 DEF WorkInv, DurableInv, ProgressInv, Pending, Kept, Queued, NoStart,
                      NoStartAfter, Active
<1>3. ASSUME NEW a \in Runs, RunStep(a)
      PROVE  WorkInv'
  BY <1>1, <1>3, RunStepWorks
<1>4. CASE DatabaseStep
  BY <1>1, <1>4, DatabaseWorks
<1>5. CASE \/ OpenStep
           \/ \E d \in Docs : OpenFile(d)
           \/ Restore \/ Reload
  BY <1>1, <1>5, OpeningWorks DEF OpenStep
<1>6. CASE Pause \/ Cancel
  BY <1>1, <1>6, StopWorks
<1>7. ASSUME NEW W \in Selections, NEW e \in {"browser", "companion"}, Start(W, e)
      PROVE  WorkInv'
  BY <1>7, StartWorks
<1> QED
  BY <1>2, <1>3, <1>4, <1>5, <1>6, <1>7 DEF Next, UserStep

LEMMA WorkInvariance == Spec => [](home # "mixed" => WorkspaceInv /\ WorkInv)
<1> DEFINE Holds == home # "mixed" => WorkspaceInv /\ WorkInv
<1>1. Init => Holds
  <2> SUFFICES ASSUME Init PROVE WorkspaceInv /\ WorkInv
    OBVIOUS
  <2>1. \A a \in Runs : ~Active(a)
    BY DEF Init, NoRun, Active
  <2>2. WorkInv
    BY <2>1 DEF WorkInv, DurableInv, ProgressInv
  <2> QED
    BY <2>2, WorkspaceStart
<1>2. IInv /\ ControlInv /\ Holds /\ [Next]_vars => Holds'
  BY WorkspaceStep, WorkStep
<1> HIDE DEF Holds
<1>3. Spec => []Holds
  BY <1>1, <1>2, Invariance, ControlInvariance, PTL DEF Spec
<1> QED
  BY <1>3 DEF Holds

\* Only a step of its own takes a run to a point where it reports.
LEMMA ReportingSteps ==
    ASSUME IInv, [Next]_vars, NEW a \in Runs, run[a].pc # run'[a].pc,
           run'[a].pc \in {"acknowledging", "persisting", "finishing"}
    PROVE  RunStep(a)
<1>1. ASSUME NEW b \in Runs, RunStep(b), b # a PROVE FALSE
  <2>1. PICK s : Changed(b, s)
    BY <1>1, RunChanges
  <2> QED
    BY <1>1, <2>1 DEF Changed, IInv, RunsInv
<1>2. ~DatabaseStep
  BY DEF DatabaseStep, Commit, CommitFails, Dequeue, IInv, RunsInv, RunType
<1>3. ~(Pause \/ Cancel \/ Reload)
  <2>1. run[a] \in RunType
    BY DEF IInv, RunsInv
  <2>2. run'[a] # Gone /\ run'[a].pc # run[a].pc
    BY GoneIsSound
  <2>3. ~Reload
    BY <2>2 DEF Reload, Gone
  <2>4. ASSUME StopRuns PROVE FALSE
    <3>1. \/ run'[a] = run[a]
          \/ run'[a] = Gone
          \/ run'[a] = [run[a] EXCEPT !.stopped = TRUE, !.aborted = @ \/ a = abort]
      BY <2>4 DEF StopRuns, Gone
    <3>2. run'[a] = Gone \/ run'[a].pc = run[a].pc
      BY <2>1, <3>1 DEF RunType
    <3> QED
      BY <2>2, <3>2
  <2> QED
    BY <2>3, <2>4 DEF Pause, Cancel
<1>4. ASSUME NEW W \in Selections, NEW e \in {"browser", "companion"}, Start(W, e)
      PROVE  FALSE
  <2>1. PICK b \in Runs : /\ run'[b] = NewRun(W, e) /\ Current \in Value
                          /\ \A c \in Runs : c # b =>
                               run'[c] = IF Active(c) THEN Beside(run[c]) ELSE run[c]
    BY <1>4, StartMakes
  <2>2. NewRun(W, e).pc \in {"browser", "companion"}
    <3>1. Current \in Value
      BY <2>1
    <3> QED
      BY <3>1, NewRunParts
  <2>3. a # b
    BY <2>1, <2>2
  <2>4. Active(a) => Beside(run[a]).pc = run[a].pc
    BY BesideIsSound DEF Active, IInv, RunsInv, Over
  <2> QED
    BY <2>1, <2>3, <2>4
<1>5. run' # run
  OBVIOUS
<1> QED
  BY <1>1, <1>2, <1>3, <1>4, <1>5
  DEF Next, OpenStep, UserStep, OpenFile, OpenPrepared, OpenFails, Restore, vars

\* Until an extraction works in a workspace that is not its own, a run that works alone
\* reports a batch as stored, or acknowledges a result, only when the pages it has worked
\* on so far are in the database, and is complete only when each page it wanted is shown
\* or was tried twice, whatever fails and whenever it is stopped (runCompanionBatch,
\* waitForCheckpointWrites and the loop of extract()).
THEOREM WhatRunsReportIsTrue == Spec => ReportsAreTrue
<1> DEFINE Holds == home # "mixed" => WorkspaceInv /\ WorkInv
<1>1. ASSUME IInv, ControlInv, WorkspaceInv, WorkInv, [Next]_vars, NEW a \in Runs,
             run[a].pc # run'[a].pc,
             run'[a].pc \in {"acknowledging", "persisting", "finishing"}
      PROVE  Active(a) /\ \E s : run'[a] = s /\ Proceeds(run[a], s)
  <2>1. RunStep(a)
    BY <1>1, ReportingSteps
  <2>2. PICK s : run' = [run EXCEPT ![a] = s] /\ Moves(run[a], s)
    BY <1>1, <2>1, RunMoves DEF WorkspaceInv
  <2>3. run'[a] = s /\ Active(a)
    BY <1>1, <2>1, <2>2, RunMoves DEF IInv, RunsInv, WorkspaceInv
  <2> QED
    BY <1>1, <2>2, <2>3, GoneIsSound DEF Moves, Regroups, Loses, Shows
<1>2. ASSUME IInv, ControlInv, WorkspaceInv, WorkInv, [Next]_vars, NEW a \in Runs,
             run[a].alone
      PROVE  Durable(a)
  <2> SUFFICES ASSUME run[a].pc # run'[a].pc,
                      run'[a].pc \in {"acknowledging", "persisting"},
                      NEW p \in run[a].wanted \ run[a].todo, pages[p] # None
               PROVE  stored.pages[p] = pages[p]
    BY DEF Durable
  <2>1. PICK s : Active(a) /\ run'[a] = s /\ Proceeds(run[a], s)
    BY <1>1, <1>2
  <2>2. run[a].waits = 0 /\ ~checkpointError /\ run[a].pc \in {"confirming", "settling"}
    BY <2>1 DEF Proceeds
  <2>3. Pending(a, p)
    BY <1>2, <2>1 DEF WorkInv, DurableInv
  <2>4. \A i \in DOMAIN queue : ~(i <= 0)
    BY <1>2 DEF IInv, StateInv
  <2> QED
    BY <2>2, <2>3, <2>4 DEF Pending, Kept
<1>3. ASSUME IInv, ControlInv, WorkspaceInv, WorkInv, [Next]_vars, NEW a \in Runs,
             run[a].alone
      PROVE  Complete(a)
  <2> SUFFICES ASSUME run[a].pc # "finishing", run'[a].pc = "finishing",
                      NEW p \in run[a].wanted
               PROVE  pages[p] # None \/ p \in run[a].retried
    BY DEF Complete
  <2>1. PICK s : Active(a) /\ run'[a] = s /\ Proceeds(run[a], s)
    BY <1>1, <1>3
  <2>2. run[a].pc = "persisting" /\ running /\ run[a].todo = {}
    BY <2>1 DEF Proceeds
  <2>3. ~run[a].stopped
    BY <1>3, <2>1, <2>2 DEF ControlInv, AloneInv
  <2> QED
    BY <1>3, <2>1, <2>2, <2>3 DEF WorkInv, ProgressInv
<1>4. IInv /\ ControlInv /\ Holds /\ [Next]_vars =>
        [\A a \in Runs :
            run[a].alone /\ home # "mixed" => Durable(a) /\ Complete(a)]_vars
  BY <1>2, <1>3
<1>5. Spec => []Holds
  BY WorkInvariance
<1> HIDE DEF Holds
<1> QED
  BY <1>4, <1>5, Invariance, ControlInvariance, PTL DEF Spec, ReportsAreTrue
=============================================================================

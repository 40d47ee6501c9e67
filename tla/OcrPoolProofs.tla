---------------------------- MODULE OcrPoolProofs ----------------------------
(***************************************************************************)
(* Machine-checked proofs about OcrPool, for any selection of pages, any   *)
(* number of workers and any number of panics.                             *)
(***************************************************************************)
EXTENDS OcrPool, FiniteSetTheorems, TLAPS

\* Any set of pages is finite.
LEMMA FinitePages ==
    ASSUME NEW S \in SUBSET Pages
    PROVE  IsFiniteSet(S) /\ Cardinality(S) \in Nat
<1>1. IsFiniteSet(S)
  BY PoolAssumption, FS_Subset
<1> QED
  BY <1>1, FS_CardinalityType

\* What a thread holds: nothing or one page.
LEMMA AtMostOne ==
    ASSUME NEW S \in SUBSET Pages
    PROVE  Cardinality(S) <= 1 <=> S = {} \/ \E p \in Pages : S = {p}
<1>1. IsFiniteSet(S) /\ Cardinality(S) \in Nat
  BY FinitePages
<1>2. Cardinality(S) = 0 <=> S = {}
  BY <1>1, FS_EmptySet
<1>3. Cardinality(S) = 1 <=> \E p : S = {p}
  BY <1>1, FS_Singleton
<1>4. (\E p : S = {p}) <=> \E p \in Pages : S = {p}
  OBVIOUS
<1>5. Cardinality(S) <= 1 <=> Cardinality(S) = 0 \/ Cardinality(S) = 1
  BY <1>1
<1> QED
  BY <1>2, <1>3, <1>4, <1>5

\* The channel takes the page that is sent while it has room.
LEMMA RoomForOne ==
    ASSUME NEW S \in SUBSET Pages, NEW T \in SUBSET Pages, NEW n \in Nat,
           Cardinality(S) < n, Cardinality(T) <= 1
    PROVE  Cardinality(S \cup T) <= n
<1>1. IsFiniteSet(S) /\ Cardinality(S) \in Nat
  BY FinitePages
<1>2. T = {} \/ \E p \in Pages : T = {p}
  BY AtMostOne
<1>3. CASE T = {}
  <2>1. S \cup T = S
    BY <1>3
  <2> QED
    BY <1>1, <2>1
<1>4. CASE \E p \in Pages : T = {p}
  <2>1. PICK p \in Pages : T = {p}
    BY <1>4
  <2> DEFINE U == S \cup {p}
  <2>2. Cardinality(U) = IF p \in S THEN Cardinality(S) ELSE Cardinality(S) + 1
    BY <1>1, FS_AddElement
  <2>3. S \cup T = U
    BY <2>1
  <2> HIDE DEF U
  <2>4. Cardinality(U) <= n
    BY <1>1, <2>2
  <2> QED
    BY <2>3, <2>4
<1> QED
  BY <1>2, <1>3, <1>4

\* Taking pages away does not make a set larger.
LEMMA FewerPages ==
    ASSUME NEW S \in SUBSET Pages, NEW T \in SUBSET S
    PROVE  Cardinality(T) <= Cardinality(S)
BY FinitePages, FS_Subset

\* The channel has room for a natural number of pages.
LEMMA Capacity == Cardinality(Workers) \in Nat
BY PoolAssumption, FS_CardinalityType
-----------------------------------------------------------------------------
(* Types.                                                                  *)

\* The parts of TypeOK that are not about sizes.
Shapes ==
    /\ cancelled \in BOOLEAN
    /\ stage \in {"reading", "sending", "collecting", "joining", "returned"}
    /\ reading \subseteq Pages
    /\ error \in {"none", "cancelled", "failed"}
    /\ outcome \in {"none", "ok", "cancelled", "failed"}
    /\ unread \subseteq Pages
    /\ queue \subseteq Pages
    /\ worker \in [Workers -> {"waiting", "recognising", "reconstructing",
                               "stopped", "panicked"}]
    /\ holds \in [Workers -> SUBSET Pages]
    /\ made \subseteq Pages
    /\ refused \subseteq Pages
    /\ collected \subseteq Pages
    /\ received \subseteq Pages
    /\ lost \subseteq Pages

Sizes ==
    /\ Cardinality(reading) <= 1
    /\ Cardinality(queue) <= Cardinality(Workers)
    /\ \A w \in Workers : Cardinality(holds[w]) <= 1

LEMMA TypeParts == TypeOK <=> Shapes /\ Sizes
BY DEF TypeOK, Shapes, Sizes

LEMMA TypeInit == Init => TypeOK
<1> SUFFICES ASSUME Init PROVE TypeOK
  OBVIOUS
<1>1. Cardinality({}) = 0
  BY FS_EmptySet
<1>2. Shapes
  BY DEF Init, Shapes
<1>3. Cardinality(reading) = 0 /\ Cardinality(queue) = 0
  BY <1>1 DEF Init
<1>4. \A w \in Workers : Cardinality(holds[w]) = 0
  BY <1>1 DEF Init
<1>5. Sizes
  BY <1>3, <1>4, Capacity DEF Sizes
<1> QED
  BY <1>2, <1>5 DEF TypeOK, Shapes, Sizes

LEMMA ShapesStep ==
    ASSUME Shapes, [Next]_vars
    PROVE  Shapes'
<1> USE DEF Shapes, producer, channels, pool, taken, Fail
<1>1. CASE Cancel
  BY <1>1 DEF Cancel
<1>2. CASE ReadPage
  BY <1>2 DEF ReadPage
<1>3. CASE StopReading
  BY <1>3 DEF StopReading
<1>4. CASE SendPage
  BY <1>4 DEF SendPage
<1>5. CASE CollectPage
  BY <1>5 DEF CollectPage
<1>6. CASE CollectError
  BY <1>6 DEF CollectError
<1>7. CASE StopCollecting
  BY <1>7 DEF StopCollecting
<1>8. CASE Return
  BY <1>8 DEF Return
<1>9. ASSUME NEW w \in Workers, TakePage(w)
      PROVE  Shapes'
  BY <1>9 DEF TakePage
<1>10. ASSUME NEW w \in Workers, StopWorker(w) \/ Recognise(w)
       PROVE  Shapes'
  BY <1>10 DEF StopWorker, Recognise
<1>11. ASSUME NEW w \in Workers, SkipPage(w)
       PROVE  Shapes'
  BY <1>11 DEF SkipPage
<1>12. ASSUME NEW w \in Workers, MakePage(w)
       PROVE  Shapes'
  BY <1>12 DEF MakePage
<1>13. ASSUME NEW w \in Workers, Panic(w)
       PROVE  Shapes'
  BY <1>13 DEF Panic
<1>14. CASE UNCHANGED vars
  BY <1>14 DEF vars
<1> QED
  BY <1>1, <1>2, <1>3, <1>4, <1>5, <1>6, <1>7, <1>8, <1>9, <1>10, <1>11,
     <1>12, <1>13, <1>14 DEF Next, ProviderStep, WorkerStep

\* The channel and the hands of the threads: only three actions fill them.
LEMMA SizesStep ==
    ASSUME TypeOK, [Next]_vars
    PROVE  Sizes'
<1>1. Shapes /\ Sizes /\ Shapes'
  BY TypeParts, ShapesStep
<1>2. Cardinality({}) = 0
  BY FS_EmptySet
<1>3. \A p : Cardinality({p}) = 1
  BY FS_Singleton
<1> DEFINE Emptied(w) == holds' = [holds EXCEPT ![w] = {}]
<1>4. ASSUME NEW w \in Workers, Emptied(w)
      PROVE  \A v \in Workers : Cardinality(holds'[v]) <= 1
  BY <1>1, <1>2, <1>4 DEF Shapes, Sizes
<1>5. CASE ReadPage
  <2>1. PICK p \in unread : reading' = {p}
    BY <1>5 DEF ReadPage
  <2>2. Cardinality(reading') = 1
    BY <1>3, <2>1
  <2> QED
    BY <1>1, <1>5, <2>2 DEF ReadPage, Sizes, channels, pool
<1>6. CASE SendPage
  <2>1. Cardinality(queue \cup reading) <= Cardinality(Workers)
    BY <1>1, <1>6, Capacity, RoomForOne DEF SendPage, Shapes, Sizes
  <2> QED
    BY <1>1, <1>2, <1>6, <2>1 DEF SendPage, Sizes, pool
<1>7. ASSUME NEW w \in Workers, TakePage(w)
      PROVE  Sizes'
  <2>1. PICK p \in queue : queue' = queue \ {p}
                           /\ holds' = [holds EXCEPT ![w] = {p}]
    BY <1>7 DEF TakePage
  <2>2. Cardinality(queue') <= Cardinality(queue)
    BY <1>1, <2>1, FewerPages DEF Shapes
  <2>3. Cardinality(queue') \in Nat /\ Cardinality(queue) \in Nat
    BY <1>1, FinitePages DEF Shapes
  <2>4. Cardinality(queue') <= Cardinality(Workers)
    BY <1>1, <2>2, <2>3, Capacity DEF Sizes
  <2>5. \A v \in Workers : Cardinality(holds'[v]) <= 1
    <3> DEFINE One == {p}
    <3>1. Cardinality(One) = 1
      BY <1>3
    <3>2. holds' = [holds EXCEPT ![w] = One]
      BY <2>1
    <3> HIDE DEF One
    <3> QED
      BY <1>1, <3>1, <3>2 DEF Shapes, Sizes
  <2> QED
    BY <1>1, <1>7, <2>4, <2>5 DEF TakePage, Sizes, producer
<1>8. ASSUME NEW w \in Workers, SkipPage(w) \/ MakePage(w) \/ Panic(w)
      PROVE  Sizes'
  <2>1. \A v \in Workers : Cardinality(holds'[v]) <= 1
    BY <1>4, <1>8 DEF SkipPage, MakePage, Panic
  <2> QED
    BY <1>1, <1>8, <2>1 DEF SkipPage, MakePage, Panic, Sizes, producer, channels
<1>9. CASE UNCHANGED <<reading, queue, holds>>
  BY <1>1, <1>9 DEF Sizes
<1>10. ASSUME NEW w \in Workers, StopWorker(w) \/ Recognise(w)
       PROVE  UNCHANGED <<reading, queue, holds>>
  BY <1>10 DEF StopWorker, Recognise, producer, channels
<1>11. CASE \/ Cancel \/ StopReading \/ CollectPage \/ CollectError
            \/ StopCollecting \/ Return \/ UNCHANGED vars
  BY <1>9, <1>11 DEF Cancel, StopReading, CollectPage, CollectError,
     StopCollecting, Return, vars, producer, channels, pool
<1> QED
  BY <1>5, <1>6, <1>7, <1>8, <1>9, <1>10, <1>11
     DEF Next, ProviderStep, WorkerStep

\* The type invariant, with the capacity of the channel.
THEOREM TypeCorrect == Spec => []TypeOK
<1>1. TypeOK /\ [Next]_vars => TypeOK'
  <2> SUFFICES ASSUME TypeOK, [Next]_vars PROVE TypeOK'
    OBVIOUS
  <2>1. Shapes'
    BY TypeParts, ShapesStep
  <2>2. Sizes'
    BY SizesStep
  <2> QED
    BY <2>1, <2>2 DEF TypeOK, Shapes, Sizes
<1> QED
  BY TypeInit, <1>1, PTL DEF Spec
-----------------------------------------------------------------------------
(* The threads and what they hold.                                         *)

LEMMA ThreadsStep ==
    ASSUME Shapes, ThreadsInv, [Next]_vars
    PROVE  ThreadsInv'
<1> USE DEF Shapes, ThreadsInv, producer, channels, pool, taken, Fail
<1>1. CASE Cancel
  BY <1>1 DEF Cancel
<1>2. CASE ReadPage
  BY <1>2 DEF ReadPage
<1>3. CASE StopReading
  BY <1>3 DEF StopReading
<1>4. CASE SendPage
  BY <1>4 DEF SendPage
<1>5. CASE CollectPage
  BY <1>5 DEF CollectPage
<1>6. CASE CollectError
  BY <1>6 DEF CollectError
<1>7. CASE StopCollecting
  BY <1>7 DEF StopCollecting
<1>8. CASE Return
  BY <1>8 DEF Return
<1>9. ASSUME NEW w \in Workers, TakePage(w)
      PROVE  ThreadsInv'
  BY <1>9 DEF TakePage
<1>10. ASSUME NEW w \in Workers, StopWorker(w) \/ Recognise(w)
       PROVE  ThreadsInv'
  BY <1>10 DEF StopWorker, Recognise
<1>11. ASSUME NEW w \in Workers, SkipPage(w)
       PROVE  ThreadsInv'
  BY <1>11 DEF SkipPage
<1>12. ASSUME NEW w \in Workers, MakePage(w)
       PROVE  ThreadsInv'
  BY <1>12 DEF MakePage
<1>13. ASSUME NEW w \in Workers, Panic(w)
       PROVE  ThreadsInv'
  BY <1>13 DEF Panic
<1>14. CASE UNCHANGED vars
  BY <1>14 DEF vars
<1> QED
  BY <1>1, <1>2, <1>3, <1>4, <1>5, <1>6, <1>7, <1>8, <1>9, <1>10, <1>11,
     <1>12, <1>13, <1>14 DEF Next, ProviderStep, WorkerStep
-----------------------------------------------------------------------------
(* Pages move from one place to the next.                                  *)

\* A worker takes a page into empty hands.
LEMMA HeldGains ==
    ASSUME Shapes, NEW w \in Workers, holds[w] = {}, NEW p \in Pages,
           holds' = [holds EXCEPT ![w] = {p}]
    PROVE  Held' = Held \cup {p}
<1>1. \A x \in Held' : x \in Held \cup {p}
  BY DEF Held, Shapes
<1>2. \A x \in Held : x \in Held'
  <2> SUFFICES ASSUME NEW x, NEW v \in Workers, x \in holds[v]
               PROVE  x \in Held'
    BY DEF Held
  <2>1. x \in holds'[v]
    BY DEF Shapes
  <2> QED
    BY <2>1 DEF Held
<1>3. p \in holds'[w]
  BY DEF Shapes
<1>4. p \in Held'
  BY <1>3 DEF Held
<1> QED
  BY <1>1, <1>2, <1>4

\* A worker lets go of its page.
LEMMA HeldLoses ==
    ASSUME Shapes, \A v, w \in Workers : v # w => holds[v] \cap holds[w] = {},
           NEW w \in Workers, holds' = [holds EXCEPT ![w] = {}]
    PROVE  Held' = Held \ holds[w]
<1>1. \A x \in Held' : x \in Held /\ x \notin holds[w]
  <2> SUFFICES ASSUME NEW x, NEW v \in Workers, x \in holds'[v]
               PROVE  x \in Held /\ x \notin holds[w]
    BY DEF Held
  <2>1. v # w /\ x \in holds[v]
    BY DEF Shapes
  <2> QED
    BY <2>1 DEF Held
<1>2. \A x \in Held : x \notin holds[w] => x \in Held'
  <2> SUFFICES ASSUME NEW x, NEW v \in Workers, x \in holds[v], x \notin holds[w]
               PROVE  x \in Held'
    BY DEF Held
  <2>1. x \in holds'[v]
    BY DEF Shapes
  <2> QED
    BY <2>1 DEF Held
<1> QED
  BY <1>1, <1>2

LEMMA HeldUnchanged ==
    ASSUME UNCHANGED holds
    PROVE  Held' = Held
BY DEF Held

LEMMA PagesStep ==
    ASSUME Shapes, ThreadsInv, PagesConserved, [Next]_vars
    PROVE  PagesConserved'
<1> USE DEF Shapes, producer, channels, pool, taken
<1>1. CASE Cancel
  BY <1>1, HeldUnchanged DEF Cancel, PagesConserved
<1>2. CASE ReadPage
  BY <1>2, HeldUnchanged DEF ReadPage, PagesConserved, ThreadsInv
<1>3. CASE StopReading
  BY <1>3, HeldUnchanged DEF StopReading, PagesConserved
<1>4. CASE SendPage
  BY <1>4, HeldUnchanged DEF SendPage, PagesConserved
<1>5. CASE CollectPage
  BY <1>5, HeldUnchanged DEF CollectPage, PagesConserved
<1>6. CASE CollectError
  BY <1>6, HeldUnchanged DEF CollectError, PagesConserved
<1>7. CASE StopCollecting
  BY <1>7, HeldUnchanged DEF StopCollecting, PagesConserved
<1>8. CASE Return
  BY <1>8, HeldUnchanged DEF Return, PagesConserved
<1>9. ASSUME NEW w \in Workers, TakePage(w)
      PROVE  PagesConserved'
  <2>1. PICK p \in queue : queue' = queue \ {p}
                           /\ holds' = [holds EXCEPT ![w] = {p}]
    BY <1>9 DEF TakePage
  <2>2. holds[w] = {} /\ p \in Pages
    BY <1>9, <2>1 DEF TakePage, ThreadsInv
  <2>3. Held' = Held \cup {p}
    BY <2>1, <2>2, HeldGains
  <2>4. \A v \in Workers : p \notin holds[v]
    BY <2>1 DEF PagesConserved, Held
  <2>5. \A u, v \in Workers : u # v => holds'[u] \cap holds'[v] = {}
    BY <2>1, <2>4 DEF PagesConserved
  <2> HIDE DEF Shapes
  <2> QED
    BY <1>9, <2>1, <2>2, <2>3, <2>5 DEF TakePage, PagesConserved
<1>10. ASSUME NEW w \in Workers, StopWorker(w) \/ Recognise(w)
       PROVE  PagesConserved'
  BY <1>10, HeldUnchanged DEF StopWorker, Recognise, PagesConserved
<1>11. ASSUME NEW w \in Workers, SkipPage(w) \/ MakePage(w) \/ Panic(w)
       PROVE  PagesConserved'
  <2>1. holds' = [holds EXCEPT ![w] = {}]
    BY <1>11 DEF SkipPage, MakePage, Panic
  <2>2. Held' = Held \ holds[w]
    BY <2>1, HeldLoses DEF PagesConserved
  <2>3. holds[w] \subseteq Held
    BY DEF Held
  <2>4. \A u, v \in Workers : u # v => holds'[u] \cap holds'[v] = {}
    BY <2>1 DEF PagesConserved
  <2> HIDE DEF Shapes
  <2>5. CASE SkipPage(w)
    BY <2>5, <2>2, <2>3, <2>4 DEF SkipPage, PagesConserved
  <2>6. CASE MakePage(w)
    BY <2>6, <2>2, <2>3, <2>4 DEF MakePage, PagesConserved
  <2>7. CASE Panic(w)
    BY <2>7, <2>2, <2>3, <2>4 DEF Panic, PagesConserved
  <2> QED
    BY <1>11, <2>5, <2>6, <2>7
<1>12. CASE UNCHANGED vars
  BY <1>12, HeldUnchanged DEF vars, PagesConserved
<1> QED
  BY <1>1, <1>2, <1>3, <1>4, <1>5, <1>6, <1>7, <1>8, <1>9, <1>10, <1>11, <1>12
     DEF Next, ProviderStep, WorkerStep
-----------------------------------------------------------------------------
(* A document is whole.                                                    *)

LEMMA WholeStep ==
    ASSUME Shapes, ThreadsInv, OnlyWholeDocuments, [Next]_vars
    PROVE  OnlyWholeDocuments'
<1> USE DEF Shapes, ThreadsInv, OnlyWholeDocuments, producer, channels, pool,
            taken, Fail
<1>1. CASE Return
  BY <1>1 DEF Return, Stopped
<1>2. CASE \/ Cancel \/ ReadPage \/ StopReading \/ SendPage \/ CollectPage
           \/ CollectError \/ StopCollecting
  BY <1>2 DEF Cancel, ReadPage, StopReading, SendPage, CollectPage,
     CollectError, StopCollecting
<1>3. ASSUME NEW w \in Workers, WorkerStep(w) \/ Panic(w)
      PROVE  OnlyWholeDocuments'
  BY <1>3 DEF WorkerStep, TakePage, StopWorker, Recognise, SkipPage, MakePage,
     Panic
<1>4. CASE UNCHANGED vars
  BY <1>4 DEF vars
<1> QED
  BY <1>1, <1>2, <1>3, <1>4 DEF Next, ProviderStep

\* The inductive invariant.
IInv == TypeOK /\ ThreadsInv /\ PagesConserved /\ OnlyWholeDocuments

\* The pool's threads, pages and result agree in every reachable state.
THEOREM Invariance == Spec => []IInv
<1>1. Init => IInv
  <2> SUFFICES ASSUME Init PROVE IInv
    OBVIOUS
  <2>1. TypeOK
    BY TypeInit
  <2>2. Held = {}
    BY DEF Init, Held
  <2>3. ThreadsInv /\ PagesConserved /\ OnlyWholeDocuments
    BY <2>2 DEF Init, ThreadsInv, PagesConserved, OnlyWholeDocuments
  <2> QED
    BY <2>1, <2>3 DEF IInv
<1>2. IInv /\ [Next]_vars => IInv'
  <2> SUFFICES ASSUME IInv, [Next]_vars PROVE IInv'
    OBVIOUS
  <2>1. TypeOK /\ Shapes /\ ThreadsInv /\ PagesConserved /\ OnlyWholeDocuments
    BY TypeParts DEF IInv
  <2>2. TypeOK'
    BY <2>1, ShapesStep, SizesStep DEF TypeOK, Shapes, Sizes
  <2>3. ThreadsInv'
    BY <2>1, ThreadsStep
  <2>4. PagesConserved'
    BY <2>1, PagesStep
  <2>5. OnlyWholeDocuments'
    BY <2>1, WholeStep
  <2> QED
    BY <2>2, <2>3, <2>4, <2>5 DEF IInv
<1> QED
  BY <1>1, <1>2, PTL DEF Spec

\* No page is dropped or handled twice, whoever is cancelled or panics.
THEOREM PagesAreConserved == Spec => []PagesConserved
<1>1. IInv => PagesConserved
  BY DEF IInv
<1> QED
  BY <1>1, Invariance, PTL

\* A returned document has every selected page, and no thread is left behind it.
THEOREM DocumentsAreWhole == Spec => []OnlyWholeDocuments
<1>1. IInv => OnlyWholeDocuments
  BY DEF IInv
<1> QED
  BY <1>1, Invariance, PTL
-----------------------------------------------------------------------------
(* Rendered pages.                                                         *)

\* Workers hold no more pages than there are workers: a page is mapped to a
\* worker that holds it.
LEMMA HeldBounded ==
    ASSUME TypeOK
    PROVE  Cardinality(Held) <= Cardinality(Workers)
<1> DEFINE holder == [p \in Held |-> CHOOSE w \in Workers : p \in holds[w]]
<1>1. \A p \in Held : holder[p] \in Workers /\ p \in holds[holder[p]]
  BY DEF Held
<1>2. \A w \in Workers : holds[w] = {} \/ \E p \in Pages : holds[w] = {p}
  BY AtMostOne DEF TypeOK
<1>3. \A p, q \in Held : holder[p] = holder[q] => p = q
  BY <1>1, <1>2
<1>4. holder \in [Held -> Workers]
  BY <1>1
<1> HIDE DEF holder
<1>5. holder \in Injection(Held, Workers)
  BY <1>3, <1>4 DEF Injection, IsInjective
<1> QED
  BY <1>5, PoolAssumption, FS_Injection

\* The memory of a long document is bounded by the pool, not by the document.
THEOREM RenderedPagesAreBounded == Spec => []RenderedPagesBounded
<1>1. TypeOK => RenderedPagesBounded
  <2> SUFFICES ASSUME TypeOK PROVE RenderedPagesBounded
    OBVIOUS
  <2> DEFINE inWork == queue \cup Held
  <2>1. reading \in SUBSET Pages /\ queue \in SUBSET Pages /\ Held \in SUBSET Pages
    BY DEF TypeOK, Held
  <2>2. IsFiniteSet(queue) /\ IsFiniteSet(Held) /\ IsFiniteSet(reading)
    BY <2>1, FinitePages
  <2>3. /\ Cardinality(queue) \in Nat /\ Cardinality(Held) \in Nat
        /\ Cardinality(queue \cap Held) \in Nat
    BY <2>1, FinitePages
  <2>4. Cardinality(inWork) =
            Cardinality(queue) + Cardinality(Held) - Cardinality(queue \cap Held)
    BY <2>2, FS_Union
  <2>5. Cardinality(inWork) \in Nat
    BY <2>1, FinitePages
  <2> HIDE DEF inWork
  <2>6. Cardinality(inWork) <= 2 * Cardinality(Workers)
    BY <2>3, <2>4, <2>5, HeldBounded, Capacity DEF TypeOK
  <2>7. Cardinality(inWork) < 2 * Cardinality(Workers) + 1
    BY <2>5, <2>6, Capacity
  <2>8. inWork \in SUBSET Pages /\ Cardinality(reading) <= 1
    BY <2>1 DEF inWork, TypeOK
  <2>9. 2 * Cardinality(Workers) + 1 \in Nat
    BY Capacity
  <2>10. Cardinality(inWork \cup reading) <= 2 * Cardinality(Workers) + 1
    BY <2>1, <2>7, <2>8, <2>9, RoomForOne
  <2>11. inWork \cup reading = reading \cup queue \cup Held
    BY DEF inWork
  <2> QED
    BY <2>10, <2>11 DEF RenderedPagesBounded
<1> QED
  BY <1>1, TypeCorrect, PTL

\* Whoever is cancelled or panics, each page is in one place and few are rendered.
THEOREM PagesAreAccounted == Spec => []PagesAccounted
<1>1. IInv /\ RenderedPagesBounded => PagesAccounted
  BY DEF IInv, PagesAccounted
<1> QED
  BY <1>1, Invariance, RenderedPagesAreBounded, PTL
=============================================================================

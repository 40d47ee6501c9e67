-------------------------- MODULE JobManagerProofs --------------------------
(***************************************************************************)
(* Machine-checked proofs about JobManager, for every number of sessions,  *)
(* keys and jobs and every value of the limits.                            *)
(***************************************************************************)
EXTENDS JobManager, FiniteSetTheorems, TLAPS

(* Sums written as cardinalities.                                          *)

\* A sum over jobs of bounded naturals is the size of a finite set.
LEMMA UnitsFinite ==
    ASSUME NEW m \in Nat, NEW f \in [Jobs -> 0 .. m], NEW S \in SUBSET Jobs
    PROVE  IsFiniteSet(Units(f, S)) /\ Total(f, S) \in Nat
<1>1. IsFiniteSet(Jobs \X (1 .. m))
  <2>1. IsFiniteSet(Jobs)
    BY ConstantsAssumption
  <2>2. IsFiniteSet(1 .. m)
    BY FS_Interval
  <2> QED
    BY <2>1, <2>2, FS_Product
<1>2. Units(f, S) \subseteq Jobs \X (1 .. m)
  BY DEF Units
<1>3. IsFiniteSet(Units(f, S))
  BY <1>1, <1>2, FS_Subset
<1> QED
  BY <1>3, FS_CardinalityType DEF Total

\* The jobs whose task holds a permit.
Holders == {j \in Jobs : runner[j] \in Holding}

LEMMA HoldersFinite ==
    IsFiniteSet(Holders) /\ Cardinality(Holders) \in Nat
<1>1. IsFiniteSet(Jobs) /\ Holders \subseteq Jobs
  BY ConstantsAssumption DEF Holders
<1> QED
  BY <1>1, FS_Subset, FS_CardinalityType

\* The first conjunct of PermitsConserved, which is inductive with TaskInv.
PermitInv == permits + Cardinality(Holders) = MaxConcurrent

\* The inductive invariant.
IInv == TypeOK /\ TaskInv /\ DiskInv /\ PermitInv
-----------------------------------------------------------------------------
(* Removing inputs keeps the storage variables well typed.                 *)

LEMMA RemoveInputsType ==
    ASSUME TypeOK, NEW S \in SUBSET Jobs, NEW K, RemoveInputs(S, K)
    PROVE  /\ files' \subseteq Jobs
           /\ pieces' \in [Jobs -> 0 .. MaxDocument]
           /\ torn' \subseteq files'
           /\ bytes' \in [Jobs -> 0 .. MaxDocument]
           /\ stored' \in Nat
<1>1. MaxDocument \in Nat
  BY ConstantsAssumption
<1>2. S \ K \in SUBSET Jobs
  OBVIOUS
<1>3. Total(bytes, S \ K) \in Nat
  BY <1>1, <1>2, UnitsFinite DEF TypeOK
<1>4. stored' \in Nat
  BY <1>3 DEF RemoveInputs, Monus, TypeOK
<1> QED
  BY <1>1, <1>4 DEF RemoveInputs, TypeOK
-----------------------------------------------------------------------------
(* The tasks and the records stay in step.                                 *)

LEMMA TaskStep ==
    ASSUME TypeOK, TaskInv, [Next]_vars
    PROVE  TaskInv'
<1> USE DEF TypeOK, TaskInv, JobState, Pending, Busy, Terminal, Working,
            admission, lookup, storage, tasks
<1>1. ASSUME NEW s \in Sessions, NEW k \in Keys, NEW d \in 0 .. MaxDocument,
             Create(s, k, d)
      PROVE  TaskInv'
  BY <1>1 DEF Create
<1>2. ASSUME NEW s \in Sessions, NEW j \in Jobs, AppendChunk(s, j)
      PROVE  TaskInv'
  BY <1>2 DEF AppendChunk
<1>3. ASSUME NEW s \in Sessions, NEW j \in Jobs, TearChunk(s, j)
      PROVE  TaskInv'
  BY <1>3 DEF TearChunk
<1>4. ASSUME NEW s \in Sessions, NEW j \in Jobs, CompleteInput(s, j)
      PROVE  TaskInv'
  BY <1>4 DEF CompleteInput, Owns, Present
<1>5. ASSUME NEW s \in Sessions, NEW j \in Jobs, CancelPending(s, j)
      PROVE  TaskInv'
  BY <1>5 DEF CancelPending, Owns, Present
<1>6. ASSUME NEW s \in Sessions, NEW j \in Jobs, CancelRunning(s, j)
      PROVE  TaskInv'
  BY <1>6 DEF CancelRunning, Owns, Present
<1>7. ASSUME NEW s \in Sessions, NEW j \in Jobs, AcknowledgeResult(s, j)
      PROVE  TaskInv'
  BY <1>7 DEF AcknowledgeResult, Owns, Present
<1>8. ASSUME NEW j \in Jobs, RunnerStart(j)
      PROVE  TaskInv'
  BY <1>8 DEF RunnerStart
<1>9. ASSUME NEW j \in Jobs, AcquirePermit(j)
      PROVE  TaskInv'
  BY <1>9 DEF AcquirePermit
<1>10. ASSUME NEW j \in Jobs, LeaveQueue(j)
      PROVE  TaskInv'
  BY <1>10 DEF LeaveQueue
<1>11. ASSUME NEW j \in Jobs, BeginProvider(j)
      PROVE  TaskInv'
  BY <1>11 DEF BeginProvider, Runnable
<1>12. ASSUME NEW j \in Jobs, ReturnPermit(j)
      PROVE  TaskInv'
  BY <1>12 DEF ReturnPermit, Runnable
<1>13. ASSUME NEW j \in Jobs, ProviderReturns(j) \/ ProviderGivesUp(j)
      PROVE  TaskInv'
  BY <1>13 DEF ProviderReturns, ProviderGivesUp
<1>14. ASSUME NEW j \in Jobs, JoinProvider(j)
      PROVE  TaskInv'
  BY <1>14 DEF JoinProvider
<1>15. ASSUME NEW j \in Jobs, Settle(j)
      PROVE  TaskInv'
  BY <1>15 DEF Settle, Stopped
<1>16. ASSUME NEW j \in Jobs, Timeout(j)
      PROVE  TaskInv'
  BY <1>16 DEF Timeout
<1>17. ASSUME NEW j \in Jobs, Expire(j)
      PROVE  TaskInv'
  BY <1>17 DEF Expire
<1>18. ASSUME NEW j \in Jobs, Reap(j)
      PROVE  TaskInv'
  BY <1>18 DEF Reap
<1>19. ASSUME NEW E \in SUBSET Jobs, NEW R \in SUBSET Jobs, Sweep(E, R)
      PROVE  TaskInv'
  BY <1>19 DEF Sweep, Sweepable
<1>20. ASSUME NEW R \in purging, PurgeIdempotency(R)
      PROVE  TaskInv'
  BY <1>20 DEF PurgeIdempotency
<1>21. ASSUME NEW R \in purging, DropSweep(R)
      PROVE  TaskInv'
  BY <1>21 DEF DropSweep
<1>22. CASE UNCHANGED vars
  BY <1>22 DEF vars
<1> QED
  BY <1>1, <1>2, <1>3, <1>4, <1>5, <1>6, <1>7, <1>8, <1>9, <1>10, <1>11,
     <1>12, <1>13, <1>14, <1>15, <1>16, <1>17, <1>18, <1>19, <1>20, <1>21,
     <1>22
     DEF Next, ClientStep, RunnerStep
-----------------------------------------------------------------------------
(* Permits: a step moves at most one task into or out of Holding.          *)

LEMMA HoldersKept ==
    ASSUME UNCHANGED permits, Holders' = Holders, PermitInv
    PROVE  PermitInv'
BY DEF PermitInv

LEMMA PermitStep ==
    ASSUME TypeOK, TaskInv, PermitInv, [Next]_vars
    PROVE  PermitInv'
<1>1. MaxConcurrent \in Nat /\ permits \in Nat
  BY ConstantsAssumption DEF TypeOK
<1>2. ASSUME NEW j \in Jobs, j \notin Holders, permits' = permits - 1,
             Holders' = Holders \cup {j}
      PROVE  PermitInv'
  <2>1. Cardinality(Holders') = Cardinality(Holders) + 1
    BY <1>2, HoldersFinite, FS_AddElement
  <2> QED
    BY <1>1, <1>2, <2>1, HoldersFinite DEF PermitInv
<1>3. ASSUME NEW j \in Jobs, j \in Holders, permits' = permits + 1,
             Holders' = Holders \ {j}
      PROVE  PermitInv'
  <2>1. Cardinality(Holders') = Cardinality(Holders) - 1
    BY <1>3, HoldersFinite, FS_RemoveElement
  <2> QED
    BY <1>1, <1>3, <2>1, HoldersFinite DEF PermitInv
<1> USE DEF TypeOK, RunnerState, Holding, Holders, admission, lookup, storage,
            tasks
<1>4. ASSUME NEW s \in Sessions, ClientStep(s)
      PROVE  UNCHANGED permits /\ Holders' = Holders
  BY <1>4 DEF ClientStep, Create, AppendChunk, TearChunk, CompleteInput,
              CancelPending, CancelRunning, AcknowledgeResult, TaskInv,
              Owns, Present
<1>5. ASSUME NEW j \in Jobs, AcquirePermit(j)
      PROVE  /\ j \notin Holders /\ permits' = permits - 1
             /\ Holders' = Holders \cup {j}
  BY <1>5 DEF AcquirePermit
<1>6. ASSUME NEW j \in Jobs, ReturnPermit(j) \/ JoinProvider(j) \/ Reap(j)
      PROVE  /\ j \in Holders /\ permits' = permits + 1
             /\ Holders' = Holders \ {j}
  BY <1>6 DEF ReturnPermit, JoinProvider, Reap
<1>7. ASSUME NEW j \in Jobs,
             \/ RunnerStart(j) \/ LeaveQueue(j) \/ BeginProvider(j)
             \/ ProviderReturns(j) \/ ProviderGivesUp(j) \/ Settle(j)
             \/ Timeout(j) \/ Expire(j)
      PROVE  UNCHANGED permits /\ Holders' = Holders
  BY <1>7 DEF RunnerStart, LeaveQueue, BeginProvider, ProviderReturns,
     ProviderGivesUp, Settle,
              Timeout, Expire
<1>8. ASSUME \/ \E E, R \in SUBSET Jobs : Sweep(E, R)
             \/ \E R \in purging : PurgeIdempotency(R) \/ DropSweep(R)
             \/ UNCHANGED vars
      PROVE  UNCHANGED permits /\ Holders' = Holders
  BY <1>8 DEF Sweep, PurgeIdempotency, DropSweep, vars
<1> HIDE DEF TypeOK, Holders
<1> QED
  BY <1>2, <1>3, <1>4, <1>5, <1>6, <1>7, <1>8, HoldersKept DEF Next, RunnerStep
-----------------------------------------------------------------------------
(* Types.  The upper bound of `permits` comes from PermitInv.              *)

LEMMA TypeStep ==
    ASSUME TypeOK, TaskInv, DiskInv, PermitInv', [Next]_vars
    PROVE  TypeOK'
<1>1. permits' \in Int => permits' <= MaxConcurrent
  <2>1. IsFiniteSet(Holders') /\ Cardinality(Holders') \in Nat
    <3>1. IsFiniteSet(Jobs) /\ Holders' \subseteq Jobs
      BY ConstantsAssumption DEF Holders
    <3> QED
      BY <3>1, FS_Subset, FS_CardinalityType
  <2>2. MaxConcurrent \in Nat
    BY ConstantsAssumption
  <2> QED
    BY <2>1, <2>2 DEF PermitInv
<1> USE ConstantsAssumption DEF JobState, Pending, Busy, Terminal, RunnerState,
        admission, lookup, storage, tasks
<1>2. ASSUME NEW s \in Sessions, NEW k \in Keys, NEW d \in 0 .. MaxDocument,
             Create(s, k, d)
      PROVE  TypeOK'
  <2>1. PICK j \in Jobs : idempotency' = [idempotency EXCEPT ![<<s, k>>] = j]
    BY <1>2 DEF Create
  <2>2. idempotency' \in [Sessions \X Keys -> Jobs \cup {NoJob}]
    BY <2>1 DEF TypeOK
  <2> QED
    BY <1>2, <2>2 DEF Create, TypeOK
<1>3. ASSUME NEW s \in Sessions, NEW j \in Jobs, AppendChunk(s, j)
      PROVE  TypeOK'
  BY <1>3 DEF AppendChunk, Appendable, DiskInv, TypeOK
<1>4. ASSUME NEW s \in Sessions, NEW j \in Jobs, TearChunk(s, j)
      PROVE  TypeOK'
  BY <1>4 DEF TearChunk, Appendable, TypeOK
<1>5. ASSUME NEW s \in Sessions, NEW j \in Jobs, CompleteInput(s, j)
      PROVE  TypeOK'
  BY <1>5 DEF CompleteInput, TypeOK
<1>6. ASSUME NEW s \in Sessions, NEW j \in Jobs, CancelPending(s, j)
      PROVE  TypeOK'
  <2>1. PICK K : RemoveInputs({j}, K)
    BY <1>6 DEF CancelPending
  <2>2. /\ files' \subseteq Jobs /\ torn' \subseteq files' /\ stored' \in Nat
        /\ pieces' \in [Jobs -> 0 .. MaxDocument]
        /\ bytes' \in [Jobs -> 0 .. MaxDocument]
    BY <2>1, RemoveInputsType
  <2> QED
    BY <1>1, <1>6, <2>2 DEF CancelPending, TypeOK
<1>7. ASSUME NEW s \in Sessions, NEW j \in Jobs, CancelRunning(s, j)
      PROVE  TypeOK'
  BY <1>7 DEF CancelRunning, TypeOK
<1>8. ASSUME NEW s \in Sessions, NEW j \in Jobs, AcknowledgeResult(s, j)
      PROVE  TypeOK'
  BY <1>8 DEF AcknowledgeResult, TypeOK
<1>9. ASSUME NEW j \in Jobs, RunnerStart(j)
      PROVE  TypeOK'
  BY <1>9 DEF RunnerStart, TypeOK
<1>10. ASSUME NEW j \in Jobs, AcquirePermit(j)
      PROVE  TypeOK'
  BY <1>1, <1>10 DEF AcquirePermit, TypeOK
<1>11. ASSUME NEW j \in Jobs, LeaveQueue(j)
      PROVE  TypeOK'
  BY <1>11 DEF LeaveQueue, TypeOK
<1>12. ASSUME NEW j \in Jobs, BeginProvider(j)
      PROVE  TypeOK'
  BY <1>12 DEF BeginProvider, TypeOK
<1>13. ASSUME NEW j \in Jobs, ReturnPermit(j)
      PROVE  TypeOK'
  BY <1>1, <1>13 DEF ReturnPermit, TypeOK
<1>14. ASSUME NEW j \in Jobs, ProviderReturns(j) \/ ProviderGivesUp(j)
      PROVE  TypeOK'
  <2>1. CASE ProviderReturns(j)
    BY <2>1 DEF ProviderReturns, TypeOK
  <2>2. CASE ProviderGivesUp(j)
    BY <2>2 DEF ProviderGivesUp, TypeOK
  <2> QED
    BY <1>14, <2>1, <2>2
<1>15. ASSUME NEW j \in Jobs, JoinProvider(j)
      PROVE  TypeOK'
  BY <1>1, <1>15 DEF JoinProvider, TypeOK
<1>16. ASSUME NEW j \in Jobs, Settle(j)
      PROVE  TypeOK'
  <2>1. PICK K : RemoveInputs({j}, K)
    BY <1>16 DEF Settle
  <2>2. /\ files' \subseteq Jobs /\ torn' \subseteq files' /\ stored' \in Nat
        /\ pieces' \in [Jobs -> 0 .. MaxDocument]
        /\ bytes' \in [Jobs -> 0 .. MaxDocument]
    BY <2>1, RemoveInputsType
  <2> QED
    BY <1>1, <1>16, <2>2 DEF Settle, Stopped, TypeOK
<1>17. ASSUME NEW j \in Jobs, Timeout(j)
      PROVE  TypeOK'
  BY <1>17 DEF Timeout, TypeOK
<1>18. ASSUME NEW j \in Jobs, Expire(j)
      PROVE  TypeOK'
  BY <1>18 DEF Expire, TypeOK
<1>19. ASSUME NEW j \in Jobs, Reap(j)
      PROVE  TypeOK'
  <2>1. PICK K : RemoveInputs({j}, K)
    BY <1>19 DEF Reap
  <2>2. /\ files' \subseteq Jobs /\ torn' \subseteq files' /\ stored' \in Nat
        /\ pieces' \in [Jobs -> 0 .. MaxDocument]
        /\ bytes' \in [Jobs -> 0 .. MaxDocument]
    BY <2>1, RemoveInputsType
  <2>3. permits' \in 0 .. MaxConcurrent
    BY <1>1, <1>19 DEF Reap, TypeOK
  <2> QED
    BY <1>19, <2>2, <2>3 DEF Reap, TypeOK
<1>20. ASSUME NEW E \in SUBSET Jobs, NEW R \in SUBSET Jobs, Sweep(E, R)
      PROVE  TypeOK'
  <2>1. PICK K : RemoveInputs(E \cup R, K)
    BY <1>20 DEF Sweep
  <2>2. /\ files' \subseteq Jobs /\ torn' \subseteq files' /\ stored' \in Nat
        /\ pieces' \in [Jobs -> 0 .. MaxDocument]
        /\ bytes' \in [Jobs -> 0 .. MaxDocument]
    BY <2>1, RemoveInputsType
  <2> QED
    BY <1>1, <1>20, <2>2 DEF Sweep, TypeOK
<1>21. ASSUME NEW R \in purging, PurgeIdempotency(R)
      PROVE  TypeOK'
  BY <1>21 DEF PurgeIdempotency, TypeOK
<1>22. ASSUME NEW R \in purging, DropSweep(R)
      PROVE  TypeOK'
  BY <1>22 DEF DropSweep, TypeOK
<1>23. CASE UNCHANGED vars
  BY <1>23 DEF vars, TypeOK
<1> QED
  BY <1>2, <1>3, <1>4, <1>5, <1>6, <1>7, <1>8, <1>9, <1>10, <1>11, <1>12,
     <1>13, <1>14, <1>15, <1>16, <1>17, <1>18, <1>19, <1>20, <1>21, <1>22,
     <1>23
     DEF Next, ClientStep, RunnerStep
-----------------------------------------------------------------------------
(* The disk holds what the records accepted.                               *)

LEMMA DiskStep ==
    ASSUME TypeOK, TaskInv, DiskInv, [Next]_vars
    PROVE  DiskInv'
<1>1. MaxDocument \in Nat
  BY ConstantsAssumption
<1> USE DEF TypeOK, DiskInv, JobState, Pending, Busy, Terminal, admission,
            lookup, storage, tasks
<1>2. ASSUME NEW s \in Sessions, NEW k \in Keys, NEW d \in 0 .. MaxDocument,
             Create(s, k, d)
      PROVE  DiskInv'
  BY <1>1, <1>2 DEF Create
<1>3. ASSUME NEW s \in Sessions, NEW j \in Jobs, AppendChunk(s, j)
      PROVE  DiskInv'
  BY <1>1, <1>3 DEF AppendChunk, Appendable, Owns, Present
<1>4. ASSUME NEW s \in Sessions, NEW j \in Jobs, TearChunk(s, j)
      PROVE  DiskInv'
  BY <1>1, <1>4 DEF TearChunk
<1>5. ASSUME NEW s \in Sessions, NEW j \in Jobs, CompleteInput(s, j)
      PROVE  DiskInv'
  BY <1>1, <1>5 DEF CompleteInput, Owns, Present
<1>6. ASSUME NEW s \in Sessions, NEW j \in Jobs, CancelPending(s, j)
      PROVE  DiskInv'
  BY <1>1, <1>6 DEF CancelPending, RemoveInputs, Owns, Present, TaskInv
<1>7. ASSUME NEW s \in Sessions, NEW j \in Jobs, CancelRunning(s, j)
      PROVE  DiskInv'
  BY <1>1, <1>7 DEF CancelRunning, Owns, Present
<1>8. ASSUME NEW s \in Sessions, NEW j \in Jobs, AcknowledgeResult(s, j)
      PROVE  DiskInv'
  BY <1>1, <1>8 DEF AcknowledgeResult
<1>9. ASSUME NEW j \in Jobs, RunnerStart(j)
      PROVE  DiskInv'
  BY <1>1, <1>9 DEF RunnerStart, TaskInv
<1>10. ASSUME NEW j \in Jobs, AcquirePermit(j)
      PROVE  DiskInv'
  BY <1>1, <1>10 DEF AcquirePermit
<1>11. ASSUME NEW j \in Jobs, LeaveQueue(j)
      PROVE  DiskInv'
  BY <1>1, <1>11 DEF LeaveQueue
<1>12. ASSUME NEW j \in Jobs, BeginProvider(j)
      PROVE  DiskInv'
  BY <1>1, <1>12 DEF BeginProvider, Runnable
<1>13. ASSUME NEW j \in Jobs, ReturnPermit(j)
      PROVE  DiskInv'
  BY <1>1, <1>13 DEF ReturnPermit
<1>14. ASSUME NEW j \in Jobs, ProviderReturns(j) \/ ProviderGivesUp(j)
      PROVE  DiskInv'
  BY <1>1, <1>14 DEF ProviderReturns, ProviderGivesUp
<1>15. ASSUME NEW j \in Jobs, JoinProvider(j)
      PROVE  DiskInv'
  BY <1>1, <1>15 DEF JoinProvider
<1>16. ASSUME NEW j \in Jobs, Settle(j)
      PROVE  DiskInv'
  BY <1>1, <1>16 DEF Settle, RemoveInputs, TaskInv, Working
<1>17. ASSUME NEW j \in Jobs, Timeout(j)
      PROVE  DiskInv'
  BY <1>1, <1>17 DEF Timeout
<1>18. ASSUME NEW j \in Jobs, Expire(j)
      PROVE  DiskInv'
  BY <1>1, <1>18 DEF Expire, TaskInv, Working
<1>19. ASSUME NEW j \in Jobs, Reap(j)
      PROVE  DiskInv'
  BY <1>1, <1>19 DEF Reap, RemoveInputs, TaskInv, Working
<1>20. ASSUME NEW E \in SUBSET Jobs, NEW R \in SUBSET Jobs, Sweep(E, R)
      PROVE  DiskInv'
  BY <1>1, <1>20 DEF Sweep, Sweepable, RemoveInputs, TaskInv, Working
<1>21. ASSUME NEW R \in purging, PurgeIdempotency(R)
      PROVE  DiskInv'
  BY <1>1, <1>21 DEF PurgeIdempotency
<1>22. ASSUME NEW R \in purging, DropSweep(R)
      PROVE  DiskInv'
  BY <1>1, <1>22 DEF DropSweep
<1>23. CASE UNCHANGED vars
  BY <1>23 DEF vars
<1> QED
  BY <1>2, <1>3, <1>4, <1>5, <1>6, <1>7, <1>8, <1>9, <1>10, <1>11, <1>12,
     <1>13, <1>14, <1>15, <1>16, <1>17, <1>18, <1>19, <1>20, <1>21, <1>22,
     <1>23
     DEF Next, ClientStep, RunnerStep
-----------------------------------------------------------------------------
(* The inductive invariant and what it gives.                              *)

LEMMA InitIInv == Init => IInv
<1> SUFFICES ASSUME Init
             PROVE  IInv
  OBVIOUS
<1>1. TypeOK
  BY ConstantsAssumption DEF Init, TypeOK, RunnerState
<1>2. TaskInv
  BY DEF Init, TaskInv, Busy, Working
<1>3. DiskInv
  BY ConstantsAssumption DEF Init, DiskInv, Pending, Busy
<1>4. PermitInv
  <2>1. Holders = {}
    BY DEF Init, Holders, Holding
  <2> QED
    BY <2>1, FS_EmptySet, ConstantsAssumption DEF Init, PermitInv
<1> QED
  BY <1>1, <1>2, <1>3, <1>4 DEF IInv

LEMMA StepIInv == IInv /\ [Next]_vars => IInv'
BY TaskStep, PermitStep, TypeStep, DiskStep DEF IInv

\* Every reachable state satisfies the inductive invariant.
THEOREM Invariance == Spec => []IInv
BY InitIInv, StepIInv, PTL DEF Spec

\* Type correctness: every variable of the manager stays in its range, the
\* number of free permits included.
THEOREM TypeCorrect == Spec => []TypeOK
<1>1. IInv => TypeOK
  BY DEF IInv
<1> QED
  BY <1>1, Invariance, PTL

\* No path out of run_queued loses or mints a permit, and never more than
\* MaxConcurrent providers work, however many jobs there are.
THEOREM PermitsAreConserved == Spec => []PermitsConserved
<1>1. IInv => PermitsConserved
  <2> SUFFICES ASSUME IInv
               PROVE  PermitsConserved
    OBVIOUS
  <2> DEFINE Workers == {j \in Jobs : provider[j] = "busy"}
  <2>1. Workers \in SUBSET Holders
    BY DEF IInv, TaskInv, Working, Holders, Holding
  <2>2. Cardinality(Workers) <= Cardinality(Holders)
    BY <2>1, HoldersFinite, FS_Subset
  <2>3. Cardinality(Workers) \in Nat
    BY <2>1, HoldersFinite, FS_Subset, FS_CardinalityType
  <2>4. permits \in Nat /\ MaxConcurrent \in Nat
    BY ConstantsAssumption DEF IInv, TypeOK
  <2>5. permits + Cardinality(Holders) = MaxConcurrent
    BY DEF IInv, PermitInv
  <2>6. Cardinality(Workers) <= MaxConcurrent
    BY <2>2, <2>3, <2>4, <2>5, HoldersFinite
  <2> QED
    BY <2>5, <2>6 DEF PermitsConserved, Holders
<1> QED
  BY <1>1, Invariance, PTL

\* A queued job has a task that will run it and a busy one a task that will end
\* it, in every interleaving of requests, timeouts and sweeps.
THEOREM JobsAreCovered == Spec => []RunnerCoversJob
<1>1. IInv => RunnerCoversJob
  BY DEF IInv, TaskInv, RunnerCoversJob
<1> QED
  BY <1>1, Invariance, PTL

\* A job whose token has fired is never reported as completed, and only
\* completed jobs keep results.
THEOREM NoCancelledCompletion == Spec => []CompletedWasNotCancelled
<1>1. IInv => CompletedWasNotCancelled
  BY DEF IInv, TaskInv, CompletedWasNotCancelled
<1> QED
  BY <1>1, Invariance, PTL

\* A working provider, also a late one, has its record and its whole input.
THEOREM ProviderKeepsInput == Spec => []BusyProviderKeepsInput
<1>1. IInv => BusyProviderKeepsInput
  BY DEF IInv, TypeOK, TaskInv, DiskInv, BusyProviderKeepsInput, Present,
         JobState, Pending, Busy, Terminal, Working
<1> QED
  BY <1>1, Invariance, PTL
-----------------------------------------------------------------------------
(* The ledger.                                                             *)

LEMMA LedgerStep ==
    ASSUME IInv, LedgerMatchesDisk, [Next]_vars
    PROVE  LedgerMatchesDisk'
<1> DEFINE U == Units(pieces, Jobs)
<1>1. MaxDocument \in Nat /\ pieces \in [Jobs -> 0 .. MaxDocument]
      /\ bytes \in [Jobs -> 0 .. MaxDocument] /\ stored \in Nat
  BY ConstantsAssumption DEF IInv, TypeOK
<1>2. IsFiniteSet(U) /\ Cardinality(U) \in Nat /\ stored = Cardinality(U)
  BY <1>1, UnitsFinite DEF LedgerMatchesDisk, Total
<1>3. ASSUME NEW j \in Jobs, pieces' = [pieces EXCEPT ![j] = @ + 1],
             stored' = stored + 1
      PROVE  LedgerMatchesDisk'
  <2>1. Units(pieces', Jobs) = U \cup {<<j, pieces[j] + 1>>}
    BY <1>1, <1>3 DEF Units
  <2>2. <<j, pieces[j] + 1>> \notin U
    BY <1>1 DEF Units
  <2>3. Cardinality(Units(pieces', Jobs)) = Cardinality(U) + 1
    BY <1>2, <2>1, <2>2, FS_AddElement
  <2> QED
    BY <1>2, <1>3, <2>3 DEF LedgerMatchesDisk, Total
<1>4. ASSUME NEW S \in SUBSET Jobs, NEW K, RemoveInputs(S, K)
      PROVE  LedgerMatchesDisk'
  <2> DEFINE gone == S \ K
             V == Units(pieces, gone)
  <2>1. Units(bytes, gone) = V
    BY DEF IInv, DiskInv, Units
  <2>2. Units(pieces', Jobs) = U \ V
    BY <1>1, <1>4 DEF RemoveInputs, Units
  <2>3. U \cap V = V
    BY DEF Units
  <2>4. Cardinality(Units(pieces', Jobs)) = Cardinality(U) - Cardinality(V)
    <3> HIDE DEF U, V
    <3>1. Cardinality(U \ V) = Cardinality(U) - Cardinality(U \cap V)
      BY <1>2, FS_Difference
    <3> QED
      BY <2>2, <2>3, <3>1
  <2>5. Cardinality(V) \in Nat /\ Cardinality(V) <= Cardinality(U)
    <3>1. V \in SUBSET U
      BY DEF Units
    <3> QED
      BY <1>2, <3>1, FS_Subset, FS_CardinalityType
  <2>6. stored' = Monus(stored, Cardinality(V))
    BY <1>4, <2>1 DEF RemoveInputs, Total
  <2> QED
    BY <1>2, <2>4, <2>5, <2>6 DEF LedgerMatchesDisk, Monus, Total
<1>5. ASSUME UNCHANGED <<pieces, stored>>
      PROVE  LedgerMatchesDisk'
  BY <1>5 DEF LedgerMatchesDisk, Total, Units
<1>6. ASSUME NEW s \in Sessions, ClientStep(s)
      PROVE  LedgerMatchesDisk'
  BY <1>3, <1>4, <1>5, <1>6
     DEF ClientStep, Create, AppendChunk, TearChunk, CompleteInput,
         CancelPending, CancelRunning, AcknowledgeResult, storage
<1>7. ASSUME NEW j \in Jobs,
             RunnerStep(j) \/ AcquirePermit(j) \/ ProviderReturns(j)
             \/ ProviderGivesUp(j)
      PROVE  LedgerMatchesDisk'
  BY <1>4, <1>5, <1>7
     DEF RunnerStep, RunnerStart, AcquirePermit, LeaveQueue, BeginProvider,
         ReturnPermit, ProviderReturns, ProviderGivesUp, JoinProvider, Settle,
         Stopped, Timeout, Expire, Reap, storage
<1>8. ASSUME NEW E \in SUBSET Jobs, NEW R \in SUBSET Jobs, Sweep(E, R)
      PROVE  LedgerMatchesDisk'
  BY <1>4, <1>8 DEF Sweep
<1>9. ASSUME \/ \E R \in purging : PurgeIdempotency(R) \/ DropSweep(R)
             \/ UNCHANGED vars
      PROVE  LedgerMatchesDisk'
  BY <1>5, <1>9 DEF PurgeIdempotency, DropSweep, vars, storage
<1> QED
  BY <1>6, <1>7, <1>8, <1>9 DEF Next

\* storage_bytes equals the accepted chunks on disk in every reachable state,
\* with any mix of failed removals, cancellations, late providers and sweeps.
THEOREM LedgerIsExact == Spec => []LedgerMatchesDisk
<1>1. Init => LedgerMatchesDisk
  <2> SUFFICES ASSUME Init
               PROVE  LedgerMatchesDisk
    OBVIOUS
  <2>1. Units(pieces, Jobs) = {}
    BY DEF Init, Units
  <2> QED
    BY <2>1, FS_EmptySet DEF Init, LedgerMatchesDisk, Total
<1>2. IInv /\ LedgerMatchesDisk /\ [Next]_vars => LedgerMatchesDisk'
  BY LedgerStep
<1> QED
  BY <1>1, <1>2, Invariance, PTL DEF Spec
-----------------------------------------------------------------------------
(* The quotas.                                                             *)

SessionUnits(s) == Units(bytes, {j \in Jobs : Owns(s, j)})

LEMMA QuotaStep ==
    ASSUME IInv, QuotasHeld, [Next]_vars
    PROVE  QuotasHeld'
<1>1. /\ MaxDocument \in Nat /\ bytes \in [Jobs -> 0 .. MaxDocument]
      /\ stored \in Nat /\ MaxRuntime \in Nat /\ MaxSession \in Nat
  BY ConstantsAssumption DEF IInv, TypeOK
<1>2. \A s \in Sessions : /\ IsFiniteSet(SessionUnits(s))
                          /\ Cardinality(SessionUnits(s)) \in Nat
                          /\ Cardinality(SessionUnits(s)) <= MaxSession
  <2> SUFFICES ASSUME NEW s \in Sessions
               PROVE  /\ IsFiniteSet(SessionUnits(s))
                      /\ Cardinality(SessionUnits(s)) \in Nat
                      /\ Cardinality(SessionUnits(s)) <= MaxSession
    OBVIOUS
  <2>1. {j \in Jobs : Owns(s, j)} \in SUBSET Jobs
    OBVIOUS
  <2> QED
    BY <1>1, <2>1, UnitsFinite
       DEF SessionUnits, Total, SessionBytes, QuotasHeld
\* A step that adds nothing to any session and nothing to the ledger.
<1>3. ASSUME stored' <= MaxRuntime,
             \A s \in Sessions : SessionUnits(s)' \subseteq SessionUnits(s)
      PROVE  QuotasHeld'
  <2>1. ASSUME NEW s \in Sessions
        PROVE  Cardinality(SessionUnits(s)') <= MaxSession
    <3>1. SessionUnits(s)' \in SUBSET SessionUnits(s)
      BY <1>3
    <3>2. /\ Cardinality(SessionUnits(s)') <= Cardinality(SessionUnits(s))
          /\ Cardinality(SessionUnits(s)') \in Nat
      BY <1>2, <3>1, FS_Subset, FS_CardinalityType
    <3> QED
      BY <1>1, <1>2, <3>2
  <2> QED
    BY <1>3, <2>1 DEF QuotasHeld, SessionBytes, Total, SessionUnits
<1>4. ASSUME NEW S \in SUBSET Jobs, NEW K, RemoveInputs(S, K)
      PROVE  /\ stored' <= MaxRuntime
             /\ \A j \in Jobs : bytes'[j] \in 0 .. bytes[j]
  <2>1. S \ K \in SUBSET Jobs
    OBVIOUS
  <2>2. Total(bytes, S \ K) \in Nat
    BY <1>1, <2>1, UnitsFinite
  <2> QED
    BY <1>1, <1>4, <2>2 DEF RemoveInputs, Monus, QuotasHeld
\* The only step that adds to a session and to the ledger checks both first.
<1>5. ASSUME NEW s \in Sessions, NEW j \in Jobs, AppendChunk(s, j)
      PROVE  QuotasHeld'
  <2>1. stored' <= MaxRuntime
    BY <1>1, <1>5 DEF AppendChunk, Appendable, StorageQuotaAllows
  <2>2. Cardinality(SessionUnits(s)') <= MaxSession
    <3>1. SessionUnits(s)' = SessionUnits(s) \cup {<<j, bytes[j] + 1>>}
      BY <1>1, <1>5
         DEF AppendChunk, Appendable, SessionUnits, Units, Owns, Present,
             admission
    <3>0. <<j, bytes[j] + 1>> \notin SessionUnits(s)
      BY <1>1 DEF SessionUnits, Units
    <3>2. Cardinality(SessionUnits(s)') = Cardinality(SessionUnits(s)) + 1
      BY <1>2, <3>0, <3>1, FS_AddElement
    <3>3. Cardinality(SessionUnits(s)) + 1 <= MaxSession
      BY <1>5 DEF AppendChunk, Appendable, StorageQuotaAllows, SessionBytes,
                  Total, SessionUnits
    <3>4. Cardinality(SessionUnits(s)') \in Nat
      BY <1>2, <3>1, FS_AddElement, FS_CardinalityType
    <3> QED
      BY <1>1, <1>2, <3>2, <3>3, <3>4
  <2>3. ASSUME NEW t \in Sessions, t # s
        PROVE  Cardinality(SessionUnits(t)') <= MaxSession
    <3>1. SessionUnits(t)' = SessionUnits(t)
      BY <1>1, <1>5, <2>3
         DEF AppendChunk, Appendable, SessionUnits, Units, Owns, Present,
             admission
    <3> QED
      BY <1>2, <3>1
  <2> QED
    BY <2>1, <2>2, <2>3 DEF QuotasHeld, SessionBytes, Total, SessionUnits
<1>6. ASSUME NEW s \in Sessions, NEW k \in Keys, NEW d \in 0 .. MaxDocument,
             Create(s, k, d)
      PROVE  QuotasHeld'
  <2>1. stored' <= MaxRuntime
    BY <1>6 DEF Create, QuotasHeld
  <2>2. \A t \in Sessions : SessionUnits(t)' \subseteq SessionUnits(t)
    BY <1>1, <1>6 DEF Create, SessionUnits, Units, Owns, Present, IInv, DiskInv,
                      TypeOK
  <2> QED
    BY <1>3, <2>1, <2>2
<1>7. ASSUME \A j \in Jobs : bytes'[j] \in 0 .. bytes[j], UNCHANGED owner,
             \A j \in Jobs : Present(j)' => Present(j)
      PROVE  \A s \in Sessions : SessionUnits(s)' \subseteq SessionUnits(s)
  BY <1>1, <1>7 DEF SessionUnits, Units, Owns
<1>8. ASSUME UNCHANGED <<bytes, owner, stored>>,
             \A j \in Jobs : Present(j)' => Present(j)
      PROVE  QuotasHeld'
  <2>1. \A j \in Jobs : bytes'[j] \in 0 .. bytes[j]
    BY <1>1, <1>8
  <2> QED
    BY <1>3, <1>7, <1>8, <2>1 DEF QuotasHeld
<1> USE DEF Present, JobState, Pending, Busy, Terminal, admission, storage, tasks
<1>9. ASSUME NEW s \in Sessions, NEW j \in Jobs,
             \/ TearChunk(s, j) \/ CompleteInput(s, j) \/ CancelRunning(s, j)
             \/ AcknowledgeResult(s, j)
      PROVE  QuotasHeld'
  <2>1. \A i \in Jobs : Present(i)' => Present(i)
    BY <1>9 DEF TearChunk, CompleteInput, CancelRunning, AcknowledgeResult,
                IInv, TypeOK
  <2> QED
    BY <1>8, <1>9, <2>1
       DEF TearChunk, CompleteInput, CancelRunning, AcknowledgeResult
<1>10. ASSUME NEW S \in SUBSET Jobs, NEW K, RemoveInputs(S, K), UNCHANGED owner,
              \A j \in Jobs : Present(j)' => Present(j)
       PROVE  QuotasHeld'
  BY <1>3, <1>4, <1>7, <1>10
<1>11. ASSUME NEW s \in Sessions, NEW j \in Jobs, CancelPending(s, j)
       PROVE  QuotasHeld'
  <2>1. \A i \in Jobs : Present(i)' => Present(i)
    BY <1>11 DEF CancelPending, IInv, TypeOK
  <2> QED
    BY <1>10, <1>11, <2>1 DEF CancelPending
<1>12. ASSUME NEW j \in Jobs, RunnerStep(j) \/ AcquirePermit(j)
\/ ProviderReturns(j) \/ ProviderGivesUp(j)
       PROVE  QuotasHeld'
  <2>1. \A i \in Jobs : Present(i)' => Present(i)
    BY <1>12 DEF RunnerStep, RunnerStart, AcquirePermit, LeaveQueue,
         BeginProvider, ReturnPermit, ProviderReturns, ProviderGivesUp,
            JoinProvider, Settle,
         Timeout, Expire, Reap, Runnable, IInv, TypeOK
  <2>2. CASE Settle(j) \/ Reap(j)
    BY <1>10, <2>1, <2>2 DEF Settle, Reap
  <2>3. CASE ~Settle(j) /\ ~Reap(j)
    BY <1>8, <1>12, <2>1, <2>3 DEF RunnerStep, RunnerStart, AcquirePermit,
       LeaveQueue, BeginProvider, ReturnPermit, ProviderReturns,
          ProviderGivesUp, JoinProvider,
       Timeout, Expire
  <2> QED
    BY <2>2, <2>3
<1>13. ASSUME NEW E \in SUBSET Jobs, NEW R \in SUBSET Jobs, Sweep(E, R)
       PROVE  QuotasHeld'
  <2>1. \A i \in Jobs : Present(i)' => Present(i)
    BY <1>13 DEF Sweep, Sweepable
  <2> QED
    BY <1>10, <1>13, <2>1 DEF Sweep
<1>14. ASSUME \/ \E R \in purging : PurgeIdempotency(R) \/ DropSweep(R)
              \/ UNCHANGED vars
       PROVE  QuotasHeld'
  BY <1>8, <1>14 DEF PurgeIdempotency, DropSweep, vars
<1> QED
  BY <1>5, <1>6, <1>9, <1>11, <1>12, <1>13, <1>14 DEF Next, ClientStep

\* The runtime quota and the quota of every session hold in every reachable
\* state, for any number of sessions uploading, cancelling and expiring.
THEOREM QuotasAreHeld == Spec => []QuotasHeld
<1>1. Init => QuotasHeld
  <2> SUFFICES ASSUME Init
               PROVE  QuotasHeld
    OBVIOUS
  <2>1. \A s \in Sessions : SessionUnits(s) = {}
    BY DEF Init, SessionUnits, Units
  <2>2. \A s \in Sessions : SessionBytes(s) = 0
    BY <2>1, FS_EmptySet DEF SessionBytes, Total, SessionUnits
  <2>3. 0 <= MaxRuntime /\ 0 <= MaxSession
    BY ConstantsAssumption
  <2> QED
    BY <2>2, <2>3 DEF Init, QuotasHeld
<1>2. IInv /\ QuotasHeld /\ [Next]_vars => QuotasHeld'
  BY QuotaStep
<1> QED
  BY <1>1, <1>2, Invariance, PTL DEF Spec
-----------------------------------------------------------------------------
(* No input is left behind.                                                *)

Over(j) == state[j] \in Terminal \cup {"removed"} /\ ~workerRunning[j]

LEMMA InputStep ==
    ASSUME IInv, NoInputLeftBehind, [Next]_vars
    PROVE  NoInputLeftBehind'
<1> SUFFICES ASSUME ~RemovalsMayFail, NEW i \in Jobs, Over(i)'
             PROVE  i \notin files'
  BY DEF NoInputLeftBehind, Over
<1>1. Over(i) => i \notin files
  BY DEF NoInputLeftBehind, Over
<1>2. ASSUME NEW S \in SUBSET Jobs,
             \E K \in Undeletable(S) : RemoveInputs(S, K)
      PROVE  files' = files \ S
  BY <1>2 DEF RemoveInputs, Undeletable
<1>3. /\ state \in [Jobs -> JobState \cup {"absent", "removed"}]
      /\ workerRunning \in [Jobs -> BOOLEAN]
      /\ workerRunning[i] <=> runner[i] \in Working
  BY DEF IInv, TypeOK, TaskInv
<1> USE DEF Over, Terminal, admission, storage, tasks
<1>4. ASSUME NEW s \in Sessions, NEW j \in Jobs, CancelPending(s, j)
      PROVE  i \notin files'
  <2>1. files' = files \ {j}
    BY <1>2, <1>4 DEF CancelPending
  <2>2. i # j => Over(i)
    BY <1>3, <1>4 DEF CancelPending
  <2> QED
    BY <1>1, <2>1, <2>2
<1>5. ASSUME NEW s \in Sessions, NEW k \in Keys, NEW d \in 0 .. MaxDocument,
             Create(s, k, d)
      PROVE  i \notin files'
  <2>1. PICK j \in Jobs : /\ state[j] = "absent"
                          /\ state' = [state EXCEPT ![j] = "receiving"]
                          /\ files' = files \cup {j}
    BY <1>5 DEF Create
  <2>2. i # j
    BY <1>3, <2>1
  <2> QED
    BY <1>1, <1>3, <1>5, <2>1, <2>2 DEF Create
<1>6. ASSUME NEW s \in Sessions, NEW j \in Jobs,
             \/ AppendChunk(s, j) \/ TearChunk(s, j) \/ CompleteInput(s, j)
             \/ CancelRunning(s, j) \/ AcknowledgeResult(s, j)
      PROVE  i \notin files'
  BY <1>1, <1>3, <1>6 DEF AppendChunk, TearChunk, CompleteInput, CancelRunning,
     AcknowledgeResult
<1>7. ASSUME NEW j \in Jobs, Settle(j) \/ Reap(j)
      PROVE  i \notin files'
  <2>1. files' = files \ {j}
    BY <1>2, <1>7 DEF Settle, Reap
  <2>2. i # j => Over(i)
    <3>1. CASE Settle(j)
      BY <1>3, <3>1 DEF Settle, Stopped
    <3>2. CASE Reap(j)
      BY <1>3, <3>2 DEF Reap
    <3> QED
      BY <1>7, <3>1, <3>2
  <2> QED
    BY <1>1, <2>1, <2>2
<1>8. ASSUME NEW j \in Jobs,
             \/ RunnerStart(j) \/ AcquirePermit(j) \/ LeaveQueue(j)
             \/ BeginProvider(j) \/ ReturnPermit(j) \/ ProviderReturns(j)
             \/ ProviderGivesUp(j)
             \/ JoinProvider(j) \/ Timeout(j)
      PROVE  i \notin files'
  BY <1>1, <1>3, <1>8 DEF RunnerStart, AcquirePermit, LeaveQueue,
     BeginProvider, ReturnPermit, ProviderReturns, ProviderGivesUp,
        JoinProvider, Timeout
\* The thread is still busy: the detached task removes the input later.
<1>9. ASSUME NEW j \in Jobs, Expire(j)
      PROVE  i \notin files'
  <2>1. i # j
    BY <1>3, <1>9 DEF Expire, Working
  <2> QED
    BY <1>1, <1>3, <1>9, <2>1 DEF Expire
<1>10. ASSUME NEW E \in SUBSET Jobs, NEW R \in SUBSET Jobs, Sweep(E, R)
       PROVE  i \notin files'
  <2>1. files' = files \ (E \cup R)
    BY <1>2, <1>10 DEF Sweep
  <2>2. i \notin E \cup R => Over(i)
    BY <1>3, <1>10 DEF Sweep
  <2> QED
    BY <1>1, <2>1, <2>2
<1>11. ASSUME \/ \E R \in purging : PurgeIdempotency(R) \/ DropSweep(R)
              \/ UNCHANGED vars
       PROVE  i \notin files'
  BY <1>1, <1>11 DEF PurgeIdempotency, DropSweep, vars
<1> QED
  BY <1>4, <1>5, <1>6, <1>7, <1>8, <1>9, <1>10, <1>11
     DEF Next, ClientStep, RunnerStep

\* When removals succeed, no path to a final state leaves the input of a job on
\* disk: cancelled, swept, settled, or reaped after a timeout.
THEOREM InputsAreRemoved == Spec => []NoInputLeftBehind
<1>1. Init => NoInputLeftBehind
  BY DEF Init, NoInputLeftBehind
<1>2. IInv /\ NoInputLeftBehind /\ [Next]_vars => NoInputLeftBehind'
  BY InputStep
<1> QED
  BY <1>1, <1>2, Invariance, PTL DEF Spec
-----------------------------------------------------------------------------
(* Refinement: Init and every step map to the lifecycle.                   *)

LEMMA SameCardinality == \A S : Lifecycle!Cardinality(S) = Cardinality(S)
BY Zenon DEF Cardinality, Lifecycle!Cardinality

LEMMA LifecycleStep ==
    ASSUME IInv, [Next]_vars
    PROVE  [Lifecycle!Next]_(Lifecycle!vars)
<1> DEFINE available == {j \in Jobs : result[j] > 0}
<1> USE DEF Lifecycle!vars, Lifecycle!Pending, Lifecycle!Busy,
        Lifecycle!Terminal, Pending, Busy, Terminal
<1>1. /\ state \in [Jobs -> JobState \cup {"absent", "removed"}]
      /\ result \in [Jobs -> 0 .. MaxResultSize]
      /\ output \in [Jobs -> 0 .. MaxResultSize]
      /\ MaxResultSize \in Nat
  BY ConstantsAssumption DEF IInv, TypeOK
<1>2. ASSUME UNCHANGED <<state, result>>
      PROVE  UNCHANGED Lifecycle!vars
  BY <1>2
<1>3. ASSUME NEW s \in Sessions, NEW k \in Keys, NEW d \in 0 .. MaxDocument,
             Create(s, k, d)
      PROVE  Lifecycle!Next
  <2>1. PICK j \in Jobs : /\ state[j] = "absent"
                          /\ state' = [state EXCEPT ![j] = "receiving"]
    BY <1>3 DEF Create
  <2>2. /\ Cardinality({i \in Jobs : state[i] \in Pending \cup Busy}) < MaxActive
        /\ result' = result
    BY <1>3 DEF Create, ActiveJobs
  <2>3. Lifecycle!Accept(j)
    BY <2>1, <2>2, SameCardinality DEF Lifecycle!Accept
  <2> QED
    BY <2>3 DEF Lifecycle!Next
<1>4. ASSUME NEW s \in Sessions, NEW j \in Jobs, CompleteInput(s, j)
      PROVE  Lifecycle!Next
  BY <1>4 DEF CompleteInput, Lifecycle!Next, Lifecycle!Enqueue, Lifecycle!Advance
<1>5. ASSUME NEW S \in SUBSET Jobs, NEW R \in SUBSET Jobs, Sweep(S, R)
      PROVE  Lifecycle!Next
  <2>1. Lifecycle!Withdraw(S, R)
    BY <1>1, <1>5 DEF Sweep, Sweepable, Lifecycle!Withdraw
  <2> QED
    BY <2>1 DEF Lifecycle!Next
<1>6. ASSUME NEW s \in Sessions, NEW j \in Jobs, CancelPending(s, j)
      PROVE  Lifecycle!Next
  <2>1. Lifecycle!Withdraw({j}, {})
    BY <1>1, <1>6 DEF CancelPending, Lifecycle!Withdraw
  <2> QED
    BY <2>1 DEF Lifecycle!Next
<1>7. ASSUME NEW s \in Sessions, NEW j \in Jobs, CancelRunning(s, j)
      PROVE  Lifecycle!Next
  BY <1>7 DEF CancelRunning, Lifecycle!Next, Lifecycle!RequestStop,
              Lifecycle!Advance
<1>8. ASSUME NEW s \in Sessions, NEW j \in Jobs, AcknowledgeResult(s, j)
      PROVE  Lifecycle!Next
  <2>1. available' = available \ {j}
    BY <1>1, <1>8 DEF AcknowledgeResult
  <2> QED
    BY <1>8, <2>1 DEF AcknowledgeResult, Lifecycle!Next, Lifecycle!Acknowledge
<1>9. ASSUME NEW j \in Jobs, BeginProvider(j)
      PROVE  Lifecycle!Next
  BY <1>9 DEF BeginProvider, Runnable, Lifecycle!Next, Lifecycle!Start,
              Lifecycle!Advance
<1>10. ASSUME NEW j \in Jobs, Settle(j)
       PROVE  Lifecycle!Next
  <2>1. state[j] \in Busy /\ (state[j] = "cancelling" => cancelled[j])
    BY <1>10 DEF Settle, IInv, TaskInv, Working
  <2>2. CASE state'[j] = "completed"
    <3>1. state[j] = "running" /\ CanRetain(j)
          /\ state' = [state EXCEPT ![j] = "completed"]
          /\ result' = [result EXCEPT ![j] = output[j]]
      BY <1>1, <1>10, <2>1, <2>2 DEF Settle, Stopped
    <3>2. result[j] = 0
      BY <1>1, <3>1 DEF IInv, TaskInv
    <3>3. CASE output[j] = 0
      BY <1>1, <3>1, <3>2, <3>3 DEF Lifecycle!Next, Lifecycle!Complete
    <3>4. CASE output[j] # 0
      <4>1. available' = available \cup {j}
        BY <1>1, <3>1, <3>4
      <4>2. Cardinality(available) < MaxResults
        BY <3>1, <3>4 DEF CanRetain
      <4>3. Lifecycle!Complete(j)
        BY <3>1, <4>1, <4>2, SameCardinality DEF Lifecycle!Complete
      <4> QED
        BY <4>3 DEF Lifecycle!Next
    <3> QED
      BY <3>3, <3>4
  <2>3. CASE state'[j] # "completed"
    <3>1. result' = result
      BY <1>1, <1>10, <2>3 DEF Settle, Stopped
    <3>2. \/ state' = [state EXCEPT ![j] = "cancelled"]
          \/ state' = [state EXCEPT ![j] = "failed"]
      BY <1>1, <1>10, <2>1, <2>3 DEF Settle, Stopped
    <3> QED
      BY <2>1, <3>1, <3>2 DEF Lifecycle!Next, Lifecycle!Stop,
                              Lifecycle!Advance
  <2> QED
    BY <2>2, <2>3
<1>11. ASSUME NEW j \in Jobs, Expire(j)
       PROVE  Lifecycle!Next
  <2>1. state[j] \in Busy
    BY <1>11 DEF Expire, IInv, TaskInv, Working
  <2> QED
    BY <1>11, <2>1 DEF Expire, Lifecycle!Next, Lifecycle!Stop,
                       Lifecycle!Advance
<1>12. ASSUME \/ \E s \in Sessions, j \in Jobs : AppendChunk(s, j) \/ TearChunk(s, j)
              \/ \E j \in Jobs : \/ RunnerStart(j) \/ AcquirePermit(j)
                                 \/ LeaveQueue(j) \/ ReturnPermit(j)
                                 \/ ProviderReturns(j)
                                 \/ ProviderGivesUp(j) \/ JoinProvider(j)
                                 \/ Timeout(j) \/ Reap(j)
              \/ \E R \in purging : PurgeIdempotency(R) \/ DropSweep(R)
              \/ UNCHANGED vars
       PROVE  UNCHANGED Lifecycle!vars
  BY <1>2, <1>12 DEF AppendChunk, TearChunk, RunnerStart, AcquirePermit,
     LeaveQueue, ReturnPermit, ProviderReturns, ProviderGivesUp, JoinProvider,
        Timeout, Reap,
     PurgeIdempotency, DropSweep, vars
<1> QED
  BY <1>3, <1>4, <1>5, <1>6, <1>7, <1>8, <1>9, <1>10, <1>11, <1>12
     DEF Next, ClientStep, RunnerStep

\* The manager, with its tasks, permits, files and timers, implements the job
\* lifecycle a client relies on.
THEOREM Refinement == Spec => ImplementsLifecycle
<1>1. Init => Lifecycle!Init
  BY DEF Init, Lifecycle!Init
<1>2. IInv /\ [Next]_vars => [Lifecycle!Next]_(Lifecycle!vars)
  BY LifecycleStep
<1> QED
  BY <1>1, <1>2, Invariance, PTL DEF Spec, ImplementsLifecycle, Lifecycle!Spec

\* What a client relies on: every live job has a task that ends it, and no job that
\* is over leaves its input when removals succeed.
THEOREM NothingStranded == Spec => []NothingIsStranded
<1>1. RunnerCoversJob /\ NoInputLeftBehind => NothingIsStranded
  BY DEF NothingIsStranded
<1> QED
  BY <1>1, JobsAreCovered, InputsAreRemoved, PTL

\* The ledger by which append_chunk admits uploads is the disk, and its quotas hold.
THEOREM StorageExact == Spec => []StorageIsExact
<1>1. LedgerMatchesDisk /\ QuotasHeld => StorageIsExact
  BY DEF StorageIsExact
<1> QED
  BY <1>1, LedgerIsExact, QuotasAreHeld, PTL
-----------------------------------------------------------------------------
(* The records the manager keeps: results and idempotency keys.            *)

\* The jobs whose results wait for an acknowledgement.
Retaining == {j \in Jobs : result[j] > 0}

LEMMA ResultsFinite ==
    ASSUME TypeOK
    PROVE  /\ MaxResultSize \in Nat /\ MaxResults \in Nat /\ MaxResultBytes \in Nat
           /\ IsFiniteSet(Retaining) /\ Cardinality(Retaining) \in Nat
           /\ IsFiniteSet(Units(result, Jobs)) /\ Total(result, Jobs) \in Nat
<1>1. MaxResultSize \in Nat /\ MaxResults \in Nat /\ MaxResultBytes \in Nat
      /\ IsFiniteSet(Jobs) /\ Retaining \subseteq Jobs
  BY ConstantsAssumption DEF Retaining
<1>2. IsFiniteSet(Retaining) /\ Cardinality(Retaining) \in Nat
  BY <1>1, FS_Subset, FS_CardinalityType
<1>3. result \in [Jobs -> 0 .. MaxResultSize] /\ Jobs \in SUBSET Jobs
  BY DEF TypeOK
<1> QED
  BY <1>1, <1>2, <1>3, UnitsFinite

\* A job that gives its result up only makes room.
LEMMA ResultsShrink ==
    ASSUME TypeOK, RetainedResultsBounded, result' \in [Jobs -> Nat],
           \A j \in Jobs : result'[j] = result[j] \/ result'[j] = 0
    PROVE  RetainedResultsBounded'
<1> DEFINE U == Units(result, Jobs)
           V == Units(result', Jobs)
           W == {j \in Jobs : result'[j] > 0}
<1>1. result \in [Jobs -> 0 .. MaxResultSize] /\ MaxResultSize \in Nat
  BY ResultsFinite DEF TypeOK
<1>2. W \in SUBSET Retaining
  BY <1>1 DEF Retaining
<1>3. V \in SUBSET U
  BY <1>1 DEF Units
<1>4. Cardinality(W) <= Cardinality(Retaining) /\ Cardinality(W) \in Nat
  BY <1>2, ResultsFinite, FS_Subset, FS_CardinalityType
<1>5. Cardinality(V) <= Cardinality(U) /\ Cardinality(V) \in Nat /\ Cardinality(U) \in Nat
  <2> HIDE DEF U, V
  <2>1. IsFiniteSet(U)
    BY ResultsFinite DEF U
  <2> QED
    BY <2>1, <1>3, FS_Subset, FS_CardinalityType
<1>6. Cardinality(Retaining) <= MaxResults /\ Cardinality(U) <= MaxResultBytes
  BY DEF RetainedResultsBounded, Retaining, Total
<1>7. Cardinality(W) <= MaxResults /\ Cardinality(V) <= MaxResultBytes
  <2> HIDE DEF U, V, W
  <2> QED
    BY <1>4, <1>5, <1>6, ResultsFinite
<1> QED
  BY <1>7 DEF RetainedResultsBounded, Total

\* A completed job keeps its result when both limits allow it.
LEMMA ResultKept ==
    ASSUME TypeOK, RetainedResultsBounded, NEW j \in Jobs, result[j] = 0, CanRetain(j),
           result' = [result EXCEPT ![j] = output[j]]
    PROVE  RetainedResultsBounded'
<1> DEFINE U == Units(result, Jobs)
           A == {j} \X (1 .. output[j])
<1>1. result \in [Jobs -> 0 .. MaxResultSize] /\ output[j] \in 0 .. MaxResultSize
      /\ MaxResultSize \in Nat
  BY ResultsFinite DEF TypeOK
<1>2. CASE output[j] = 0
  BY <1>1, <1>2, ResultsShrink
<1>3. CASE output[j] # 0
  <2>1. /\ Cardinality(Retaining) < MaxResults
        /\ Cardinality(U) + output[j] <= MaxResultBytes
    BY <1>3 DEF CanRetain, Retaining, Total
  <2>2. {i \in Jobs : result'[i] > 0} = Retaining \cup {j} /\ j \notin Retaining
    BY <1>1, <1>3 DEF Retaining
  <2>3. Cardinality({i \in Jobs : result'[i] > 0}) = Cardinality(Retaining) + 1
    BY <2>2, ResultsFinite, FS_AddElement
  <2>4. Units(result', Jobs) = U \cup A /\ U \cap A = {}
    BY <1>1 DEF Units
  <2>5. IsFiniteSet(A) /\ Cardinality(A) = output[j]
    <3>1. PICK n \in Nat : n = output[j] /\ n >= 1
      BY <1>1, <1>3
    <3>2. PICK I : I = 1 .. n
      OBVIOUS
    <3>3. IsFiniteSet(I) /\ Cardinality(I) = n
      <4>1. 1 \in Int /\ n \in Int
        BY <3>1
      <4>2. IsFiniteSet(1 .. n) /\ Cardinality(1 .. n) = IF 1 > n THEN 0 ELSE n - 1 + 1
        BY <4>1, FS_Interval
      <4> QED
        BY <3>1, <3>2, <4>2
    <3>4. PICK O : O = {j}
      OBVIOUS
    <3>5. IsFiniteSet(O) /\ Cardinality(O) = 1
      BY <3>4, FS_Singleton
    <3>6. IsFiniteSet(O \X I) /\ Cardinality(O \X I) = Cardinality(O) * Cardinality(I)
      BY <3>3, <3>5, FS_Product
    <3> QED
      BY <3>1, <3>2, <3>3, <3>4, <3>5, <3>6
  <2>6. Cardinality(Units(result', Jobs)) = Cardinality(U) + output[j]
    <3> HIDE DEF U, A
    <3>1. IsFiniteSet(U) /\ Cardinality(U) \in Nat
      BY ResultsFinite DEF U, Total
    <3>2. Cardinality(U \cup A) = Cardinality(U) + Cardinality(A) - Cardinality({})
      BY <3>1, <2>4, <2>5, FS_Union
    <3>3. Cardinality({}) = 0
      BY FS_EmptySet
    <3>4. Cardinality(U \cup A) = Cardinality(U) + output[j]
      <4>1. output[j] \in Nat
        BY <1>1
      <4> QED
        BY <2>5, <3>1, <3>2, <3>3, <4>1
    <3> QED
      BY <2>4, <3>4
  <2> QED
    BY <2>1, <2>3, <2>6, ResultsFinite DEF RetainedResultsBounded, Total
<1> QED
  BY <1>2, <1>3

LEMMA ResultStep ==
    ASSUME IInv, RetainedResultsBounded, [Next]_vars
    PROVE  RetainedResultsBounded'
<1>1. TypeOK /\ result \in [Jobs -> 0 .. MaxResultSize] /\ MaxResultSize \in Nat
  BY ResultsFinite DEF IInv, TypeOK
<1>2. ASSUME UNCHANGED result PROVE RetainedResultsBounded'
  BY <1>2 DEF RetainedResultsBounded, Total, Units
<1>3. ASSUME NEW s \in Sessions, NEW j \in Jobs, AcknowledgeResult(s, j)
      PROVE  RetainedResultsBounded'
  BY <1>1, <1>3, ResultsShrink DEF AcknowledgeResult
<1>4. ASSUME NEW s \in Sessions, ClientStep(s) PROVE RetainedResultsBounded'
  BY <1>2, <1>3, <1>4
     DEF ClientStep, Create, AppendChunk, TearChunk, CompleteInput, CancelPending,
         CancelRunning
<1>5. ASSUME NEW j \in Jobs, Settle(j) PROVE RetainedResultsBounded'
  <2>1. result[j] = 0
    BY <1>1, <1>5 DEF Settle, IInv, TaskInv, Busy, Working
  <2>2. CASE result' = [result EXCEPT ![j] = output[j]] /\ CanRetain(j)
    BY <1>1, <2>1, <2>2, ResultKept
  <2>3. CASE result' = result
    BY <1>2, <2>3
  <2>4. result' = [result EXCEPT ![j] = @] => result' = result
    BY <1>1
  <2> QED
    BY <1>5, <2>2, <2>3, <2>4 DEF Settle
<1>6. ASSUME NEW j \in Jobs,
             RunnerStep(j) \/ AcquirePermit(j) \/ ProviderReturns(j)
             \/ ProviderGivesUp(j)
      PROVE  RetainedResultsBounded'
  BY <1>2, <1>5, <1>6
     DEF RunnerStep, RunnerStart, AcquirePermit, LeaveQueue, BeginProvider,
         ReturnPermit, ProviderReturns, ProviderGivesUp, JoinProvider, Timeout,
         Expire, Reap
<1>7. ASSUME NEW E \in SUBSET Jobs, NEW R \in SUBSET Jobs, Sweep(E, R)
      PROVE  RetainedResultsBounded'
  BY <1>1, <1>7, ResultsShrink DEF Sweep
<1>8. ASSUME \/ \E R \in purging : PurgeIdempotency(R) \/ DropSweep(R)
             \/ UNCHANGED vars
      PROVE  RetainedResultsBounded'
  BY <1>2, <1>8 DEF PurgeIdempotency, DropSweep, vars
<1> QED
  BY <1>4, <1>6, <1>7, <1>8 DEF Next

\* The results that wait for an acknowledgement stay within both limits, however
\* many providers finish at the same time (the check and the insertion of
\* run_queued are one critical section).
THEOREM ResultsAreBounded == Spec => []RetainedResultsBounded
<1>1. Init => RetainedResultsBounded
  <2> SUFFICES ASSUME Init PROVE RetainedResultsBounded
    OBVIOUS
  <2>1. {j \in Jobs : result[j] > 0} = {} /\ Units(result, Jobs) = {}
    BY DEF Init, Units
  <2> QED
    BY <2>1, FS_EmptySet, ConstantsAssumption DEF RetainedResultsBounded, Total
<1>2. IInv /\ RetainedResultsBounded /\ [Next]_vars => RetainedResultsBounded'
  BY ResultStep
<1> QED
  BY <1>1, <1>2, Invariance, PTL DEF Spec
-----------------------------------------------------------------------------
(* Idempotency keys.                                                       *)

\* A job a key may lead to: in the map, or about to be cleaned.
Traceable(j) ==
    /\ state[j] # "absent"
    /\ Present(j) \/ RequestsMayDrop \/ \E R \in purging : j \in R

\* Why each job is found by one key: a key is only given to a job that has none yet,
\* and is only taken from jobs that have left the map.
KeyInv ==
    /\ \A R \in purging : \A j \in R : state[j] = "removed"
    /\ \A sk \in Sessions \X Keys, j \in Jobs :
          idempotency[sk] = j => Traceable(j)
    /\ \A j \in Jobs : Present(j) =>
          /\ owner[j] \in Sessions
          /\ \E k \in Keys : \A sk \in Sessions \X Keys :
                 idempotency[sk] = j <=> sk = <<owner[j], k>>

\* A step that leaves the keys and the owners alone and takes no job out of the map
\* or back into it.
LEMMA KeysKept ==
    ASSUME TypeOK, KeyInv, UNCHANGED <<owner, idempotency, purging>>,
           \A j \in Jobs : /\ state'[j] = "removed" <=> state[j] = "removed"
                           /\ state'[j] = "absent" <=> state[j] = "absent"
                           /\ Present(j)' <=> Present(j)
    PROVE  KeyInv'
<1>1. idempotency \in [Sessions \X Keys -> Jobs \cup {NoJob}] /\ purging \subseteq SUBSET Jobs
  BY DEF TypeOK
<1>2. (\A R \in purging : \A j \in R : state[j] = "removed")'
  BY <1>1 DEF KeyInv
<1>3. ASSUME NEW j \in Jobs, Traceable(j) PROVE Traceable(j)'
  BY <1>3 DEF Traceable
<1> QED
  BY <1>1, <1>2, <1>3 DEF KeyInv

LEMMA KeyStep ==
    ASSUME IInv, KeyInv, [Next]_vars
    PROVE  KeyInv'
<1> USE DEF lookup, admission
<1>1. /\ TypeOK /\ idempotency \in [Sessions \X Keys -> Jobs \cup {NoJob}]
      /\ purging \subseteq SUBSET Jobs /\ NoJob \notin Jobs
      /\ state \in [Jobs -> JobState \cup {"absent", "removed"}]
      /\ owner \in [Jobs -> Sessions \cup {NoSession}]
  BY ConstantsAssumption DEF IInv, TypeOK
<1>2. ASSUME NEW s \in Sessions, NEW k \in Keys, NEW d \in 0 .. MaxDocument,
             Create(s, k, d)
      PROVE  KeyInv'
  <2>1. PICK j \in Jobs :
          /\ state[j] = "absent" /\ state' = [state EXCEPT ![j] = "receiving"]
          /\ owner' = [owner EXCEPT ![j] = s]
          /\ idempotency' = [idempotency EXCEPT ![<<s, k>>] = j]
    BY <1>2 DEF Create
  <2>2. idempotency[<<s, k>>] = NoJob /\ purging' = purging /\ <<s, k>> \in Sessions \X Keys
    BY <1>2 DEF Create
  <2>3. /\ Present(j)' /\ state'[j] = "receiving" /\ owner'[j] = s
        /\ \A i \in Jobs : i # j => /\ state'[i] = state[i] /\ owner'[i] = owner[i]
                                    /\ Present(i)' <=> Present(i)
    BY <1>1, <2>1 DEF Present, JobState, Pending
  <2>4. \A sk \in Sessions \X Keys :
          idempotency'[sk] = IF sk = <<s, k>> THEN j ELSE idempotency[sk]
    BY <1>1, <2>1
  <2>5. \A sk \in Sessions \X Keys : idempotency[sk] # j
    BY <1>1, <2>1 DEF KeyInv, Traceable
  <2>6. (\A R \in purging : \A i \in R : state[i] = "removed")'
    BY <1>1, <2>1, <2>2, <2>3 DEF KeyInv
  <2>7. ASSUME NEW sk \in Sessions \X Keys, NEW i \in Jobs, idempotency'[sk] = i
        PROVE  Traceable(i)'
    <3>1. CASE sk = <<s, k>>
      <4>1. i = j
        BY <2>4, <2>7, <3>1
      <4> QED
        BY <2>3, <4>1 DEF Traceable
    <3>2. CASE sk # <<s, k>>
      <4>1. idempotency[sk] = i /\ i # j
        BY <2>4, <2>5, <2>7, <3>2
      <4>2. Traceable(i)
        BY <4>1 DEF KeyInv
      <4> QED
        BY <2>2, <2>3, <4>1, <4>2 DEF Traceable
    <3> QED
      BY <3>1, <3>2
  <2>8. ASSUME NEW i \in Jobs, Present(i)'
        PROVE  /\ owner'[i] \in Sessions
               /\ \E l \in Keys : \A sk \in Sessions \X Keys :
                      idempotency'[sk] = i <=> sk = <<owner'[i], l>>
    <3>1. CASE i = j
      BY <2>3, <2>4, <2>5, <3>1
    <3>2. CASE i # j
      <4>1. PICK l \in Keys : \A sk \in Sessions \X Keys :
              idempotency[sk] = i <=> sk = <<owner[i], l>>
        BY <2>3, <2>8, <3>2 DEF KeyInv
      <4>2. \A sk \in Sessions \X Keys : idempotency'[sk] = i <=> idempotency[sk] = i
        BY <1>1, <2>2, <2>4, <3>2
      <4>3. owner[i] \in Sessions
        BY <2>3, <2>8, <3>2 DEF KeyInv
      <4> QED
        BY <2>3, <3>2, <4>1, <4>2, <4>3
    <3> QED
      BY <3>1, <3>2
  <2> QED
    BY <2>6, <2>7, <2>8 DEF KeyInv
<1>3. ASSUME NEW s \in Sessions, NEW j \in Jobs,
             \/ AppendChunk(s, j) \/ TearChunk(s, j) \/ CompleteInput(s, j)
             \/ CancelPending(s, j) \/ CancelRunning(s, j) \/ AcknowledgeResult(s, j)
      PROVE  KeyInv'
  <2>1. UNCHANGED <<owner, idempotency, purging>>
    BY <1>3 DEF AppendChunk, TearChunk, CompleteInput, CancelPending, CancelRunning,
                AcknowledgeResult
  <2>2. \A i \in Jobs : \/ state'[i] = state[i]
                        \/ state[i] \in JobState /\ state'[i] \in JobState
    BY <1>1, <1>3 DEF AppendChunk, TearChunk, CompleteInput, CancelPending, CancelRunning,
                AcknowledgeResult, Owns, Present, JobState, Pending, Busy, Terminal
  <2> QED
    BY <1>1, <2>1, <2>2, KeysKept DEF Present, JobState, Pending, Busy, Terminal
<1>4. ASSUME NEW j \in Jobs,
             RunnerStep(j) \/ AcquirePermit(j) \/ ProviderReturns(j)
             \/ ProviderGivesUp(j)
      PROVE  KeyInv'
  <2>1. UNCHANGED <<owner, idempotency, purging>>
    BY <1>4 DEF RunnerStep, RunnerStart, AcquirePermit, LeaveQueue, BeginProvider,
         ReturnPermit, ProviderReturns, ProviderGivesUp, JoinProvider, Settle, Timeout,
         Expire, Reap
  <2>2. \A i \in Jobs : \/ state'[i] = state[i]
                        \/ state[i] \in JobState /\ state'[i] \in JobState
    BY <1>1, <1>4 DEF RunnerStep, RunnerStart, AcquirePermit, LeaveQueue, BeginProvider,
         ReturnPermit, ProviderReturns, ProviderGivesUp, JoinProvider, Settle, Timeout,
         Expire, Reap, Runnable, Present, JobState, Pending, Busy, Terminal
  <2> QED
    BY <1>1, <2>1, <2>2, KeysKept DEF Present, JobState, Pending, Busy, Terminal
<1>5. ASSUME NEW E \in SUBSET Jobs, NEW R \in SUBSET Jobs, Sweep(E, R)
      PROVE  KeyInv'
  <2>1. /\ UNCHANGED <<owner, idempotency>>
        /\ purging' = IF R = {} THEN purging ELSE purging \cup {R}
    BY <1>5 DEF Sweep
  <2>2. \A i \in Jobs :
          /\ i \in R => Present(i) /\ state'[i] = "removed" /\ ~Present(i)'
          /\ i \notin R => /\ Present(i)' <=> Present(i)
                           /\ state'[i] = "removed" <=> state[i] = "removed"
                           /\ state'[i] = "absent" <=> state[i] = "absent"
    BY <1>1, <1>5 DEF Sweep, Sweepable, Present, JobState, Pending, Busy, Terminal
  <2>3. (\A S \in purging : \A i \in S : state[i] = "removed")'
    <3>1. ASSUME NEW S \in purging', NEW i \in S PROVE state'[i] = "removed"
      <4>1. CASE S = R
        BY <2>2, <4>1
      <4>2. CASE S # R
        <5>1. S \in purging /\ i \in Jobs /\ state[i] = "removed"
          BY <1>1, <2>1, <4>2 DEF KeyInv
        <5> QED
          BY <2>2, <5>1
      <4> QED
        BY <4>1, <4>2
    <3> QED
      BY <3>1
  <2>4. ASSUME NEW sk \in Sessions \X Keys, NEW i \in Jobs, idempotency'[sk] = i
        PROVE  Traceable(i)'
    <3>1. Traceable(i)
      BY <2>1, <2>4 DEF KeyInv
    <3>2. CASE i \in R
      <4>1. R \in purging'
        BY <2>1, <3>2
      <4> QED
        BY <2>2, <3>2, <4>1 DEF Traceable
    <3>3. CASE i \notin R
      BY <2>1, <2>2, <3>1, <3>3 DEF Traceable
    <3> QED
      BY <3>2, <3>3
  <2>5. ASSUME NEW i \in Jobs, Present(i)'
        PROVE  /\ owner'[i] \in Sessions
               /\ \E l \in Keys : \A sk \in Sessions \X Keys :
                      idempotency'[sk] = i <=> sk = <<owner'[i], l>>
    BY <2>1, <2>2, <2>5 DEF KeyInv
  <2> QED
    BY <2>3, <2>4, <2>5 DEF KeyInv
<1>6. ASSUME NEW R \in purging, PurgeIdempotency(R)
      PROVE  KeyInv'
  <2>1. /\ UNCHANGED <<state, owner>> /\ purging' = purging \ {R} /\ R \subseteq Jobs
        /\ \A sk \in Sessions \X Keys : idempotency'[sk] =
              IF idempotency[sk] \in R THEN NoJob ELSE idempotency[sk]
    BY <1>1, <1>6 DEF PurgeIdempotency
  <2>2. \A i \in R : ~Present(i)
    BY DEF KeyInv, Present, JobState, Pending, Busy, Terminal
  <2>3. \A i \in Jobs : Present(i)' <=> Present(i)
    BY <2>1 DEF Present
  <2>4. (\A S \in purging : \A i \in S : state[i] = "removed")'
    BY <2>1 DEF KeyInv
  <2>5. ASSUME NEW sk \in Sessions \X Keys, NEW i \in Jobs, idempotency'[sk] = i
        PROVE  Traceable(i)'
    <3>1. idempotency[sk] = i /\ i \notin R
      BY <1>1, <2>1, <2>5
    <3>2. Traceable(i)
      BY <3>1 DEF KeyInv
    <3> QED
      BY <2>1, <2>3, <3>1, <3>2 DEF Traceable
  <2>6. ASSUME NEW i \in Jobs, Present(i)'
        PROVE  /\ owner'[i] \in Sessions
               /\ \E l \in Keys : \A sk \in Sessions \X Keys :
                      idempotency'[sk] = i <=> sk = <<owner'[i], l>>
    <3>1. \A sk \in Sessions \X Keys : idempotency'[sk] = i <=> idempotency[sk] = i
      BY <1>1, <2>1, <2>2, <2>3, <2>6
    <3> QED
      BY <2>1, <2>3, <2>6, <3>1 DEF KeyInv
  <2> QED
    BY <2>4, <2>5, <2>6 DEF KeyInv
<1>7. ASSUME NEW R \in purging, DropSweep(R)
      PROVE  KeyInv'
  BY <1>1, <1>7 DEF DropSweep, KeyInv, Traceable, Present
<1>8. CASE UNCHANGED vars
  BY <1>1, <1>8, KeysKept DEF vars, Present
<1> QED
  BY <1>2, <1>3, <1>4, <1>5, <1>6, <1>7, <1>8 DEF Next, ClientStep

\* Each job in the map is found by one key, of its owner, and a key that leads to a
\* removed job is about to be cleaned unless a request was dropped in its sweep: a
\* retried request finds its job as long as there is one.
THEOREM KeysLeadToJobs == Spec => [](OneKeyPerJob /\ DanglingKeysArePurged)
<1>1. Init => KeyInv
  <2> SUFFICES ASSUME Init PROVE KeyInv
    OBVIOUS
  <2>1. /\ \A j \in Jobs : ~Present(j)
        /\ \A sk \in Sessions \X Keys : idempotency[sk] \notin Jobs
        /\ purging = {}
    BY ConstantsAssumption DEF Init, Present, JobState, Pending, Busy, Terminal
  <2> QED
    BY <2>1 DEF KeyInv
<1>2. IInv /\ KeyInv /\ [Next]_vars => KeyInv'
  BY KeyStep
<1>3. IInv /\ KeyInv => OneKeyPerJob /\ DanglingKeysArePurged
  <2> SUFFICES ASSUME IInv, KeyInv PROVE OneKeyPerJob /\ DanglingKeysArePurged
    OBVIOUS
  <2>1. ASSUME NEW j \in Jobs, Present(j)
        PROVE  \E k \in Keys :
                 {sk \in Sessions \X Keys : idempotency[sk] = j} = {<<owner[j], k>>}
    <3>1. PICK k \in Keys : \A sk \in Sessions \X Keys :
            idempotency[sk] = j <=> sk = <<owner[j], k>>
      BY <2>1 DEF KeyInv
    <3>2. <<owner[j], k>> \in Sessions \X Keys
      BY <2>1 DEF KeyInv
    <3>3. {sk \in Sessions \X Keys : idempotency[sk] = j} = {<<owner[j], k>>}
      BY <3>1, <3>2
    <3> QED
      BY <3>3
  <2>2. OneKeyPerJob
    BY <2>1 DEF OneKeyPerJob
  <2>3. DanglingKeysArePurged
    <3>1. idempotency \in [Sessions \X Keys -> Jobs \cup {NoJob}]
      BY DEF IInv, TypeOK
    <3>2. ASSUME NEW sk \in Sessions \X Keys, idempotency[sk] # NoJob, ~RequestsMayDrop,
                 ~Present(idempotency[sk])
          PROVE  \E R \in purging : idempotency[sk] \in R
      <4>1. PICK j \in Jobs : j = idempotency[sk] /\ ~Present(j)
        BY <3>1, <3>2
      <4>2. Traceable(j)
        BY <4>1 DEF KeyInv
      <4>3. \E R \in purging : j \in R
        BY <3>2, <4>1, <4>2 DEF Traceable
      <4> QED
        BY <4>1, <4>3
    <3> QED
      BY <3>2 DEF DanglingKeysArePurged
  <2> QED
    BY <2>2, <2>3
<1> QED
  BY <1>1, <1>2, <1>3, Invariance, PTL DEF Spec

\* What is kept of jobs is bounded and found again, for every number of jobs, keys
\* and sessions and every limit.
THEOREM RecordsAccounted == Spec => []RecordsAreAccounted
<1>1. RetainedResultsBounded /\ OneKeyPerJob /\ DanglingKeysArePurged => RecordsAreAccounted
  BY DEF RecordsAreAccounted
<1> QED
  BY <1>1, ResultsAreBounded, KeysLeadToJobs, PTL
=============================================================================

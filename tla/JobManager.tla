----------------------------- MODULE JobManager -----------------------------
(***************************************************************************)
(* The native Companion's job manager (companion-service/src/lib.rs): the  *)
(* map of jobs, the chunked upload, the storage ledger, the semaphore that *)
(* bounds the providers, the task that runs one job, cancellation, the     *)
(* provider timeout and the cleanup of expired jobs.                       *)
(*                                                                         *)
(* One action is one critical section of the `jobs` mutex, or one step a   *)
(* task takes outside it.  An operation that only returns an error leaves  *)
(* the state alone and is a disabled action here.  Every operation begins  *)
(* with cleanup_expired(), a critical section of its own: other tasks may  *)
(* run between it and the operation, so it is the action Sweep, which can  *)
(* run before any operation and, from cleanup_loop, at any other time.     *)
(*                                                                         *)
(* Bytes are counted in chunks.  Clocks are abstract: which jobs have      *)
(* outlived their deadline is a choice of the sweep.  Event logs are the   *)
(* subject of JobEvents.                                                   *)
(***************************************************************************)
EXTENDS Naturals, FiniteSets

CONSTANTS
    Sessions,        \* authenticated sessions that own jobs
    Keys,            \* client idempotency keys
    Jobs,            \* job ids the manager can draw (Uuid::new_v4)
    NoJob,           \* no job under an idempotency key
    NoSession,       \* owner of an id not drawn yet
    MaxDocument,     \* MAX_DOCUMENT_BYTES
    MaxRuntime,      \* MAX_RUNTIME_BYTES
    MaxSession,      \* MAX_SESSION_BYTES
    MaxActive,       \* MAX_ACTIVE_JOBS
    MaxConcurrent,   \* MAX_CONCURRENT_JOBS
    MaxResults,      \* MAX_RETAINED_RESULTS
    MaxResultSize,   \* MAX_IR_RESULT_BYTES
    MaxResultBytes,  \* MAX_RETAINED_RESULT_BYTES
    RequestsMayDrop, \* the host drops a handler whose client disconnects
    WritesMayTear,   \* write_all may fail after writing a prefix
    ProvidersMayStop, \* a provider fires the token it was given
    RemovalsMayFail  \* remove_file may fail for a file that exists

ASSUME ConstantsAssumption ==
    /\ IsFiniteSet(Jobs)
    /\ NoJob \notin Jobs
    /\ NoSession \notin Sessions
    /\ {MaxDocument, MaxRuntime, MaxSession, MaxActive, MaxConcurrent,
        MaxResults, MaxResultSize, MaxResultBytes} \subseteq Nat
    /\ {RequestsMayDrop, WritesMayTear, ProvidersMayStop, RemovalsMayFail}
           \subseteq BOOLEAN

VARIABLES
    \* The records of the `jobs` map.
    state,          \* JobState, or "absent" / "removed" outside the map
    owner,          \* owner_session
    request,        \* request.declared_bytes
    bytes,          \* bytes, also next_chunk while the job is receiving
    cancelled,      \* whether the cancellation token has fired
    workerRunning,  \* worker_running
    result,         \* size of the retained result, 0 when there is none
    \* The idempotency map and the sweeps that still have to clean it.
    idempotency, purging,
    \* The storage directory and its ledger.
    files,          \* jobs whose input file exists
    pieces,         \* whole chunks in the input file
    torn,           \* jobs whose input file holds a fragment of a failed write
    stored,         \* storage_bytes
    \* The tasks: permits of the semaphore, the run_queued task of each job,
    \* its provider's blocking thread and the size of what that returned.
    permits, runner, provider, output

admission == <<owner, request>>
lookup == <<idempotency, purging>>
storage == <<bytes, files, pieces, torn, stored>>
tasks == <<permits, runner, provider, output>>
vars == <<state, admission, cancelled, workerRunning, result, lookup,
          storage, tasks>>

Pending == {"receiving", "queued"}
Busy == {"running", "cancelling"}
Terminal == {"completed", "cancelled", "failed"}
JobState == Pending \cup Busy \cup Terminal

RunnerState == {"none", "spawned", "waiting", "granted", "supervising",
                "joined", "expiring", "expiringByUser", "detached", "done"}
\* The points of run_queued at which the task owns a semaphore permit.
Holding == {"granted", "supervising", "expiring", "expiringByUser", "detached"}
\* ... and those between "worker_running = true" and its reset.
Working == {"supervising", "joined", "expiring", "expiringByUser", "detached"}

Present(j) == state[j] \in JobState
Owns(s, j) == Present(j) /\ owner[j] = s
ActiveJobs == {j \in Jobs : state[j] \in Pending \cup Busy}

\* The sum of f over S, as the size of a disjoint union.
Units(f, S) == UNION {{x} \X (1 .. f[x]) : x \in S}
Total(f, S) == Cardinality(Units(f, S))

SessionBytes(s) == Total(bytes, {j \in Jobs : Owns(s, j)})

StorageQuotaAllows(s, addition) ==
    /\ stored + addition <= MaxRuntime
    /\ SessionBytes(s) + addition <= MaxSession

Init ==
    /\ state = [j \in Jobs |-> "absent"]
    /\ owner = [j \in Jobs |-> NoSession]
    /\ request = [j \in Jobs |-> 0]
    /\ bytes = [j \in Jobs |-> 0]
    /\ cancelled = [j \in Jobs |-> FALSE]
    /\ workerRunning = [j \in Jobs |-> FALSE]
    /\ result = [j \in Jobs |-> 0]
    /\ idempotency = [sk \in Sessions \X Keys |-> NoJob]
    /\ purging = {}
    /\ files = {}
    /\ pieces = [j \in Jobs |-> 0]
    /\ torn = {}
    /\ stored = 0
    /\ permits = MaxConcurrent
    /\ runner = [j \in Jobs |-> "none"]
    /\ provider = [j \in Jobs |-> "idle"]
    /\ output = [j \in Jobs |-> 0]
-----------------------------------------------------------------------------
(* remove_job_input for every job of S; K are those whose file stays.      *)

Monus(a, b) == IF a >= b THEN a - b ELSE 0

Undeletable(S) == IF RemovalsMayFail THEN SUBSET (S \cap files) ELSE {{}}

\* Mutant: the bytes are released although the file stays.
RemoveInputsReleaseAlways(S, K) ==
    LET gone == S \ K IN
    /\ files' = files \ gone
    /\ pieces' = [j \in Jobs |-> IF j \in gone THEN 0 ELSE pieces[j]]
    /\ torn' = torn \ gone
    /\ bytes' = [j \in Jobs |-> IF j \in S THEN 0 ELSE bytes[j]]
    /\ stored' = Monus(stored, Total(bytes, S))

RemoveInputs(S, K) ==
    LET gone == S \ K IN
    /\ files' = files \ gone
    /\ pieces' = [j \in Jobs |-> IF j \in gone THEN 0 ELSE pieces[j]]
    /\ torn' = torn \ gone
    /\ bytes' = [j \in Jobs |-> IF j \in gone THEN 0 ELSE bytes[j]]
    /\ stored' = Monus(stored, Total(bytes, gone))
-----------------------------------------------------------------------------
(* Client operations.                                                      *)

\* A request whose key is known returns that job and changes nothing.
Create(s, k, declared) ==
    /\ idempotency[<<s, k>>] = NoJob
    /\ Cardinality(ActiveJobs) < MaxActive
    /\ \E j \in Jobs :
        /\ state[j] = "absent"
        /\ state' = [state EXCEPT ![j] = "receiving"]
        /\ owner' = [owner EXCEPT ![j] = s]
        /\ request' = [request EXCEPT ![j] = declared]
        /\ files' = files \cup {j}
        /\ idempotency' = [idempotency EXCEPT ![<<s, k>>] = j]
    /\ UNCHANGED <<cancelled, workerRunning, result, purging, bytes, pieces,
                   torn, stored, tasks>>

\* The next chunk in sequence may be written: the guards of append_chunk.
Appendable(s, j) ==
    /\ Owns(s, j)
    /\ state[j] = "receiving"
    /\ bytes[j] + 1 <= request[j]
    /\ bytes[j] + 1 <= MaxDocument
    /\ StorageQuotaAllows(s, 1)
    /\ j \in files

AppendChunk(s, j) ==
    /\ Appendable(s, j)
    /\ pieces' = [pieces EXCEPT ![j] = @ + 1]
    /\ bytes' = [bytes EXCEPT ![j] = @ + 1]
    /\ stored' = stored + 1
    /\ UNCHANGED <<state, admission, cancelled, workerRunning, result, lookup,
                   files, torn, tasks>>

\* write_all fails half way: the prefix stays in the file and nothing else
\* changes, so the client's retry of the same chunk is accepted after it.
TearChunk(s, j) ==
    /\ WritesMayTear
    /\ Appendable(s, j)
    /\ torn' = torn \cup {j}
    /\ UNCHANGED <<state, admission, cancelled, workerRunning, result, lookup,
                   bytes, files, pieces, stored, tasks>>

\* The digest covers the accepted chunks only.  A repeated call finds
\* completed_input set, or the job past "receiving": no second runner.
CompleteInput(s, j) ==
    /\ Owns(s, j)
    /\ state[j] = "receiving"
    /\ bytes[j] = request[j]
    /\ state' = [state EXCEPT ![j] = "queued"]
    /\ runner' = [runner EXCEPT ![j] = "spawned"]
    /\ UNCHANGED <<admission, cancelled, workerRunning, result, lookup,
                   storage, permits, provider, output>>

CancelPending(s, j) ==
    /\ Owns(s, j)
    /\ state[j] \in Pending
    /\ cancelled' = [cancelled EXCEPT ![j] = TRUE]
    /\ state' = [state EXCEPT ![j] = "cancelled"]
    /\ \E K \in Undeletable({j}) : RemoveInputs({j}, K)
    /\ UNCHANGED <<admission, workerRunning, result, lookup, tasks>>

CancelRunning(s, j) ==
    /\ Owns(s, j)
    /\ state[j] = "running"
    /\ state' = [state EXCEPT ![j] = "cancelling"]
    /\ cancelled' = [cancelled EXCEPT ![j] = TRUE]
    /\ UNCHANGED <<admission, workerRunning, result, lookup, storage, tasks>>

AcknowledgeResult(s, j) ==
    /\ Owns(s, j)
    /\ state[j] = "completed"
    /\ result' = [result EXCEPT ![j] = 0]
    /\ UNCHANGED <<state, admission, cancelled, workerRunning, lookup,
                   storage, tasks>>
-----------------------------------------------------------------------------
(* run_queued: one task per queued job.                                    *)

\* First critical section: the job must still be queued.
RunnerStart(j) ==
    /\ runner[j] = "spawned"
    /\ runner' = [runner EXCEPT ![j] = IF state[j] = "queued" THEN "waiting"
                                                              ELSE "done"]
    /\ UNCHANGED <<state, admission, cancelled, workerRunning, result, lookup,
                   storage, permits, provider, output>>

\* Mutant: the permit is not awaited.
AcquirePermitUnchecked(j) ==
    /\ runner[j] = "waiting"
    /\ permits' = permits - 1
    /\ runner' = [runner EXCEPT ![j] = "granted"]
    /\ UNCHANGED <<state, admission, cancelled, workerRunning, result, lookup,
                   storage, provider, output>>

AcquirePermit(j) ==
    /\ runner[j] = "waiting"
    /\ permits > 0
    /\ permits' = permits - 1
    /\ runner' = [runner EXCEPT ![j] = "granted"]
    /\ UNCHANGED <<state, admission, cancelled, workerRunning, result, lookup,
                   storage, provider, output>>

\* Mutant: a task that finds the semaphore empty gives up.
LeaveQueueWhenFull(j) ==
    /\ runner[j] = "waiting"
    /\ cancelled[j] \/ permits = 0
    /\ runner' = [runner EXCEPT ![j] = "done"]
    /\ UNCHANGED <<state, admission, cancelled, workerRunning, result, lookup,
                   storage, permits, provider, output>>

\* The other branch of select!: the token fired while the task waited.
LeaveQueue(j) ==
    /\ runner[j] = "waiting"
    /\ cancelled[j]
    /\ runner' = [runner EXCEPT ![j] = "done"]
    /\ UNCHANGED <<state, admission, cancelled, workerRunning, result, lookup,
                   storage, permits, provider, output>>

Runnable(j) == state[j] = "queued" /\ ~cancelled[j]

BeginProvider(j) ==
    /\ runner[j] = "granted"
    /\ Runnable(j)
    /\ state' = [state EXCEPT ![j] = "running"]
    /\ workerRunning' = [workerRunning EXCEPT ![j] = TRUE]
    /\ runner' = [runner EXCEPT ![j] = "supervising"]
    /\ provider' = [provider EXCEPT ![j] = "busy"]
    /\ UNCHANGED <<admission, cancelled, result, lookup, storage, permits,
                   output>>

\* Mutant: the permit of a job that is not run is lost.
ReturnPermitLeaking(j) ==
    /\ runner[j] = "granted"
    /\ ~Runnable(j)
    /\ runner' = [runner EXCEPT ![j] = "done"]
    /\ UNCHANGED <<state, admission, cancelled, workerRunning, result, lookup,
                   storage, permits, provider, output>>

\* The job was cancelled or swept between the queue and the permit.
ReturnPermit(j) ==
    /\ runner[j] = "granted"
    /\ ~Runnable(j)
    /\ runner' = [runner EXCEPT ![j] = "done"]
    /\ permits' = permits + 1
    /\ UNCHANGED <<state, admission, cancelled, workerRunning, result, lookup,
                   storage, provider, output>>

\* The blocking thread ends: an error, or an output with or without a result.
ProviderReturns(j) ==
    /\ provider[j] = "busy"
    /\ \/ /\ provider' = [provider EXCEPT ![j] = "failed"]
          /\ UNCHANGED output
       \/ /\ provider' = [provider EXCEPT ![j] = "returned"]
          /\ \E size \in 0 .. MaxResultSize :
                output' = [output EXCEPT ![j] = size]
    /\ UNCHANGED <<state, admission, cancelled, workerRunning, result, lookup,
                   storage, permits, runner>>

\* The extractor stops its own workers through the job's token when a document
\* exceeds the output limit.  What it returns after that is not looked at.
ProviderGivesUp(j) ==
    /\ ProvidersMayStop
    /\ provider[j] = "busy"
    /\ cancelled' = [cancelled EXCEPT ![j] = TRUE]
    /\ UNCHANGED <<state, admission, workerRunning, result, lookup, storage,
                   tasks>>

\* The task sees the thread end in time and drops its permit.
JoinProvider(j) ==
    /\ runner[j] = "supervising"
    /\ provider[j] # "busy"
    /\ runner' = [runner EXCEPT ![j] = "joined"]
    /\ permits' = permits + 1
    /\ UNCHANGED <<state, admission, cancelled, workerRunning, result, lookup,
                   storage, provider, output>>

CanRetain(j) ==
    \/ output[j] = 0
    \/ /\ Cardinality({i \in Jobs : result[i] > 0}) < MaxResults
       /\ Total(result, Jobs) + output[j] <= MaxResultBytes

\* Mutant: a provider that returned before it saw the token wins.
StoppedUnlessReturned(j) ==
    (cancelled[j] \/ state[j] = "cancelling") /\ provider[j] = "failed"

Stopped(j) == cancelled[j] \/ state[j] = "cancelling"

\* Last critical section of a run that did not time out.
Settle(j) ==
    /\ runner[j] = "joined"
    /\ Present(j)
    /\ LET kept == ~Stopped(j) /\ provider[j] = "returned" /\ CanRetain(j)
       IN /\ state' = [state EXCEPT ![j] = IF Stopped(j) THEN "cancelled"
                                           ELSE IF kept THEN "completed"
                                           ELSE "failed"]
          /\ result' = [result EXCEPT ![j] = IF kept THEN output[j] ELSE @]
    /\ workerRunning' = [workerRunning EXCEPT ![j] = FALSE]
    /\ runner' = [runner EXCEPT ![j] = "done"]
    /\ \E K \in Undeletable({j}) : RemoveInputs({j}, K)
    /\ UNCHANGED <<admission, cancelled, lookup, permits, provider, output>>

\* The timeout fires with the thread still busy.  The token is read, then
\* fired, without the lock.
Timeout(j) ==
    /\ runner[j] = "supervising"
    /\ provider[j] = "busy"
    /\ runner' = [runner EXCEPT ![j] = IF cancelled[j] THEN "expiringByUser"
                                                       ELSE "expiring"]
    /\ cancelled' = [cancelled EXCEPT ![j] = TRUE]
    /\ UNCHANGED <<state, admission, workerRunning, result, lookup, storage,
                   permits, provider, output>>

\* The state is overwritten under the lock by what was read before it, and the
\* thread, its permit and the input are left to a detached task.
Expire(j) ==
    /\ runner[j] \in {"expiring", "expiringByUser"}
    /\ Present(j)
    /\ state' = [state EXCEPT ![j] = IF runner[j] = "expiringByUser"
                                     THEN "cancelled" ELSE "failed"]
    /\ runner' = [runner EXCEPT ![j] = "detached"]
    /\ UNCHANGED <<admission, cancelled, workerRunning, result, lookup,
                   storage, permits, provider, output>>

\* Mutant: the detached task leaves worker_running set.
ReapKeepsFlag(j) ==
    /\ runner[j] = "detached"
    /\ provider[j] # "busy"
    /\ Present(j)
    /\ runner' = [runner EXCEPT ![j] = "done"]
    /\ permits' = permits + 1
    /\ \E K \in Undeletable({j}) : RemoveInputs({j}, K)
    /\ UNCHANGED <<state, admission, cancelled, workerRunning, result, lookup,
                   provider, output>>

\* The detached task: the late thread has ended.
Reap(j) ==
    /\ runner[j] = "detached"
    /\ provider[j] # "busy"
    /\ Present(j)
    /\ workerRunning' = [workerRunning EXCEPT ![j] = FALSE]
    /\ runner' = [runner EXCEPT ![j] = "done"]
    /\ permits' = permits + 1
    /\ \E K \in Undeletable({j}) : RemoveInputs({j}, K)
    /\ UNCHANGED <<state, admission, cancelled, result, lookup, provider,
                   output>>
-----------------------------------------------------------------------------
(* cleanup_expired: abandoned jobs are cancelled and old terminal records  *)
(* removed under the jobs lock; the idempotency map is cleaned after that  *)
(* lock is released, unless the request doing it is dropped in between.    *)

\* Mutant: a terminal record is removed although its thread still runs.
SweepableWhileWorking(E, R) ==
    /\ \A j \in E : state[j] \in Pending
    /\ \A j \in R : state[j] \in Terminal

Sweepable(E, R) ==
    /\ \A j \in E : state[j] \in Pending
    /\ \A j \in R : state[j] \in Terminal /\ ~workerRunning[j]

Sweep(E, R) ==
    /\ E \cup R # {}
    /\ Sweepable(E, R)
    /\ state' = [j \in Jobs |-> IF j \in E THEN "cancelled"
                                ELSE IF j \in R THEN "removed" ELSE state[j]]
    /\ cancelled' = [j \in Jobs |-> cancelled[j] \/ j \in E]
    /\ result' = [j \in Jobs |-> IF j \in R THEN 0 ELSE result[j]]
    /\ \E K \in Undeletable(E \cup R) : RemoveInputs(E \cup R, K)
    /\ purging' = IF R = {} THEN purging ELSE purging \cup {R}
    /\ UNCHANGED <<admission, workerRunning, idempotency, tasks>>

\* Mutant: the keys of jobs that have left the map are kept.
PurgePresentOnly(R) ==
    /\ R \in purging
    /\ purging' = purging \ {R}
    /\ idempotency' = [sk \in Sessions \X Keys |->
                         IF idempotency[sk] \in {j \in R : Present(j)}
                         THEN NoJob ELSE idempotency[sk]]
    /\ UNCHANGED <<state, admission, cancelled, workerRunning, result,
                   storage, tasks>>

PurgeIdempotency(R) ==
    /\ R \in purging
    /\ purging' = purging \ {R}
    /\ idempotency' = [sk \in Sessions \X Keys |->
                         IF idempotency[sk] \in R THEN NoJob
                                                  ELSE idempotency[sk]]
    /\ UNCHANGED <<state, admission, cancelled, workerRunning, result,
                   storage, tasks>>

DropSweep(R) ==
    /\ RequestsMayDrop
    /\ R \in purging
    /\ purging' = purging \ {R}
    /\ UNCHANGED <<state, admission, cancelled, workerRunning, result,
                   idempotency, storage, tasks>>
-----------------------------------------------------------------------------
ClientStep(s) ==
    \/ \E k \in Keys, declared \in 0 .. MaxDocument : Create(s, k, declared)
    \/ \E j \in Jobs :
        \/ AppendChunk(s, j)
        \/ TearChunk(s, j)
        \/ CompleteInput(s, j)
        \/ CancelPending(s, j)
        \/ CancelRunning(s, j)
        \/ AcknowledgeResult(s, j)

RunnerStep(j) ==
    \/ RunnerStart(j)
    \/ LeaveQueue(j)
    \/ BeginProvider(j)
    \/ ReturnPermit(j)
    \/ JoinProvider(j)
    \/ Settle(j)
    \/ Timeout(j)
    \/ Expire(j)
    \/ Reap(j)

Next ==
    \/ \E s \in Sessions : ClientStep(s)
    \/ \E j \in Jobs : \/ RunnerStep(j) \/ AcquirePermit(j)
                       \/ ProviderReturns(j) \/ ProviderGivesUp(j)
    \/ \E E, R \in SUBSET Jobs : Sweep(E, R)
    \/ \E R \in purging : PurgeIdempotency(R) \/ DropSweep(R)

Spec == Init /\ [][Next]_vars
-----------------------------------------------------------------------------
(* Fairness.  tokio polls every task that can proceed, a timer fires and    *)
(* cleanup_loop runs every 30 seconds while nothing renews a queued job's   *)
(* last_touched.  The semaphore is first come, first served: a waiting task *)
(* that is offered a permit again and again takes one.  Nothing makes a     *)
(* provider return; only WorkersAreReaped assumes that it does.             *)

AbandonQueued(j) ==
    /\ state[j] = "queued"
    /\ \E E, R \in SUBSET Jobs : j \in E /\ Sweep(E, R)

RunnerFairness ==
    \A j \in Jobs :
        /\ WF_vars(RunnerStep(j))
        /\ SF_vars(AcquirePermit(j))
        /\ WF_vars(AbandonQueued(j))

FairSpec == Spec /\ RunnerFairness
-----------------------------------------------------------------------------
(* Invariants.                                                             *)

TypeOK ==
    /\ state \in [Jobs -> JobState \cup {"absent", "removed"}]
    /\ owner \in [Jobs -> Sessions \cup {NoSession}]
    /\ request \in [Jobs -> 0 .. MaxDocument]
    /\ bytes \in [Jobs -> 0 .. MaxDocument]
    /\ cancelled \in [Jobs -> BOOLEAN]
    /\ workerRunning \in [Jobs -> BOOLEAN]
    /\ result \in [Jobs -> 0 .. MaxResultSize]
    /\ idempotency \in [Sessions \X Keys -> Jobs \cup {NoJob}]
    /\ purging \subseteq SUBSET Jobs
    /\ files \subseteq Jobs
    /\ pieces \in [Jobs -> 0 .. MaxDocument]
    /\ torn \subseteq files
    /\ stored \in Nat
    /\ permits \in 0 .. MaxConcurrent
    /\ runner \in [Jobs -> RunnerState]
    /\ provider \in [Jobs -> {"idle", "busy", "returned", "failed"}]
    /\ output \in [Jobs -> 0 .. MaxResultSize]

\* storage_bytes counts exactly the accepted chunks that are on disk, also
\* when a removal failed and when the record of the file is already gone.
LedgerMatchesDisk == stored = Total(pieces, Jobs)

\* The storage quotas hold at every moment, whatever is released, retried or
\* removed: for the runtime, and for the records of each session.
QuotasHeld ==
    /\ stored <= MaxRuntime
    /\ \A s \in Sessions : SessionBytes(s) <= MaxSession

\* No permit is lost or minted on any path out of run_queued, so at most
\* MAX_CONCURRENT_JOBS providers work at a time, late ones included.
PermitsConserved ==
    /\ permits + Cardinality({j \in Jobs : runner[j] \in Holding}) = MaxConcurrent
    /\ Cardinality({j \in Jobs : provider[j] = "busy"}) <= MaxConcurrent

\* While a provider works, also after its job timed out or was cancelled, its
\* record stays in the map and its complete input stays on disk.
BusyProviderKeepsInput ==
    \A j \in Jobs : provider[j] = "busy" =>
        /\ Present(j)
        /\ workerRunning[j]
        /\ j \in files
        /\ pieces[j] = request[j]

\* Every queued job has a task that will run it, every running one a task that
\* will end it: no retry or cleanup strands a job.
RunnerCoversJob ==
    \A j \in Jobs :
        /\ state[j] = "queued" => runner[j] \in {"spawned", "waiting", "granted"}
        /\ state[j] \in Busy => runner[j] \in Working \ {"detached"}

\* A result is only kept by a completed job, and no job whose cancellation was
\* requested, by a user, a timeout or the sweep, is reported as completed.
CompletedWasNotCancelled ==
    \A j \in Jobs :
        /\ result[j] > 0 => state[j] = "completed"
        /\ state[j] = "completed" => ~cancelled[j]

\* The results waiting for an acknowledgement stay within both limits although
\* providers finish concurrently and the limit is checked when they do.
RetainedResultsBounded ==
    /\ Cardinality({j \in Jobs : result[j] > 0}) <= MaxResults
    /\ Total(result, Jobs) <= MaxResultBytes

\* Once a job is over and no thread works for it, its input is off the disk,
\* unless removing it failed.
NoInputLeftBehind ==
    \A j \in Jobs :
        state[j] \in Terminal \cup {"removed"} /\ ~workerRunning[j] /\ j \in files
            => RemovalsMayFail

\* Every job in the map is found by exactly one key, one of its owner's: a
\* retried request never makes a second job while the first is in the map.
OneKeyPerJob ==
    \A j \in Jobs : Present(j) =>
        \E k \in Keys :
            {sk \in Sessions \X Keys : idempotency[sk] = j} = {<<owner[j], k>>}

\* A key that still leads to a removed job is about to be cleaned, when no
\* request can be dropped half way through its sweep.
DanglingKeysArePurged ==
    \A sk \in Sessions \X Keys :
        idempotency[sk] # NoJob /\ ~Present(idempotency[sk]) =>
            RequestsMayDrop \/ \E R \in purging : idempotency[sk] \in R

\* The client can rely on the records: a live job has a task that ends it, and a
\* job that is over leaves no input behind.
NothingIsStranded == RunnerCoversJob /\ NoInputLeftBehind

\* What is kept of jobs is bounded and is found again: results within their limits,
\* one key for each job, no key that leads to none for longer than a sweep.
RecordsAreAccounted == RetainedResultsBounded /\ OneKeyPerJob /\ DanglingKeysArePurged

\* The ledger by which uploads are admitted is the disk, and its quotas hold.
StorageIsExact == LedgerMatchesDisk /\ QuotasHeld
-----------------------------------------------------------------------------
(* What holds the above together.                                          *)

\* Where a job's task stands decides what its record can say: a job is busy for
\* exactly as long as its task supervises it, its token has not fired before it
\* started nor when it completed, and the job of a late thread is already over.
TaskInv ==
    \A j \in Jobs :
        /\ workerRunning[j] <=> runner[j] \in Working
        /\ provider[j] = "busy" => runner[j] \in Working \ {"joined"}
        /\ state[j] \in Busy <=> runner[j] \in Working \ {"detached"}
        /\ runner[j] = "detached" => state[j] \in {"cancelled", "failed"}
        /\ state[j] \in {"absent", "receiving"} => runner[j] = "none"
        /\ state[j] = "queued" => runner[j] \in {"spawned", "waiting", "granted"}
        /\ state[j] \in {"absent", "receiving", "queued"} => ~cancelled[j]
        /\ state[j] = "cancelling" => cancelled[j]
        /\ state[j] = "completed" => ~cancelled[j]
        /\ result[j] > 0 => state[j] = "completed"

\* The disk holds what the record accepted: the input of every job that may
\* still be read is there, and complete once the job is queued.
DiskInv ==
    \A j \in Jobs :
        /\ pieces[j] = bytes[j]
        /\ bytes[j] <= request[j]
        /\ bytes[j] > 0 => j \in files
        /\ state[j] = "absent" => bytes[j] = 0 /\ j \notin files
        /\ state[j] \in Pending \cup Busy \/ runner[j] = "detached" => j \in files
        /\ state[j] \in Busy \cup {"queued"} \/ runner[j] = "detached" =>
               bytes[j] = request[j]
-----------------------------------------------------------------------------
(* Step and liveness properties.                                           *)

\* The transitions JobState::transition accepts.
Transition ==
    {<<"receiving", "queued">>, <<"queued", "running">>,
     <<"running", "cancelling">>, <<"cancelling", "cancelled">>,
     <<"running", "completed">>, <<"receiving", "cancelled">>,
     <<"queued", "cancelled">>, <<"receiving", "failed">>,
     <<"queued", "failed">>, <<"running", "failed">>}

\* A stored state only changes as JobState::transition allows.
\* The code does not have this property: see "Divergences" in the README.
StateMachineFollowed ==
    [][\A j \in Jobs : Present(j) /\ Present(j)' /\ state'[j] # state[j] =>
         <<state[j], state'[j]>> \in Transition]_vars

\* The bytes a provider reads are the chunks the digest was computed over.
\* The code does not have this property: see "Divergences" in the README.
ProviderReadsVerifiedInput ==
    \A j \in Jobs : provider[j] = "busy" => j \notin torn

\* A queued job leaves the queue, even if no provider ever returns its permit.
QueuedJobLeavesQueue ==
    \A j \in Jobs : state[j] = "queued" ~> state[j] # "queued"

\* A started job reaches a final state, even if its provider never returns.
StartedJobEnds ==
    \A j \in Jobs : state[j] \in Busy ~> state[j] \in Terminal

\* If providers return, late or not, every job that was started gives its thread,
\* its permit and its record's protection back.
WorkersAreReaped ==
    (\A j \in Jobs : WF_vars(ProviderReturns(j))) =>
        \A j \in Jobs : workerRunning[j] ~>
            ~workerRunning[j] /\ runner[j] = "done"

\* Every job goes on: out of the queue, to its end, and its worker to the reaper,
\* whichever providers return.
JobsMoveOn == QueuedJobLeavesQueue /\ StartedJobEnds /\ WorkersAreReaped

\* Seen through the phases of its jobs and the results that can be fetched, the
\* manager takes no step the lifecycle does not allow.
Lifecycle == INSTANCE JobLifecycle
    WITH phase <- state, available <- {j \in Jobs : result[j] > 0}
ImplementsLifecycle == Lifecycle!Spec
=============================================================================

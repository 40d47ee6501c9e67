---------------------------- MODULE JobLifecycle ----------------------------
(***************************************************************************)
(* What the job manager promises about each job, whatever tasks, permits,  *)
(* timers and files it uses: the phases of a job and whether its result    *)
(* can still be fetched.  JobManager implements it.                        *)
(***************************************************************************)
EXTENDS Naturals, FiniteSets

CONSTANTS Jobs, MaxActive, MaxResults

VARIABLES
    phase,      \* phase of each job id
    available   \* jobs whose result can be fetched

vars == <<phase, available>>

Pending == {"receiving", "queued"}
Busy == {"running", "cancelling"}
Terminal == {"completed", "cancelled", "failed"}

Init ==
    /\ phase = [j \in Jobs |-> "absent"]
    /\ available = {}

\* A new job is taken on while fewer than MaxActive are unfinished.
Accept(j) ==
    /\ phase[j] = "absent"
    /\ Cardinality({i \in Jobs : phase[i] \in Pending \cup Busy}) < MaxActive
    /\ phase' = [phase EXCEPT ![j] = "receiving"]
    /\ UNCHANGED available

Advance(j, from, to) ==
    /\ phase[j] = from
    /\ phase' = [phase EXCEPT ![j] = to]
    /\ UNCHANGED available

Enqueue(j) == Advance(j, "receiving", "queued")
Start(j) == Advance(j, "queued", "running")
RequestStop(j) == Advance(j, "running", "cancelling")

\* A started job can fail or be stopped, asked to or not; one that was asked to
\* stop never completes.
Stop(j) ==
    \E from \in Busy, to \in {"cancelled", "failed"} : Advance(j, from, to)

\* A completed job offers a result only while fewer than MaxResults do.
Complete(j) ==
    /\ phase[j] = "running"
    /\ phase' = [phase EXCEPT ![j] = "completed"]
    /\ \/ UNCHANGED available
       \/ /\ Cardinality(available) < MaxResults
          /\ available' = available \cup {j}

Acknowledge(j) ==
    /\ phase[j] = "completed"
    /\ available' = available \ {j}
    /\ UNCHANGED phase

\* Jobs that have not started can be given up and finished ones forgotten,
\* several at once; a forgotten id is never used again.
Withdraw(E, R) ==
    /\ \A j \in E : phase[j] \in Pending
    /\ \A j \in R : phase[j] \in Terminal
    /\ phase' = [j \in Jobs |-> IF j \in E THEN "cancelled"
                                ELSE IF j \in R THEN "removed" ELSE phase[j]]
    /\ available' = available \ R

Next ==
    \/ \E j \in Jobs :
        \/ Accept(j) \/ Enqueue(j) \/ Start(j) \/ RequestStop(j)
        \/ Stop(j) \/ Complete(j) \/ Acknowledge(j)
    \/ \E E, R \in SUBSET Jobs : Withdraw(E, R)

Spec == Init /\ [][Next]_vars
=============================================================================

------------------------------ MODULE JobEvents ------------------------------
(***************************************************************************)
(* The event log of one job (companion-service/src/lib.rs) and the         *)
(* subscription that follows it (web-app/src/features/companion/bridge.js  *)
(* and the desktop's tauri-adapter.js).  The manager appends to a bounded  *)
(* log under its lock and notifies; a monitor task appends what the        *)
(* provider reports; the client polls for what follows the number it has,  *)
(* and a poll that finds nothing waits for a notification or a deadline.   *)
(*                                                                         *)
(* Events are numbers with a kind.  A progress report appends three events *)
(* at once (page-started, job-progress, page-completed), here of one kind. *)
(***************************************************************************)
EXTENDS Naturals, FiniteSets

CONSTANTS
    MaxQueue,    \* MAX_EVENT_QUEUE
    Limit,       \* maxEventBatch of the client
    HandlesGap,  \* the browser's client goes on after a gap, the desktop's fails
    MaxReports   \* bound on the progress reports of the provider

ASSUME EventsAssumption ==
    /\ MaxQueue \in Nat \ {0}
    /\ Limit \in Nat \ {0}
    /\ HandlesGap \in BOOLEAN
    /\ MaxReports \in Nat

VARIABLES
    state,       \* of the job; "gone" when its record is removed
    runner,      \* where run_queued stands
    channel,     \* progress reports the monitor has not received
    monitor,     \* the progress monitor
    reports,     \* progress the provider reported, in total
    sequence,    \* event_sequence
    events,      \* the retained events
    poll,        \* the poll of the subscription
    page,        \* its answer, a set of at most one
    cursor,      \* the client's sequence
    seen,        \* events given to the client's onEvent
    skipped      \* event numbers the client was told it missed

job == <<state, runner, channel, monitor, reports>>
log == <<sequence, events>>
client == <<cursor, seen, skipped>>
vars == <<job, log, poll, page, client>>

Kinds == {"queued", "progress", "terminal"}
\* is_terminal(job.state), as long as there is a record to look at.
Terminal == state = "terminal"
Ended == poll \in {"done", "failed"}

Init ==
    /\ state = "pending"
    /\ runner = "none"
    /\ channel = 0
    /\ monitor = "off"
    /\ reports = 0
    /\ sequence = 0
    /\ events = {}
    /\ poll = "idle"
    /\ page = {}
    /\ cursor = 0
    /\ seen = {}
    /\ skipped = {}
-----------------------------------------------------------------------------
(* The log.                                                                *)

Numbered(k, last) ==
    {[sequence |-> n, kind |-> IF n = sequence + k THEN last ELSE "progress"] :
        n \in sequence + 1 .. sequence + k}

\* notify_waiters wakes the polls that wait, and is forgotten by the others.
Notify == poll' = IF poll = "listening" THEN "woken" ELSE poll

\* append_event, k times under one lock: progress, and an event of kind last.
\* The oldest events are drained when the log is full.
Append(k, last) ==
    /\ sequence' = sequence + k
    /\ events' = {e \in events \cup Numbered(k, last) :
                    e.sequence + MaxQueue > sequence + k}
    /\ Notify

Numbers == {e.sequence : e \in events}
Earliest ==
    IF events = {} THEN sequence + 1
    ELSE CHOOSE n \in Numbers : \A m \in Numbers : n <= m
-----------------------------------------------------------------------------
(* The job.                                                                *)

Enqueue ==
    /\ state = "pending"
    /\ state' = "queued"
    /\ Append(1, "queued")
    /\ UNCHANGED <<runner, channel, monitor, reports, page, client>>

\* Cancelled by its user before it runs, or swept as abandoned.
Withdraw ==
    /\ state \in {"pending", "queued"}
    /\ state' = "terminal"
    /\ Append(1, "terminal")
    /\ UNCHANGED <<runner, channel, monitor, reports, page, client>>

Start ==
    /\ state = "queued"
    /\ state' = "running"
    /\ runner' = "providing"
    /\ monitor' = "waiting"
    /\ UNCHANGED <<channel, reports, log, poll, page, client>>

Report ==
    /\ runner = "providing"
    /\ reports < MaxReports
    /\ channel' = channel + 1
    /\ reports' = reports + 1
    /\ UNCHANGED <<state, runner, monitor, log, poll, page, client>>

MonitorReceive ==
    /\ monitor = "waiting"
    /\ channel > 0
    /\ monitor' = "holding"
    /\ channel' = channel - 1
    /\ UNCHANGED <<state, runner, reports, log, poll, page, client>>

\* An aborted monitor that is past its last await still appends what it holds.
MonitorApply ==
    /\ monitor = "holding"
    /\ IF state # "gone" THEN Append(3, "progress") ELSE UNCHANGED <<log, poll>>
    /\ monitor' = IF runner \in {"providing", "draining"} THEN "waiting" ELSE "off"
    /\ UNCHANGED <<state, runner, channel, reports, page, client>>

\* The provider returns in time, and with it go all senders of the channel.
ProviderReturns ==
    /\ runner = "providing"
    /\ runner' = "draining"
    /\ UNCHANGED <<state, channel, monitor, reports, log, poll, page, client>>

\* Mutant: run_queued does not await the monitor.
SettleWithoutMonitor ==
    /\ runner = "draining"
    /\ runner' = "joined"
    /\ state' = "terminal"
    /\ \E m \in 0 .. MaxReports - reports :
        /\ reports' = reports + m
        /\ Append(3 * m + 1, "terminal")
    /\ UNCHANGED <<channel, monitor, page, client>>

\* The monitor has received all progress; the progress of the output, if any,
\* and the final event are appended under one lock.
Settle ==
    /\ runner = "draining"
    /\ monitor = "waiting"
    /\ channel = 0
    /\ runner' = "joined"
    /\ monitor' = "off"
    /\ state' = "terminal"
    /\ \E m \in 0 .. MaxReports - reports :
        /\ reports' = reports + m
        /\ Append(3 * m + 1, "terminal")
    /\ UNCHANGED <<channel, page, client>>

\* The provider is late.  abort stops a monitor at its await, not a step that is
\* being taken on another thread.
Timeout ==
    /\ runner = "providing"
    /\ runner' = "expiring"
    /\ channel' = 0
    /\ monitor' \in {"off", monitor} \ {"waiting"}
    /\ UNCHANGED <<state, reports, log, poll, page, client>>

Expire ==
    /\ runner = "expiring"
    /\ runner' = "expired"
    /\ state' = "terminal"
    /\ Append(1, "terminal")
    /\ UNCHANGED <<channel, monitor, reports, page, client>>

\* cleanup_expired, at the end of the retention period.
Remove ==
    /\ state = "terminal"
    /\ runner \notin {"providing", "draining", "expiring"}
    /\ state' = "gone"
    /\ UNCHANGED <<runner, channel, monitor, reports, log, poll, page, client>>
-----------------------------------------------------------------------------
(* The server's side of a poll: events_after.                              *)

\* Mutant: the test for a gap allows for one event too many.
HistoryGapOffByOne == cursor + 2 < Earliest

\* Events that follow the cursor are not retained any more.
HistoryGap == cursor + 1 < Earliest

NotFound == [kind |-> "not-found"]
Gap == [kind |-> "gap", earliest |-> Earliest]
Page(fresh, last, terminal) ==
    [kind |-> "page", events |-> fresh, next |-> last, terminal |-> terminal]

\* The first Limit events after the cursor.
Fresh == {e \in events : e.sequence > cursor /\ e.sequence <= cursor + Limit}
Last == IF cursor + Limit < sequence THEN cursor + Limit ELSE sequence

Answer(a) ==
    /\ page' = {a}
    /\ poll' = "answered"

Check ==
    /\ poll \in {"checking", "woken"}
    /\ \/ /\ state = "gone"
          /\ Answer(NotFound)
       \/ /\ state # "gone"
          /\ HistoryGap
          /\ Answer(Gap)
       \/ /\ state # "gone"
          /\ ~HistoryGap
          /\ \/ Fresh # {} /\ Answer(Page(Fresh, Last, Terminal))
             \/ Fresh = {} /\ Terminal /\ Answer(Page({}, cursor, TRUE))
             \/ Fresh = {} /\ ~Terminal /\ poll' = "unlocked" /\ UNCHANGED page
    /\ UNCHANGED <<job, log, client>>

\* The lock is released before notified() is called: a notification in between
\* is for nobody.
Listen ==
    /\ poll = "unlocked"
    /\ poll' = "listening"
    /\ UNCHANGED <<job, log, page, client>>

\* Mutant: a poll waits for its notification only.
NoDeadline == FALSE /\ UNCHANGED vars

\* select! may take the deadline even when a notification has come.
Deadline ==
    /\ poll \in {"listening", "woken"}
    /\ poll' = "late"
    /\ UNCHANGED <<job, log, page, client>>

\* Mutant: the page of a poll that ran out of time says the job is over.
AnswerLateAsTerminal ==
    /\ poll = "late"
    /\ Answer(Page({}, cursor, TRUE))
    /\ UNCHANGED <<job, log, client>>

\* The deadline's page has no events, whatever has been appended.
AnswerLate ==
    /\ poll = "late"
    /\ \/ state = "gone" /\ Answer(NotFound)
       \/ state # "gone" /\ HistoryGap /\ Answer(Gap)
       \/ state # "gone" /\ ~HistoryGap /\ Answer(Page({}, cursor, Terminal))
    /\ UNCHANGED <<job, log, client>>
-----------------------------------------------------------------------------
(* The client's side: subscribe.                                           *)

Poll ==
    /\ poll = "idle"
    /\ poll' = "checking"
    /\ UNCHANGED <<job, log, page, client>>

\* A request fails, or the subscription is stopped or its signal aborted.
Disconnect ==
    /\ ~Ended
    /\ poll' = "failed"
    /\ page' = {}
    /\ UNCHANGED <<job, log, client>>

ReceivePage ==
    /\ poll = "answered"
    /\ \E a \in page :
        /\ a.kind = "page"
        /\ seen' = seen \cup a.events
        /\ cursor' = a.next
        /\ poll' = IF a.terminal THEN "done" ELSE "idle"
    /\ page' = {}
    /\ UNCHANGED <<job, log, skipped>>

\* The browser's client is told where the log begins and goes on from there; the
\* desktop's takes it for an error like any other.
ReceiveGap ==
    /\ poll = "answered"
    /\ HandlesGap
    /\ \E a \in page :
        /\ a.kind = "gap"
        /\ skipped' = skipped \cup (cursor + 1 .. a.earliest - 1)
        /\ cursor' = a.earliest - 1
    /\ poll' = "idle"
    /\ page' = {}
    /\ UNCHANGED <<job, log, seen>>

ReceiveError ==
    /\ poll = "answered"
    /\ \E a \in page : a.kind \in {"not-found"} \cup (IF HandlesGap THEN {} ELSE {"gap"})
    /\ poll' = "failed"
    /\ page' = {}
    /\ UNCHANGED <<job, log, client>>
-----------------------------------------------------------------------------
JobStep ==
    \/ Enqueue \/ Withdraw \/ Start \/ Report
    \/ MonitorReceive \/ MonitorApply
    \/ ProviderReturns \/ Settle \/ Timeout \/ Expire \/ Remove

\* The steps of a subscription nobody stops.
PollStep ==
    \/ Poll \/ Check \/ Listen \/ AnswerLate
    \/ ReceivePage \/ ReceiveGap \/ ReceiveError

Next == JobStep \/ PollStep \/ Deadline \/ Disconnect

Spec == Init /\ [][Next]_vars

\* The server answers, timers fire, and the client's loop goes on.
FairSpec == Spec /\ WF_vars(PollStep) /\ WF_vars(Deadline)
-----------------------------------------------------------------------------
(* Properties.                                                             *)

\* Types; the log is bounded, and its numbers are the last ones given out,
\* without a hole.
TypeOK ==
    /\ state \in {"pending", "queued", "running", "terminal", "gone"}
    /\ runner \in {"none", "providing", "draining", "joined", "expiring", "expired"}
    /\ channel \in Nat
    /\ monitor \in {"off", "waiting", "holding"}
    /\ reports \in Nat
    /\ sequence \in Nat
    /\ events \subseteq [sequence : 1 .. sequence, kind : Kinds]
    /\ \A n \in 1 .. sequence : n + MaxQueue > sequence <=> n \in Numbers
    /\ poll \in {"idle", "checking", "unlocked", "listening", "woken", "late",
                 "answered", "done", "failed"}
    /\ page # {} => poll = "answered"
    /\ cursor \in 0 .. sequence
    /\ seen \subseteq [sequence : 1 .. cursor, kind : Kinds]
    /\ skipped \subseteq 1 .. cursor

\* An answer under way fits the cursor it was asked for, whatever happens to the
\* log before it arrives: a page starts right after it, a gap lies ahead of it,
\* and only the page of a job that has ended says so.
PageInv ==
    \A a \in page :
        /\ a.kind \in {"not-found", "gap", "page"}
        /\ a.kind = "gap" => a.earliest \in cursor + 2 .. sequence
        /\ a.kind = "page" =>
            /\ a.next \in cursor .. sequence
            /\ a.events \subseteq [sequence : cursor + 1 .. a.next, kind : Kinds]
            /\ cursor + 1 .. a.next = {e.sequence : e \in a.events}
            /\ a.terminal => state \in {"terminal", "gone"}

\* What has been appended accounts for the provider's reports: three events for
\* each one that is neither in the channel nor with the monitor, and no final
\* event while run_queued may still append.
Held == IF monitor = "holding" THEN 1 ELSE 0
CountInv ==
    /\ state = "pending" => sequence = 0
    /\ state = "queued" => sequence = 1
    /\ state \in {"pending", "queued"} => runner = "none"
    /\ state = "running" <=> runner \in {"providing", "draining", "expiring"}
    /\ runner = "none" => monitor = "off" /\ reports = 0 /\ channel = 0
    /\ runner \in {"providing", "draining"} =>
        /\ monitor # "off"
        /\ sequence + 3 * (channel + Held) = 1 + 3 * reports
    /\ state \in {"pending", "queued", "running"} =>
        \A e \in events : e.kind # "terminal"
    /\ runner = "joined" => monitor = "off"

\* Every event up to the client's cursor was either given to it or announced as
\* missed, and never both: nothing is skipped in silence while the log is drained
\* between two polls.
NothingSkippedSilently ==
    LET given == {e.sequence : e \in seen}
    IN  /\ 1 .. cursor = given \cup skipped
        /\ given \cap skipped = {}

\* When run_queued ends with its provider, everything the provider reported is in
\* the log and the final event comes last.
SettledLogComplete ==
    runner = "joined" =>
        /\ sequence = 1 + 3 * reports + 1
        /\ \A e \in events : e.kind = "terminal" <=> e.sequence = sequence

\* The log and its reader lose nothing in silence, from the provider's report to the
\* client's cursor, although the log is drained and the pages are cut by deadlines.
EventsInv == TypeOK /\ SettledLogComplete /\ NothingSkippedSilently

\* The subscription does not end by itself before the job has.
NeverEndsEarly == poll = "done" => state \in {"terminal", "gone"}

\* A page that a client gets continues where its cursor stands.
PagesContinue ==
    [][seen' # seen => /\ cursor' > cursor
                       /\ {e.sequence : e \in seen' \ seen} = cursor + 1 .. cursor']_vars

\* A subscription to a job that has ended ends: no lost notification leaves the
\* client waiting.
SubscriptionEnds == Terminal ~> Ended

\* Every event reaches the client, is announced as missed or the subscription
\* ends.
EventsArrive == \A n \in 1 .. 2 + 3 * MaxReports :
    sequence >= n ~> cursor >= n \/ Ended

\* The subscription delivers or explains every event, and ends with its job.
SubscriptionDelivers == EventsArrive /\ SubscriptionEnds
=============================================================================

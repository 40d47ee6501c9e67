--------------------------- MODULE JobEventsProofs ---------------------------
(***************************************************************************)
(* Machine-checked proofs about JobEvents, for every size of the log and   *)
(* of a page, any number of reports and both clients.                      *)
(***************************************************************************)
EXTENDS JobEvents, TLAPS

\* The log alone: its numbers are the last MaxQueue ones given out.
LogInv ==
    /\ sequence \in Nat
    /\ events \subseteq [sequence : 1 .. sequence, kind : Kinds]
    /\ \A n \in 1 .. sequence : n + MaxQueue > sequence <=> n \in Numbers

\* Appending gives out the next numbers and drains the oldest events.
LEMMA AppendLog ==
    ASSUME LogInv, NEW k \in Nat, NEW last \in Kinds, Append(k, last)
    PROVE  LogInv' /\ sequence' = sequence + k
<1>1. sequence' = sequence + k /\ sequence \in Nat /\ MaxQueue \in Nat
  BY EventsAssumption DEF Append, LogInv
<1>2. \A e \in Numbered(k, last) :
        e \in [sequence : sequence + 1 .. sequence + k, kind : Kinds]
  BY DEF Numbered, Kinds
<1>3. events' \subseteq [sequence : 1 .. sequence', kind : Kinds]
  BY <1>1, <1>2 DEF Append, LogInv
<1>4. ASSUME NEW n \in 1 .. sequence'
      PROVE  n + MaxQueue > sequence' <=> \E e \in events' : e.sequence = n
  <2>1. (\E e \in events' : e.sequence = n) => n + MaxQueue > sequence'
    BY <1>1 DEF Append
  <2>2. CASE n <= sequence
    <3>1. n + MaxQueue > sequence' => n + MaxQueue > sequence
      BY <1>1
    <3>2. n + MaxQueue > sequence => \E e \in events : e.sequence = n
      BY <1>1, <2>2 DEF LogInv, Numbers
    <3> QED
      BY <1>1, <2>1, <3>1, <3>2 DEF Append
  <2>3. CASE n > sequence
    <3> DEFINE e == [sequence |-> n,
                     kind |-> IF n = sequence + k THEN last ELSE "progress"]
    <3>1. n \in sequence + 1 .. sequence + k
      BY <1>1, <2>3
    <3>2. e \in Numbered(k, last) /\ e.sequence = n
      BY <3>1 DEF Numbered
    <3> HIDE DEF e
    <3> QED
      BY <1>1, <2>1, <3>2 DEF Append
  <2> QED
    BY <1>1, <2>2, <2>3
<1>5. \A n \in 1 .. sequence' : n + MaxQueue > sequence' <=> n \in Numbers'
  BY <1>4 DEF Numbers
<1> QED
  BY <1>1, <1>3, <1>5 DEF LogInv

\* Earliest is the first number of the log, or the next one to come.
LEMMA EarliestInLog ==
    ASSUME LogInv
    PROVE  /\ Earliest \in 1 .. sequence + 1
           /\ events # {} => Earliest \in 1 .. sequence
           /\ \A n \in 1 .. sequence : n \in Numbers <=> n >= Earliest
<1>1. sequence \in Nat /\ MaxQueue \in Nat \ {0} /\ Numbers \subseteq 1 .. sequence
  BY EventsAssumption DEF LogInv, Numbers
<1>2. CASE sequence = 0
  BY <1>1, <1>2 DEF LogInv, Earliest, Numbers
<1>3. CASE sequence > 0
  <2> DEFINE lo == IF sequence < MaxQueue THEN 1 ELSE sequence - MaxQueue + 1
  <2>1. lo \in 1 .. sequence /\ \A n \in 1 .. sequence : n >= lo <=> n + MaxQueue > sequence
    BY <1>1, <1>3
  <2> HIDE DEF lo
  <2>2. \A n \in 1 .. sequence : n \in Numbers <=> n >= lo
    BY <2>1 DEF LogInv
  <2>3. lo \in Numbers /\ \A m \in Numbers : lo <= m
    BY <1>1, <2>1, <2>2
  <2>4. \A n \in Numbers : (\A m \in Numbers : n <= m) => n = lo
    BY <1>1, <2>1, <2>3
  <2>5. (CHOOSE n \in Numbers : \A m \in Numbers : n <= m) = lo
    BY <2>3, <2>4
  <2>6. events # {}
    BY <2>3 DEF Numbers
  <2>7. Earliest = lo
    BY <2>5, <2>6 DEF Earliest
  <2> QED
    BY <1>1, <2>1, <2>2, <2>7
<1> QED
  BY <1>1, <1>2, <1>3
-----------------------------------------------------------------------------
(* The parts of the type invariant.                                        *)

JobTypes ==
    /\ state \in {"pending", "queued", "running", "terminal", "gone"}
    /\ runner \in {"none", "providing", "draining", "joined", "expiring", "expired"}
    /\ channel \in Nat
    /\ monitor \in {"off", "waiting", "holding"}
    /\ reports \in Nat

PollTypes ==
    /\ poll \in {"idle", "checking", "unlocked", "listening", "woken", "late",
                 "answered", "done", "failed"}
    /\ page # {} => poll = "answered"

ClientTypes ==
    /\ cursor \in 0 .. sequence
    /\ seen \subseteq [sequence : 1 .. cursor, kind : Kinds]
    /\ skipped \subseteq 1 .. cursor

LEMMA TypeParts ==
    TypeOK <=> JobTypes /\ LogInv /\ PollTypes /\ ClientTypes
BY DEF TypeOK, JobTypes, LogInv, PollTypes, ClientTypes

\* The inductive invariant.
IInv ==
    /\ TypeOK
    /\ PageInv
    /\ CountInv
    /\ NothingSkippedSilently
    /\ SettledLogComplete
    /\ NeverEndsEarly

LEMMA Assemble ==
    ASSUME JobTypes', LogInv', PollTypes', ClientTypes', PageInv', CountInv',
           NothingSkippedSilently', SettledLogComplete', NeverEndsEarly'
    PROVE  IInv'
BY DEF IInv, TypeOK, JobTypes, LogInv, PollTypes, ClientTypes

LEMMA InitIInv == Init => IInv
<1> SUFFICES ASSUME Init PROVE IInv
  OBVIOUS
<1>1. TypeOK
  BY EventsAssumption DEF Init, TypeOK, Numbers
<1>2. PageInv /\ NeverEndsEarly /\ SettledLogComplete
  BY DEF Init, PageInv, NeverEndsEarly, SettledLogComplete
<1>3. CountInv
  BY DEF Init, CountInv
<1>4. NothingSkippedSilently
  BY DEF Init, NothingSkippedSilently
<1> QED
  BY <1>1, <1>2, <1>3, <1>4 DEF IInv
-----------------------------------------------------------------------------
(* The job's side.                                                         *)

\* A final event is only appended last, and the log grows.
LEMMA AppendKinds ==
    ASSUME LogInv, NEW k \in Nat, NEW last \in Kinds, Append(k, last)
    PROVE  /\ \A e \in events' : e \in events \/ e.sequence > sequence
           /\ \A e \in events' :
                e \in events \/ e.sequence = sequence' \/ e.kind = "progress"
           /\ \A e \in events' : e.sequence = sequence' /\ k > 0 => e.kind = last
           /\ poll' = poll \/ poll' = "woken"
<1>1. sequence \in Nat
  BY DEF LogInv
<1>2. \A e \in Numbered(k, last) :
        /\ e.sequence \in sequence + 1 .. sequence + k
        /\ e.sequence = sequence + k => e.kind = last
        /\ e.sequence # sequence + k => e.kind = "progress"
  BY DEF Numbered
<1>3. \A e \in events : e.sequence \in 1 .. sequence
  BY DEF LogInv
<1> QED
  BY <1>1, <1>2, <1>3 DEF Append, Notify

\* Whatever the job does to its log, the client's account stays right.
LEMMA JobKeepsClient ==
    ASSUME IInv, UNCHANGED <<page, client>>, sequence' \in Nat, sequence' >= sequence,
           poll' = poll \/ (poll = "listening" /\ poll' = "woken"),
           state \in {"terminal", "gone"} => state' \in {"terminal", "gone"}
    PROVE  PollTypes' /\ ClientTypes' /\ PageInv' /\ NothingSkippedSilently'
           /\ NeverEndsEarly'
<1> USE DEF IInv, client
<1>1. sequence \in Nat /\ cursor \in Nat
  BY DEF TypeOK
<1>2. PollTypes' /\ NeverEndsEarly'
  BY DEF TypeOK, PollTypes, NeverEndsEarly
<1>3. ClientTypes'
  BY <1>1 DEF TypeOK, ClientTypes
<1>4. NothingSkippedSilently'
  BY DEF NothingSkippedSilently
<1>5. PageInv'
  <2> SUFFICES ASSUME NEW a \in page
               PROVE  /\ a.kind \in {"not-found", "gap", "page"}
                      /\ a.kind = "gap" => a.earliest \in cursor + 2 .. sequence'
                      /\ a.kind = "page" =>
                          /\ a.next \in cursor .. sequence'
                          /\ a.events \subseteq
                               [sequence : cursor + 1 .. a.next, kind : Kinds]
                          /\ cursor + 1 .. a.next = {e.sequence : e \in a.events}
                          /\ a.terminal => state' \in {"terminal", "gone"}
    BY DEF PageInv
  <2> QED
    BY <1>1 DEF PageInv
<1> QED
  BY <1>2, <1>3, <1>4, <1>5

\* What every step that appends does.
LEMMA AppendKeeps ==
    ASSUME IInv, NEW k \in Nat, k > 0, NEW last \in Kinds, Append(k, last),
           UNCHANGED <<page, client>>,
           state \in {"terminal", "gone"} => state' \in {"terminal", "gone"}
    PROVE  /\ LogInv' /\ PollTypes' /\ ClientTypes'
           /\ PageInv' /\ NothingSkippedSilently' /\ NeverEndsEarly'
           /\ sequence \in Nat /\ sequence' = sequence + k
           /\ \A e \in events : e.sequence # sequence'
           /\ \A e \in events' :
                e \in events \/ e.sequence = sequence' \/ e.kind = "progress"
           /\ \A e \in events' : e.sequence = sequence' => e.kind = last
<1>1. LogInv
  BY TypeParts DEF IInv
<1>2. LogInv' /\ sequence' = sequence + k
  BY <1>1, AppendLog
<1>3. sequence \in Nat /\ sequence' \in Nat /\ sequence' > sequence
  BY <1>1, <1>2 DEF LogInv
<1>4. poll' = poll \/ (poll = "listening" /\ poll' = "woken")
  BY DEF Append, Notify
<1>5. \A e \in events : e.sequence # sequence'
  BY <1>1, <1>3 DEF LogInv
<1>6. sequence' >= sequence
  BY <1>3
<1>7. /\ PollTypes' /\ ClientTypes' /\ PageInv' /\ NothingSkippedSilently'
      /\ NeverEndsEarly'
  BY <1>3, <1>4, <1>6, JobKeepsClient
<1>8. /\ \A e \in events' :
            e \in events \/ e.sequence = sequence' \/ e.kind = "progress"
      /\ \A e \in events' : e.sequence = sequence' => e.kind = last
  BY <1>1, AppendKinds
<1> QED
  BY <1>2, <1>3, <1>5, <1>7, <1>8

\* What every step of the job that leaves the log alone does.
LEMMA SilentKeeps ==
    ASSUME IInv, UNCHANGED <<log, poll, page, client>>,
           state \in {"terminal", "gone"} => state' \in {"terminal", "gone"}
    PROVE  /\ LogInv' /\ PollTypes' /\ ClientTypes'
           /\ PageInv' /\ NothingSkippedSilently' /\ NeverEndsEarly'
<1>1. LogInv /\ sequence \in Nat
  BY TypeParts DEF IInv, LogInv
<1>2. LogInv'
  BY <1>1 DEF LogInv, Numbers, log
<1>3. sequence' = sequence /\ sequence' \in Nat /\ sequence' >= sequence
  BY <1>1 DEF log
<1> QED
  BY <1>2, <1>3, JobKeepsClient

LEMMA EnqueueStep == ASSUME IInv, Enqueue PROVE IInv'
<1>1. JobTypes /\ CountInv /\ IInv
  BY TypeParts DEF IInv
<1>2. "queued" \in Kinds /\ Append(1, "queued") /\ UNCHANGED <<page, client>>
  BY DEF Enqueue, Kinds
<1>3. state = "pending" /\ state' = "queued" /\ UNCHANGED <<runner, channel, monitor, reports>>
  BY DEF Enqueue
<1>4. /\ LogInv' /\ PollTypes' /\ ClientTypes'
      /\ PageInv' /\ NothingSkippedSilently' /\ NeverEndsEarly'
      /\ sequence' = sequence + 1
      /\ \A e \in events' :
            e \in events \/ e.sequence = sequence' \/ e.kind = "progress"
      /\ \A e \in events' : e.sequence = sequence' => e.kind = "queued"
  BY <1>1, <1>2, <1>3, AppendKeeps
<1>5. JobTypes' /\ CountInv' /\ SettledLogComplete'
  BY <1>1, <1>3, <1>4 DEF JobTypes, CountInv, SettledLogComplete
<1> QED
  BY <1>4, <1>5, Assemble

LEMMA WithdrawStep == ASSUME IInv, Withdraw PROVE IInv'
<1>1. JobTypes /\ CountInv /\ IInv
  BY TypeParts DEF IInv
<1>2. "terminal" \in Kinds /\ Append(1, "terminal") /\ UNCHANGED <<page, client>>
  BY DEF Withdraw, Kinds
<1>3. /\ state \in {"pending", "queued"} /\ state' = "terminal"
      /\ UNCHANGED <<runner, channel, monitor, reports>>
  BY DEF Withdraw
<1>4. /\ LogInv' /\ PollTypes' /\ ClientTypes'
      /\ PageInv' /\ NothingSkippedSilently' /\ NeverEndsEarly'
  BY <1>1, <1>2, <1>3, AppendKeeps
<1>5. JobTypes' /\ CountInv' /\ SettledLogComplete'
  BY <1>1, <1>3 DEF JobTypes, CountInv, SettledLogComplete
<1> QED
  BY <1>4, <1>5, Assemble

LEMMA MonitorApplyStep == ASSUME IInv, MonitorApply PROVE IInv'
<1>1. JobTypes /\ CountInv /\ SettledLogComplete /\ IInv
  BY TypeParts DEF IInv
<1>2. /\ monitor = "holding" /\ UNCHANGED <<state, runner, channel, reports, page, client>>
      /\ monitor' = IF runner \in {"providing", "draining"} THEN "waiting" ELSE "off"
  BY DEF MonitorApply
<1>3. runner # "joined"
  BY <1>1, <1>2 DEF CountInv
<1>4. CASE state # "gone"
  <2>1. "progress" \in Kinds /\ Append(3, "progress")
    BY <1>4 DEF MonitorApply, Kinds
  <2>2. /\ LogInv' /\ PollTypes' /\ ClientTypes'
        /\ PageInv' /\ NothingSkippedSilently' /\ NeverEndsEarly'
        /\ sequence \in Nat /\ sequence' = sequence + 3
        /\ \A e \in events' :
              e \in events \/ e.sequence = sequence' \/ e.kind = "progress"
        /\ \A e \in events' : e.sequence = sequence' => e.kind = "progress"
    BY <1>1, <1>2, <2>1, AppendKeeps
  <2>3. JobTypes' /\ SettledLogComplete'
    BY <1>1, <1>2, <1>3 DEF JobTypes, SettledLogComplete
  <2>4. state \notin {"pending", "queued"}
    BY <1>1, <1>2 DEF CountInv
  <2>5. CountInv'
    BY <1>1, <1>2, <2>2, <2>4 DEF JobTypes, CountInv, Held
  <2> QED
    BY <2>2, <2>3, <2>5, Assemble
<1>5. CASE state = "gone"
  <2>1. UNCHANGED <<log, poll>>
    BY <1>5 DEF MonitorApply
  <2>2. /\ LogInv' /\ PollTypes' /\ ClientTypes'
        /\ PageInv' /\ NothingSkippedSilently' /\ NeverEndsEarly'
    BY <1>1, <1>2, <2>1, SilentKeeps
  <2>3. JobTypes' /\ SettledLogComplete'
    BY <1>1, <1>2, <1>3 DEF JobTypes, SettledLogComplete
  <2>4. CountInv'
    BY <1>1, <1>2, <1>5, <2>1 DEF JobTypes, CountInv, Held
  <2> QED
    BY <2>2, <2>3, <2>4, Assemble
<1> QED
  BY <1>4, <1>5

LEMMA SettleStep == ASSUME IInv, Settle PROVE IInv'
<1>1. JobTypes /\ CountInv /\ IInv
  BY TypeParts DEF IInv
<1>2. PICK m \in 0 .. MaxReports - reports :
        reports' = reports + m /\ Append(3 * m + 1, "terminal")
  BY DEF Settle
<1>3. m \in Nat /\ 3 * m + 1 \in Nat /\ 3 * m + 1 > 0 /\ "terminal" \in Kinds
  BY <1>2 DEF Kinds
<1>4. /\ runner = "draining" /\ monitor = "waiting" /\ channel = 0
      /\ runner' = "joined" /\ monitor' = "off" /\ state' = "terminal"
      /\ UNCHANGED <<channel, page, client>>
  BY DEF Settle
<1> DEFINE k == 3 * m + 1
<1> HIDE DEF k
<1>5. /\ LogInv' /\ PollTypes' /\ ClientTypes'
      /\ PageInv' /\ NothingSkippedSilently' /\ NeverEndsEarly'
      /\ sequence \in Nat /\ sequence' = sequence + k
      /\ \A e \in events : e.sequence # sequence'
      /\ \A e \in events' :
            e \in events \/ e.sequence = sequence' \/ e.kind = "progress"
      /\ \A e \in events' : e.sequence = sequence' => e.kind = "terminal"
  BY <1>1, <1>2, <1>3, <1>4, AppendKeeps DEF k
<1>6. sequence = 1 + 3 * reports
  BY <1>1, <1>4, <1>5 DEF CountInv, Held, JobTypes
<1>7. sequence' = 1 + 3 * reports' + 1
  BY <1>1, <1>2, <1>3, <1>5, <1>6 DEF k, JobTypes
<1>8. \A e \in events : e.kind # "terminal"
  BY <1>1, <1>4 DEF CountInv
<1>9. SettledLogComplete'
  BY <1>5, <1>7, <1>8 DEF SettledLogComplete
<1>10. JobTypes' /\ CountInv'
  BY <1>1, <1>2, <1>3, <1>4 DEF JobTypes, CountInv
<1> QED
  BY <1>5, <1>9, <1>10, Assemble

LEMMA ExpireStep == ASSUME IInv, Expire PROVE IInv'
<1>1. JobTypes /\ CountInv /\ IInv
  BY TypeParts DEF IInv
<1>2. "terminal" \in Kinds /\ Append(1, "terminal") /\ UNCHANGED <<page, client>>
  BY DEF Expire, Kinds
<1>3. /\ runner = "expiring" /\ runner' = "expired" /\ state' = "terminal"
      /\ UNCHANGED <<channel, monitor, reports>>
  BY DEF Expire
<1>4. /\ LogInv' /\ PollTypes' /\ ClientTypes'
      /\ PageInv' /\ NothingSkippedSilently' /\ NeverEndsEarly'
  BY <1>1, <1>2, <1>3, AppendKeeps
<1>5. JobTypes' /\ CountInv' /\ SettledLogComplete'
  BY <1>1, <1>3 DEF JobTypes, CountInv, SettledLogComplete
<1> QED
  BY <1>4, <1>5, Assemble

\* The steps that leave the log alone.
LEMMA SilentStep ==
    ASSUME IInv, \/ Start \/ Report \/ MonitorReceive \/ ProviderReturns
                 \/ Timeout \/ Remove
    PROVE  IInv'
<1>1. JobTypes /\ CountInv /\ SettledLogComplete /\ IInv /\ sequence \in Nat
  BY TypeParts DEF IInv, LogInv
<1>2. UNCHANGED <<log, poll, page, client>>
  BY DEF Start, Report, MonitorReceive, ProviderReturns, Timeout, Remove
<1>3. state \in {"terminal", "gone"} => state' \in {"terminal", "gone"}
  BY DEF Start, Report, MonitorReceive, ProviderReturns, Timeout, Remove
<1>4. /\ LogInv' /\ PollTypes' /\ ClientTypes'
      /\ PageInv' /\ NothingSkippedSilently' /\ NeverEndsEarly'
  BY <1>1, <1>2, <1>3, SilentKeeps
<1>5. UNCHANGED <<sequence, events>>
  BY <1>2 DEF log
<1>6. JobTypes' /\ CountInv' /\ SettledLogComplete'
  <2> USE DEF JobTypes, CountInv, SettledLogComplete, Held
  <2>1. CASE Start
    BY <1>1, <1>5, <2>1 DEF Start
  <2>2. CASE Report
    BY <1>1, <1>5, <2>2 DEF Report
  <2>3. CASE MonitorReceive
    BY <1>1, <1>5, <2>3 DEF MonitorReceive
  <2>4. CASE ProviderReturns
    BY <1>1, <1>5, <2>4 DEF ProviderReturns
  <2>5. CASE Timeout
    BY <1>1, <1>5, <2>5 DEF Timeout
  <2>6. CASE Remove
    BY <1>1, <1>5, <2>6 DEF Remove
  <2> QED
    BY <2>1, <2>2, <2>3, <2>4, <2>5, <2>6
<1> QED
  BY <1>4, <1>6, Assemble
-----------------------------------------------------------------------------
(* The poll and the client.                                                *)

\* What the server answers fits the cursor.
LEMMA AnswerFits ==
    ASSUME IInv, state # "gone", ~HistoryGap
    PROVE  /\ Last \in cursor .. sequence
           /\ Fresh \subseteq [sequence : cursor + 1 .. Last, kind : Kinds]
           /\ cursor + 1 .. Last = {e.sequence : e \in Fresh}
<1>1. LogInv /\ ClientTypes /\ sequence \in Nat /\ cursor \in 0 .. sequence
      /\ Limit \in Nat \ {0}
  BY TypeParts, EventsAssumption DEF IInv, LogInv, ClientTypes
<1>2. Last \in cursor .. sequence
  BY <1>1 DEF Last
<1>3. \A e \in events : e \in [sequence : 1 .. sequence, kind : Kinds]
  BY <1>1 DEF LogInv
<1>4. \A e \in Fresh : e.sequence \in cursor + 1 .. Last
  BY <1>1, <1>3 DEF Fresh, Last
<1>5. Fresh \subseteq [sequence : cursor + 1 .. Last, kind : Kinds]
  BY <1>3, <1>4 DEF Fresh
<1>6. ASSUME NEW n \in cursor + 1 .. Last
      PROVE  \E e \in Fresh : e.sequence = n
  <2>1. n \in 1 .. sequence /\ n <= cursor + Limit /\ n > cursor
    BY <1>1, <1>6 DEF Last
  <2>2. Earliest \in 1 .. sequence + 1 /\ n >= Earliest
    BY <1>1, <2>1, EarliestInLog DEF HistoryGap
  <2>3. n \in Numbers
    BY <1>1, <2>1, <2>2, EarliestInLog
  <2> QED
    BY <2>1, <2>3 DEF Numbers, Fresh
<1> QED
  BY <1>2, <1>4, <1>5, <1>6

\* A poll changes neither the job nor the log.
LEMMA PollKeeps ==
    ASSUME IInv, UNCHANGED <<job, log>>
    PROVE  JobTypes' /\ LogInv' /\ CountInv' /\ SettledLogComplete'
<1>1. JobTypes /\ LogInv /\ CountInv /\ SettledLogComplete
  BY TypeParts DEF IInv
<1>2. JobTypes' /\ CountInv' /\ SettledLogComplete'
  BY <1>1 DEF JobTypes, CountInv, SettledLogComplete, Held, job, log
<1> QED
  BY <1>1, <1>2 DEF LogInv, Numbers, log

LEMMA ServerStep ==
    ASSUME IInv, Check \/ AnswerLate
    PROVE  IInv'
<1>1. /\ UNCHANGED <<job, log, client>> /\ poll' \in {"answered", "unlocked"}
      /\ poll \notin {"answered", "done", "failed"}
  BY DEF Check, AnswerLate, Answer
<1>2. PollTypes /\ ClientTypes /\ LogInv /\ PageInv /\ NothingSkippedSilently
      /\ NeverEndsEarly
  BY TypeParts DEF IInv
<1>3. sequence \in Nat /\ cursor \in 0 .. sequence
  BY <1>2 DEF LogInv, ClientTypes
<1>4. JobTypes' /\ LogInv' /\ CountInv' /\ SettledLogComplete'
  BY <1>1, PollKeeps
<1>5. ClientTypes' /\ NothingSkippedSilently' /\ NeverEndsEarly'
  BY <1>1, <1>2 DEF ClientTypes, NothingSkippedSilently, NeverEndsEarly, client, log
<1>6. page = {}
  BY <1>1, <1>2 DEF PollTypes
<1>7. \/ poll' = "unlocked" /\ page' = page
      \/ poll' = "answered" /\ page' = {NotFound}
      \/ poll' = "answered" /\ HistoryGap /\ page' = {Gap}
      \/ poll' = "answered" /\ state # "gone" /\ ~HistoryGap
            /\ page' = {Page(Fresh, Last, Terminal)}
      \/ poll' = "answered" /\ Terminal /\ page' = {Page({}, cursor, TRUE)}
      \/ poll' = "answered" /\ page' = {Page({}, cursor, Terminal)}
  BY DEF Check, AnswerLate, Answer
<1>8. PollTypes'
  BY <1>6, <1>7 DEF PollTypes
<1> DEFINE Fits(a) ==
        /\ a.kind \in {"not-found", "gap", "page"}
        /\ a.kind = "gap" => a.earliest \in cursor + 2 .. sequence
        /\ a.kind = "page" =>
            /\ a.next \in cursor .. sequence
            /\ a.events \subseteq [sequence : cursor + 1 .. a.next, kind : Kinds]
            /\ cursor + 1 .. a.next = {e.sequence : e \in a.events}
            /\ a.terminal => state \in {"terminal", "gone"}
<1>9. Fits(NotFound)
  BY DEF NotFound
<1>10. HistoryGap => Fits(Gap)
  <2> SUFFICES ASSUME HistoryGap PROVE Earliest \in cursor + 2 .. sequence
    BY DEF Gap
  <2>1. Earliest \in 1 .. sequence + 1 /\ (events # {} => Earliest \in 1 .. sequence)
    BY <1>2, EarliestInLog
  <2>2. events # {} \/ sequence = 0
    <3>1. sequence > 0 => sequence \in Numbers
      BY <1>2, <1>3, EventsAssumption DEF LogInv
    <3> QED
      BY <1>3, <3>1 DEF Numbers
  <2> QED
    BY <1>3, <2>1, <2>2 DEF HistoryGap
<1>11. state # "gone" /\ ~HistoryGap => Fits(Page(Fresh, Last, Terminal))
  BY AnswerFits DEF Page, Terminal
<1>12. ASSUME NEW t, t => Terminal
       PROVE  Fits(Page({}, cursor, t))
  <2>1. cursor + 1 .. cursor = {}
    BY <1>3
  <2> QED
    BY <1>3, <1>12, <2>1 DEF Page, Terminal
<1>13. \A a \in page' : Fits(a)
  <2> HIDE DEF Fits
  <2>1. Terminal => Fits(Page({}, cursor, TRUE))
    BY <1>12
  <2>2. Fits(Page({}, cursor, Terminal))
    BY <1>12
  <2> QED
    BY <1>6, <1>7, <1>9, <1>10, <1>11, <2>1, <2>2
<1>14. PageInv'
  BY <1>1, <1>13 DEF PageInv, job, log, client
<1> QED
  BY <1>4, <1>5, <1>8, <1>14, Assemble

\* The steps of a poll without an answer.
LEMMA WaitStep ==
    ASSUME IInv, Poll \/ Listen \/ Deadline \/ Disconnect \/ ReceiveError
    PROVE  IInv'
<1>1. UNCHANGED <<job, log, client>> /\ page' \in {{}, page}
  BY DEF Poll, Listen, Deadline, Disconnect, ReceiveError
<1>2. PollTypes /\ ClientTypes /\ PageInv /\ NothingSkippedSilently /\ NeverEndsEarly
  BY TypeParts DEF IInv
<1>3. JobTypes' /\ LogInv' /\ CountInv' /\ SettledLogComplete'
  BY <1>1, PollKeeps
<1>4. PollTypes' /\ NeverEndsEarly'
  BY <1>2 DEF PollTypes, NeverEndsEarly, Poll, Listen, Deadline, Disconnect,
     ReceiveError
<1>5. ClientTypes' /\ NothingSkippedSilently'
  BY <1>1, <1>2 DEF ClientTypes, NothingSkippedSilently, client, log
<1>6. PageInv'
  BY <1>1, <1>2 DEF PageInv, job, log, client
<1> QED
  BY <1>3, <1>4, <1>5, <1>6, Assemble

\* The client takes a page.
LEMMA ReceivePageStep == ASSUME IInv, ReceivePage PROVE IInv'
<1>1. UNCHANGED <<job, log, skipped>> /\ page' = {}
  BY DEF ReceivePage
<1>2. ClientTypes /\ LogInv /\ PageInv /\ NothingSkippedSilently
  BY TypeParts DEF IInv
<1>3. PICK a \in page :
        /\ a.kind = "page"
        /\ seen' = seen \cup a.events
        /\ cursor' = a.next
        /\ poll' = IF a.terminal THEN "done" ELSE "idle"
  BY DEF ReceivePage
<1>4. /\ a.next \in cursor .. sequence
      /\ a.events \subseteq [sequence : cursor + 1 .. a.next, kind : Kinds]
      /\ cursor + 1 .. a.next = {e.sequence : e \in a.events}
      /\ a.terminal => state \in {"terminal", "gone"}
  BY <1>2, <1>3 DEF PageInv
<1>5. sequence \in Nat /\ cursor \in 0 .. sequence
  BY <1>2 DEF LogInv, ClientTypes
<1>6. JobTypes' /\ LogInv' /\ CountInv' /\ SettledLogComplete'
  BY <1>1, PollKeeps
<1>7. PollTypes' /\ PageInv'
  BY <1>1, <1>3 DEF PollTypes, PageInv
<1>8. NeverEndsEarly'
  BY <1>1, <1>3, <1>4 DEF NeverEndsEarly, job
<1>9. ClientTypes'
  BY <1>1, <1>2, <1>3, <1>4, <1>5 DEF ClientTypes, log
<1>10. NothingSkippedSilently'
  <2>1. 1 .. cursor' = 1 .. cursor \cup (cursor + 1 .. a.next)
    BY <1>3, <1>4, <1>5
  <2>2. {e.sequence : e \in seen'} =
          {e.sequence : e \in seen} \cup {e.sequence : e \in a.events}
    BY <1>3
  <2>3. skipped \cap (cursor + 1 .. a.next) = {}
    BY <1>2, <1>5 DEF ClientTypes
  <2> QED
    BY <1>1, <1>2, <1>4, <2>1, <2>2, <2>3 DEF NothingSkippedSilently
<1> QED
  BY <1>6, <1>7, <1>8, <1>9, <1>10, Assemble

\* The client is told of a gap.
LEMMA ReceiveGapStep == ASSUME IInv, ReceiveGap PROVE IInv'
<1>1. UNCHANGED <<job, log, seen>> /\ page' = {} /\ poll' = "idle"
  BY DEF ReceiveGap
<1>2. ClientTypes /\ LogInv /\ PageInv /\ NothingSkippedSilently
  BY TypeParts DEF IInv
<1>3. PICK a \in page :
        /\ a.kind = "gap"
        /\ skipped' = skipped \cup (cursor + 1 .. a.earliest - 1)
        /\ cursor' = a.earliest - 1
  BY DEF ReceiveGap
<1>4. a.earliest \in cursor + 2 .. sequence
  BY <1>2, <1>3 DEF PageInv
<1>5. sequence \in Nat /\ cursor \in 0 .. sequence
  BY <1>2 DEF LogInv, ClientTypes
<1>6. JobTypes' /\ LogInv' /\ CountInv' /\ SettledLogComplete'
  BY <1>1, PollKeeps
<1>7. PollTypes' /\ PageInv' /\ NeverEndsEarly'
  BY <1>1 DEF PollTypes, PageInv, NeverEndsEarly
<1>8. cursor' \in cursor + 1 .. sequence
  BY <1>3, <1>4, <1>5
<1>9. ClientTypes'
  <2>1. seen' \subseteq [sequence : 1 .. cursor', kind : Kinds]
    <3>1. \A e \in seen : e \in [sequence : 1 .. cursor', kind : Kinds]
      BY <1>2, <1>5, <1>8 DEF ClientTypes
    <3> QED
      BY <1>1, <3>1
  <2>2. skipped' \subseteq 1 .. cursor'
    <3>1. skipped \subseteq 1 .. cursor /\ cursor' \in Nat /\ cursor' > cursor
      BY <1>2, <1>5, <1>8 DEF ClientTypes
    <3>2. skipped \subseteq 1 .. cursor'
      BY <1>5, <3>1
    <3>3. cursor + 1 .. a.earliest - 1 \subseteq 1 .. cursor'
      BY <1>3, <1>4, <1>5
    <3> QED
      BY <1>3, <3>2, <3>3
  <2>3. cursor' \in 0 .. sequence'
    BY <1>1, <1>5, <1>8 DEF log
  <2> QED
    BY <2>1, <2>2, <2>3 DEF ClientTypes
<1>10. NothingSkippedSilently'
  <2>1. 1 .. cursor' = 1 .. cursor \cup (cursor + 1 .. cursor')
    BY <1>5, <1>8
  <2>2. \A e \in seen : e.sequence \in 1 .. cursor
    BY <1>2 DEF ClientTypes
  <2>3. {e.sequence : e \in seen} \cap (cursor + 1 .. cursor') = {}
    BY <1>5, <2>2
  <2> QED
    BY <1>1, <1>2, <1>3, <2>1, <2>3 DEF NothingSkippedSilently
<1> QED
  BY <1>6, <1>7, <1>9, <1>10, Assemble
-----------------------------------------------------------------------------
\* The log, the answers under way and the client's account agree in every
\* reachable state.
THEOREM Invariance == Spec => []IInv
<1>1. IInv /\ [Next]_vars => IInv'
  <2> SUFFICES ASSUME IInv, [Next]_vars PROVE IInv'
    OBVIOUS
  <2>1. CASE UNCHANGED vars
    <3>1. UNCHANGED <<job, log, poll, page, client>>
      BY <2>1 DEF vars
    <3>2. JobTypes' /\ LogInv' /\ CountInv' /\ SettledLogComplete'
      BY <3>1, PollKeeps
    <3>3. PollTypes' /\ ClientTypes' /\ PageInv' /\ NothingSkippedSilently'
          /\ NeverEndsEarly'
      BY <3>1, SilentKeeps DEF job
    <3> QED
      BY <3>2, <3>3, Assemble
  <2> QED
    BY <2>1, EnqueueStep, WithdrawStep, MonitorApplyStep, SettleStep, ExpireStep,
       SilentStep, ServerStep, WaitStep, ReceivePageStep, ReceiveGapStep
       DEF Next, JobStep, PollStep
<1> QED
  BY InitIInv, <1>1, PTL DEF Spec

\* The type invariant: the log is bounded and has no hole.
THEOREM TypeCorrect == Spec => []TypeOK
<1>1. IInv => TypeOK
  BY DEF IInv
<1> QED
  BY <1>1, Invariance, PTL

\* Every event is given to the client or announced as missed, however the log is
\* drained between its polls.
THEOREM NothingIsSkippedSilently == Spec => []NothingSkippedSilently
<1>1. IInv => NothingSkippedSilently
  BY DEF IInv
<1> QED
  BY <1>1, Invariance, PTL

\* A job that ends with its provider has all progress in its log and the final
\* event last.
THEOREM SettledLogsAreComplete == Spec => []SettledLogComplete
<1>1. IInv => SettledLogComplete
  BY DEF IInv
<1> QED
  BY <1>1, Invariance, PTL

\* No subscription ends by itself while its job goes on.
THEOREM SubscriptionsOutliveJobs == Spec => []NeverEndsEarly
<1>1. IInv => NeverEndsEarly
  BY DEF IInv
<1> QED
  BY <1>1, Invariance, PTL

\* Each page a client takes continues where its cursor stands.
THEOREM PagesAreContinuous == Spec => PagesContinue
<1> DEFINE Continues ==
        seen' # seen => /\ cursor' > cursor
                        /\ {e.sequence : e \in seen' \ seen} = cursor + 1 .. cursor'
<1>1. ASSUME IInv, [Next]_vars
      PROVE  [Continues]_vars
  <2>1. CASE ReceivePage
    <3>1. PICK a \in page :
            a.kind = "page" /\ seen' = seen \cup a.events /\ cursor' = a.next
      BY <2>1 DEF ReceivePage
    <3>2. ClientTypes /\ LogInv /\ PageInv
      BY <1>1, TypeParts DEF IInv
    <3>3. cursor' \in cursor .. sequence
          /\ cursor + 1 .. cursor' = {e.sequence : e \in a.events}
      BY <3>1, <3>2 DEF PageInv
    <3>4. cursor \in Nat /\ sequence \in Nat /\ cursor' \in Nat
      BY <3>2, <3>3 DEF ClientTypes, LogInv
    <3>5. \A e \in seen : e.sequence \in 1 .. cursor
      BY <3>2 DEF ClientTypes
    <3>6. \A e \in a.events : e.sequence \in cursor + 1 .. cursor'
      BY <3>3
    <3>7. \A e \in a.events : e \notin seen
      BY <3>4, <3>5, <3>6
    <3>8. seen' \ seen = a.events
      BY <3>1, <3>7
    <3>9. {e.sequence : e \in seen' \ seen} = cursor + 1 .. cursor'
      BY <3>3, <3>8
    <3>10. ASSUME seen' # seen
           PROVE  cursor' > cursor
      <4>1. PICK e \in a.events : e.sequence \in cursor + 1 .. cursor'
        BY <3>1, <3>6, <3>10
      <4> QED
        BY <3>4, <4>1
    <3> QED
      BY <3>9, <3>10
  <2>2. CASE JobStep
    BY <2>2 DEF JobStep, Enqueue, Withdraw, Start, Report, MonitorReceive,
       MonitorApply, ProviderReturns, Settle, Timeout, Expire, Remove, client
  <2>3. CASE \/ Poll \/ Check \/ Listen \/ AnswerLate \/ ReceiveGap
             \/ ReceiveError \/ Deadline \/ Disconnect
    BY <2>3 DEF Poll, Check, Listen, AnswerLate, ReceiveGap, ReceiveError,
       Deadline, Disconnect, client
  <2>4. CASE UNCHANGED vars
    BY <2>4
  <2> QED
    BY <1>1, <2>1, <2>2, <2>3, <2>4 DEF Next, PollStep
<1> QED
  BY <1>1, Invariance, PTL DEF Spec, PagesContinue

\* From the provider's report to the client's cursor nothing is lost in silence.
THEOREM EventsAreAccounted == Spec => []EventsInv
<1>1. IInv => EventsInv
  BY DEF IInv, EventsInv
<1> QED
  BY <1>1, Invariance, PTL
=============================================================================

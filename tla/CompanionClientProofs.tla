------------------------ MODULE CompanionClientProofs ------------------------
(***************************************************************************)
(* Machine-checked proofs about CompanionClient, for any number of         *)
(* attempts to pair, of extractions and of chunks, any version and any     *)
(* limits.                                                                 *)
(***************************************************************************)
EXTENDS CompanionClient, FiniteSetTheorems, TLAPS

-----------------------------------------------------------------------------
(* The inductive invariant.                                                *)

\* Only an attempt to pair asks for a session, and a chunk that is sent exists.
RequestOk(r, x) ==
    /\ r.op = "session" => x \in Connects
    /\ r.op = "chunk" => r.n < Chunks
RequestInv ==
    /\ \A x \in Callers : call[x] # NoCall => RequestOk(call[x], x)
    /\ \A r \in strays : RequestOk(r, r.from)

\* An attempt that is past its pairing has the session.
PairingInv ==
    /\ \A c, d \in sessions : c = d
    /\ sessions # {} => code = "used"
    /\ \A c \in Connects :
        /\ pc[c] \in {"asking", "connected"} => c \in sessions
        /\ pc[c] = "pairing" /\ call[c] # NoCall =>
             /\ call[c].op = "session"
             /\ call[c].answer = "ok" => c \in sessions
    /\ bridge # NoBridge => bridge \in sessions

\* The phases of a job that was given all of its input, and those of a result.
Fed == {"queued", "running", "cancelling", "completed", "failed"}
Done == {"completed", "removed"}
Kept == {"returned", "saved", "acknowledged", "retained"}
Whole(e) == got[e] = Chunks /\ phase[e] \in Done

DocumentInv ==
    \A e \in Extractions :
        /\ phase[e] \in Fed => got[e] = Chunks
        /\ pc[e] = "fetching" /\ call[e] # NoCall =>
             call[e].op = "result" /\ (call[e].answer = "ok" => Whole(e))
        /\ pc[e] \in Kept => Whole(e)
        /\ pc[e] \in {"idle", "creating", "uploading", "completing", "following", "fetching"}
                     \cup Kept => e \notin stopped

\* A job is new as long as nothing but its creation was asked for, and settled when
\* nobody has to stop it any more.
New(e) ==
    /\ phase[e] \in {"absent", "receiving"}
    /\ got[e] = 0
    /\ \A r \in strays : r.from = e => r.op = "create"
Settled(e) == phase[e] \in {"cancelling", "completed", "cancelled", "failed", "removed"}

LeftoverInv ==
    \A e \in Extractions :
        /\ pc[e] \in {"idle", "creating"} => New(e)
        /\ pc[e] \in {"idle", "creating", "failed", "refused"} =>
             (call[e] # NoCall => call[e].op = "create")
        /\ pc[e] = "cancelling" /\ call[e] # NoCall =>
             call[e].op = "cancel" /\ (call[e].answer = "ok" => Settled(e))
        /\ pc[e] \in {"failed", "refused"} => New(e) \/ Settled(e) \/ e \in uncancelled

\* How long a session may have been idle, as its extraction's requests see it: a request
\* is sent within one timeout of the last one that was handled, and given up within
\* another, the one that cancels the job within a third.
Alive(e) ==
    LET unused == idle[via[e]]
    IN  /\ pc[e] \in Engaged \cup {"creating"} => via[e] \in sessions
        /\ pc[e] \in {"uploading", "completing", "fetching", "cancelling"} => call[e] # NoCall
        /\ pc[e] = "creating" /\ call[e] # NoCall /\ call[e].answer = "ok" =>
             unused <= call[e].age
        /\ pc[e] \in {"uploading", "completing", "fetching"} =>
             /\ unused <= RequestTimeout + call[e].age
             /\ call[e].answer = "ok" => unused <= call[e].age
        /\ pc[e] \in {"uploading", "completing", "following"} =>
             /\ poll[e] # NoCall
             /\ poll[e].answer = "more" => unused <= poll[e].age
        /\ pc[e] = "following" =>
             /\ unused <= RequestTimeout + poll[e].age
             /\ poll[e].answer = "last" => unused <= RequestTimeout
        /\ pc[e] = "cancelling" => unused <= 2 * RequestTimeout + call[e].age
AliveInv == \A e \in Extractions : Alive(e)

IInv == TypeOK /\ RequestInv /\ PairingInv /\ DocumentInv /\ LeftoverInv /\ AliveInv
-----------------------------------------------------------------------------
(* What the bridge and the manager may do to jobs and sessions.            *)

ServerType ==
    /\ phase \in [Extractions -> {"absent", "removed"} \cup Manager!Pending
                                 \cup Manager!Busy \cup Manager!Terminal]
    /\ available \subseteq Extractions
    /\ got \in [Extractions -> 0..Chunks]
    /\ code \in {"fresh", "used", "expired"}
    /\ sessions \subseteq Connects
    /\ idle \in [Connects -> 0..IdleLimit + 1]

\* A job gets its input before it is queued, and what is settled stays so.
JobMoves(e) ==
    /\ phase[e] # "receiving" => got'[e] = got[e]
    /\ phase'[e] \in Fed => phase[e] \in Fed \/ got'[e] = Chunks
    /\ phase[e] \in Done => phase'[e] \in Done
    /\ Settled(e) => Settled(e)'

Fresh(e) == phase[e] \in {"absent", "receiving"} /\ got[e] = 0

\* The manager's answer to one request.
LEMMA ServeMoves ==
    ASSUME ServerType, NEW x \in Callers, NEW op, NEW n \in 0..Chunks, NEW answer,
           Serve(x, op, n, answer),
           op = "chunk" => n < Chunks
    PROVE  /\ phase' \in [Extractions -> {"absent", "removed"} \cup Manager!Pending
                                         \cup Manager!Busy \cup Manager!Terminal]
           /\ available' \subseteq Extractions
           /\ got' \in [Extractions -> 0..Chunks]
           /\ \A e \in Extractions :
                /\ JobMoves(e)
                /\ e # x \/ op \in {"create", "events"} => (Fresh(e) => Fresh(e)')
           /\ x \in Extractions /\ op = "result" /\ answer = "ok" =>
                phase'[x] = "completed"
           /\ x \in Extractions /\ op = "cancel" /\ answer = "ok" => Settled(x)'
<1> USE ConstantsAssumption DEF ServerType, JobMoves, Fresh, Settled, Fed, Done,
        Manager!Pending, Manager!Busy, Manager!Terminal
<1>1. CASE op = "create"
  BY <1>1 DEF Serve, Unserved, Manager!Accept
<1>2. CASE op = "chunk"
  BY <1>2 DEF Serve
<1>3. CASE op = "complete"
  BY <1>3 DEF Serve, Manager!Enqueue, Manager!Advance
<1>4. CASE op = "events"
  BY <1>4 DEF Serve, Unserved
<1>5. CASE op = "result"
  BY <1>5 DEF Serve, Fetch, Unserved
<1>6. CASE op = "cancel"
  <2>1. CASE phase[x] \in {"receiving", "queued"}
    BY <1>6, <2>1 DEF Serve, Manager!Withdraw
  <2>2. CASE phase[x] = "running"
    BY <1>6, <2>2 DEF Serve, Manager!RequestStop, Manager!Advance
  <2>3. CASE phase[x] \notin {"receiving", "queued", "running"}
    BY <1>6, <2>3 DEF Serve
  <2> QED
    BY <2>1, <2>2, <2>3
<1>7. CASE op = "acknowledge"
  BY <1>7 DEF Serve, Manager!Acknowledge
<1> QED
  BY <1>1, <1>2, <1>3, <1>4, <1>5, <1>6, <1>7 DEF Serve

\* One route of the bridge: whoever is answered well has just used its session.
LEMMA RouteMoves ==
    ASSUME ServerType, NEW x \in Callers, NEW op, NEW n \in 0..Chunks, NEW answer,
           Route(x, op, n, answer),
           op = "session" => x \in Connects,
           op = "chunk" => n < Chunks
    PROVE  /\ ServerType'
           /\ \A e \in Extractions :
                /\ JobMoves(e)
                /\ e # x \/ op \in {"create", "events"} => (Fresh(e) => Fresh(e)')
           /\ x \in Extractions /\ op = "result" /\ answer = "ok" =>
                phase'[x] = "completed"
           /\ x \in Extractions /\ op = "cancel" /\ answer = "ok" => Settled(x)'
           /\ \A c \in Connects : idle'[c] = idle[c] \/ idle'[c] = 0
           /\ op # "session" /\ answer # "no" => idle'[SessionOf(x)] = 0
           /\ op # "session" => UNCHANGED <<code, sessions>>
           /\ op = "session" => OpenSession(x, answer)
<1> USE ConstantsAssumption
<1>1. CASE op = "session"
  <2>1. OpenSession(x, answer) /\ UNCHANGED <<phase, available, got>>
    BY <1>1 DEF Route, Unserved
  <2>2. ServerType' /\ \A c \in Connects : idle'[c] = idle[c] \/ idle'[c] = 0
    BY <1>1, <2>1 DEF ServerType, OpenSession, Refresh, SessionOf
  <2>3. \A e \in Extractions : JobMoves(e) /\ (Fresh(e) => Fresh(e)')
    BY <2>1 DEF JobMoves, Fresh, Settled
  <2> QED
    BY <1>1, <2>1, <2>2, <2>3
<1>2. CASE op # "session" /\ ~Authentic(x)
  <2>1. answer = "no" /\ UNCHANGED <<phase, available, got, code, sessions, idle>>
    BY <1>2 DEF Route, Unserved
  <2>2. ServerType'
    BY <2>1 DEF ServerType
  <2>3. \A e \in Extractions : JobMoves(e) /\ (Fresh(e) => Fresh(e)')
    BY <2>1 DEF JobMoves, Fresh, Settled
  <2> QED
    BY <1>2, <2>1, <2>2, <2>3
<1>3. CASE op # "session" /\ Authentic(x)
  <2>1. UNCHANGED <<code, sessions>> /\ Refresh(x)
    BY <1>3 DEF Route
  <2>2. SessionOf(x) \in Connects
    BY <1>3 DEF Authentic, ServerType
  <2>3. /\ idle' \in [Connects -> 0..IdleLimit + 1]
        /\ idle'[SessionOf(x)] = 0
        /\ \A c \in Connects : idle'[c] = idle[c] \/ idle'[c] = 0
    BY <2>1, <2>2 DEF Refresh, ServerType
  <2>4. CASE op = "capabilities"
    <3>1. UNCHANGED <<phase, available, got>>
      BY <1>3, <2>4 DEF Route, Unserved
    <3>2. \A e \in Extractions : JobMoves(e) /\ (Fresh(e) => Fresh(e)')
      BY <3>1 DEF JobMoves, Fresh, Settled
    <3>3. ServerType'
      BY <2>1, <2>3, <3>1 DEF ServerType
    <3> QED
      BY <1>3, <2>1, <2>3, <2>4, <3>2, <3>3
  <2>5. CASE op # "capabilities"
    <3>1. Serve(x, op, n, answer)
      BY <1>3, <2>5 DEF Route
    <3>2. ServerType'
      BY <2>1, <2>3, <3>1, ServeMoves DEF ServerType
    <3> QED
      BY <1>3, <2>1, <2>3, <3>1, <3>2, ServeMoves
  <2> QED
    BY <2>4, <2>5
<1> QED
  BY <1>1, <1>2, <1>3

\* The manager's own steps.
LEMMA WorkMoves ==
    ASSUME ServerType, NEW x \in Extractions, Work(x) \/ Sweep(x)
    PROVE  /\ ServerType'
           /\ \A e \in Extractions :
                /\ JobMoves(e)
                /\ Fresh(e) => Fresh(e)' \/ Settled(e)'
                /\ pc[e] \in {"idle", "creating"} => (Fresh(e) => Fresh(e)')
<1> USE DEF ServerType, JobMoves, Fresh, Settled, Fed, Done,
        Manager!Pending, Manager!Busy, Manager!Terminal
<1>1. CASE Work(x)
  <2>1. CASE Manager!Start(x)
    BY <1>1, <2>1 DEF Work, Manager!Start, Manager!Advance
  <2>2. CASE Manager!Complete(x)
    BY <1>1, <2>2 DEF Work, Manager!Complete
  <2>3. CASE Manager!Stop(x)
    BY <1>1, <2>3 DEF Work, Manager!Stop, Manager!Advance
  <2> QED
    BY <1>1, <2>1, <2>2, <2>3 DEF Work
<1>2. CASE Sweep(x)
  <2>1. CASE phase[x] \in {"receiving", "queued"}
    BY <1>2, <2>1 DEF Sweep, Over, Manager!Withdraw
  <2>2. CASE phase[x] \in {"completed", "cancelled", "failed"}
    BY <1>2, <2>2 DEF Sweep, Over, Manager!Withdraw
  <2> QED
    BY <1>2, <2>1, <2>2 DEF Sweep
<1> QED
  BY <1>1, <1>2
-----------------------------------------------------------------------------
(* The invariant is inductive: one lemma per part.                         *)

ClientType ==
    /\ pc \in [Callers -> {"idle", "pairing", "asking", "connected", "creating"}
                          \cup Engaged \cup Over]
    /\ call \in [Callers -> Calls \cup {NoCall}]
    /\ poll \in [Extractions -> Calls \cup {NoCall}]
    /\ strays \subseteq [from : Callers, op : Ops, n : 0..Chunks]
    /\ bridge \in Connects \cup {NoBridge}
    /\ via \in [Extractions -> Connects \cup {NoBridge}]
    /\ stopped \subseteq Extractions
    /\ uncancelled \subseteq Extractions

\* What time does to a request that is not overdue.
LEMMA OlderRequest ==
    ASSUME NEW r \in Calls \cup {NoCall}, r # NoCall => ~Overdue(r) \/ Ended(r)
    PROVE  /\ Older(r) \in Calls \cup {NoCall}
           /\ Older(r) = NoCall <=> r = NoCall
           /\ r # NoCall => /\ Older(r).op = r.op
                            /\ Older(r).n = r.n
                            /\ Older(r).answer = r.answer
                            /\ Older(r).age = IF Ended(r) THEN r.age ELSE r.age + 1
<1>1. CASE r = NoCall \/ Ended(r)
  BY <1>1 DEF Older, Ended
<1>2. CASE r # NoCall /\ ~Ended(r)
  <2>1. r \in Calls /\ r.age # RequestTimeout
    BY <1>2 DEF Overdue
  <2>2. Older(r) = [r EXCEPT !.age = r.age + 1] /\ r.age + 1 \in 0..RequestTimeout
    BY <1>2, <2>1, ConstantsAssumption DEF Older, Calls
  <2>3. Older(r) \in Calls
    BY <2>1, <2>2 DEF Calls
  <2> QED
    BY <1>2, <2>1, <2>2, <2>3, NoCallAssumption DEF Calls
<1> QED
  BY <1>1, <1>2

LEMMA TypeParts == TypeOK <=> ServerType /\ ClientType
  BY DEF TypeOK, ServerType, ClientType

\* RouteMoves for the request that a caller waits for.
LEMMA CallMoves ==
    ASSUME TypeOK, NEW x \in Callers, NEW r \in Calls, RequestOk(r, x), NEW answer,
           Route(x, r.op, r.n, answer)
    PROVE  /\ \A e \in Extractions :
                /\ JobMoves(e)
                /\ e # x \/ r.op \in {"create", "events"} => (Fresh(e) => Fresh(e)')
           /\ x \in Extractions /\ r.op = "cancel" /\ answer = "ok" => Settled(x)'
           /\ r.op # "session" => UNCHANGED <<code, sessions>>
<1> DEFINE op == r.op
           n == r.n
<1>1. ServerType /\ n \in 0..Chunks
  BY TypeParts DEF Calls
<1>2. (op = "session" => x \in Connects) /\ (op = "chunk" => n < Chunks)
  BY DEF RequestOk
<1>3. Route(x, op, n, answer)
  OBVIOUS
<1> SUFFICES /\ \A e \in Extractions :
                  /\ JobMoves(e)
                  /\ e # x \/ op \in {"create", "events"} => (Fresh(e) => Fresh(e)')
             /\ x \in Extractions /\ op = "cancel" /\ answer = "ok" => Settled(x)'
             /\ op # "session" => UNCHANGED <<code, sessions>>
  OBVIOUS
<1> HIDE DEF op, n
<1> QED
  BY <1>1, <1>2, <1>3, RouteMoves

LEMMA TypeStep ==
    ASSUME TypeOK, RequestInv, [Next]_vars
    PROVE  TypeOK'
<1> SUFFICES ServerType' /\ ClientType'
  BY DEF TypeOK, ServerType, ClientType
<1> USE ConstantsAssumption, NoCallAssumption DEF TypeOK, ServerType, ClientType, RequestInv, Callers, Calls,
        Answers, Ops, Engaged, Over, server, client
<1>1. ASSUME NEW c \in Connects, ConnectStep(c) PROVE ServerType' /\ ClientType'
  <2>1. CASE Connect(c)
    BY <2>1 DEF Connect, Goto, Request
  <2>2. CASE Paired(c)
    BY <2>2 DEF Paired, Answered, Goto, Request
  <2>3. CASE Connected(c)
    BY <2>3 DEF Connected, Answered, Goto
  <2>4. CASE ConnectFails(c)
    BY <2>4 DEF ConnectFails, Goto, Abandon
  <2> QED
    BY <1>1, <2>1, <2>2, <2>3, <2>4 DEF ConnectStep
<1>2. ASSUME NEW e \in Extractions, Extract(e) PROVE ServerType' /\ ClientType'
  BY <1>2 DEF Extract, Goto, Request
<1>3. ASSUME NEW e \in Extractions, ClientStep(e) PROVE ServerType' /\ ClientType'
  <2>1. CASE JobCreated(e)
    BY <2>1 DEF JobCreated, Answered, Goto, Request, Poll
  <2>2. CASE CreateFails(e)
    BY <2>2 DEF CreateFails, Goto, Abandon
  <2>3. CASE ChunkSent(e)
    <3>1. CASE call[e].n + 1 < Chunks
      BY <2>3, <3>1 DEF ChunkSent, Answered, Goto, Request
    <3>2. CASE ~(call[e].n + 1 < Chunks)
      BY <2>3, <3>2 DEF ChunkSent, Answered, Goto, Request
    <3> QED
      BY <3>1, <3>2
  <2>4. CASE InputCompleted(e)
    BY <2>4 DEF InputCompleted, Answered, Goto
  <2>5. CASE FollowingEnds(e)
    BY <2>5 DEF FollowingEnds, Goto, Request
  <2>6. CASE ResultArrives(e)
    BY <2>6 DEF ResultArrives, Answered, Goto
  <2>7. CASE Fail(e)
    BY <2>7 DEF Fail, Goto, Request, Abandon
  <2>8. CASE CancelEnds(e)
    BY <2>8 DEF CancelEnds, Goto, Abandon
  <2>9. CASE AcknowledgeEnds(e)
    BY <2>9 DEF AcknowledgeEnds, Goto, Abandon
  <2> QED
    BY <1>3, <2>1, <2>2, <2>3, <2>4, <2>5, <2>6, <2>7, <2>8, <2>9 DEF ClientStep
<1>4. ASSUME NEW e \in Extractions, SubscriptionStep(e) PROVE ServerType' /\ ClientType'
  <2>1. CASE EventsArrive(e)
    BY <2>1 DEF EventsArrive, Poll, Request
  <2>2. CASE PollFails(e)
    BY <2>2 DEF PollFails
  <2> QED
    BY <1>4, <2>1, <2>2 DEF SubscriptionStep
<1>5. ASSUME NEW e \in Extractions, Stop(e) PROVE ServerType' /\ ClientType'
  BY <1>5 DEF Stop, Goto, Request, Abandon
<1>6. ASSUME NEW e \in Extractions, Acknowledge(e) PROVE ServerType' /\ ClientType'
  BY <1>6 DEF Acknowledge, Goto, Request
<1>7. ASSUME NEW e \in Extractions, HandlePoll(e) PROVE ServerType' /\ ClientType'
  <2>1. PICK answer \in Answers \ {"none"} :
            /\ Route(e, "events", 0, answer)
            /\ poll' = [poll EXCEPT ![e].answer = answer]
    BY <1>7 DEF HandlePoll, TypeOK
  <2>2. /\ poll[e] \in Calls /\ poll[e] # NoCall /\ poll[e].answer = "none"
        /\ UNCHANGED <<client, call, strays>>
    BY <1>7 DEF HandlePoll, TypeOK
  <2> e \in Callers /\ 0 \in 0..Chunks
    OBVIOUS
  <2>3. ServerType'
    <3> HIDE DEF TypeOK, ClientType, Calls, Answers, Ops, Engaged, Over, server, client
    <3>1. ServerType
      BY TypeParts
    <3> QED
      BY <2>1, <3>1, RouteMoves
  <2>4. ClientType'
    BY <2>1, <2>2
  <2> QED
    BY <2>3, <2>4
<1>8. ASSUME NEW e \in Extractions, Work(e) \/ Sweep(e) PROVE ServerType' /\ ClientType'
  <2>1. ServerType'
    BY <1>8, WorkMoves
  <2>2. ClientType'
    BY <1>8 DEF Work, Sweep
  <2> QED
    BY <2>1, <2>2
<1>9. ASSUME NEW x \in Callers, HandleCall(x) PROVE ServerType' /\ ClientType'
  <2>1. PICK answer \in Answers \ {"none"} :
            /\ Route(x, call[x].op, call[x].n, answer)
            /\ call' = [call EXCEPT ![x].answer = answer]
    BY <1>9 DEF HandleCall
  <2>2. /\ call[x] \in Calls /\ call[x] # NoCall /\ call[x].answer = "none"
        /\ RequestOk(call[x], x)
        /\ UNCHANGED <<client, poll, strays>>
    BY <1>9 DEF HandleCall
  <2>3. ServerType'
    BY <2>1, <2>2, RouteMoves DEF RequestOk
  <2>4. ClientType'
    BY <2>1, <2>2
  <2> QED
    BY <2>3, <2>4
<1>10. ASSUME NEW r \in strays, HandleStray(r) PROVE ServerType' /\ ClientType'
  <2>1. PICK answer \in Answers : Route(r.from, r.op, r.n, answer)
    BY <1>10 DEF HandleStray
  <2>2. /\ r.from \in Callers /\ r.n \in 0..Chunks /\ RequestOk(r, r.from)
        /\ strays' = strays \ {r}
        /\ UNCHANGED <<client, call, poll>>
    BY <1>10 DEF HandleStray
  <2>3. ServerType'
    BY <2>1, <2>2, RouteMoves DEF RequestOk
  <2>4. ClientType'
    BY <2>2
  <2> QED
    BY <2>3, <2>4
<1>11. CASE CodeExpires
  BY <1>11 DEF CodeExpires
<1>12. CASE Tick
  <2>1. ServerType'
    BY <1>12 DEF Tick
  <2>2. \A x \in Callers : Older(call[x]) \in Calls \cup {NoCall}
    <3> HIDE DEF Calls
    <3> QED
      BY <1>12, OlderRequest DEF Tick
  <2>3. \A e \in Extractions : Older(poll[e]) \in Calls \cup {NoCall}
    <3> HIDE DEF Calls
    <3> QED
      BY <1>12, OlderRequest DEF Tick
  <2>4. ClientType'
    <3> HIDE DEF Calls
    <3> QED
      BY <1>12, <2>2, <2>3 DEF Tick
  <2> QED
    BY <2>1, <2>4
<1>13. CASE UNCHANGED vars
  BY <1>13 DEF vars, server, client
<1> QED
  BY <1>1, <1>2, <1>3, <1>4, <1>5, <1>6, <1>7, <1>8, <1>9, <1>10, <1>11, <1>12, <1>13 DEF Next

LEMMA RequestStep ==
    ASSUME TypeOK, RequestInv, [Next]_vars
    PROVE  RequestInv'
<1> USE ConstantsAssumption DEF TypeOK, RequestInv, RequestOk, Callers, Calls, client
<1>1. ASSUME NEW c \in Connects, ConnectStep(c) PROVE RequestInv'
  <2>1. CASE Connect(c)
    BY <2>1 DEF Connect, Goto, Request
  <2>2. CASE Paired(c)
    BY <2>2 DEF Paired, Answered, Goto, Request
  <2>3. CASE Connected(c)
    BY <2>3 DEF Connected, Answered, Goto
  <2>4. CASE ConnectFails(c)
    BY <2>4 DEF ConnectFails, Goto, Abandon
  <2> QED
    BY <1>1, <2>1, <2>2, <2>3, <2>4 DEF ConnectStep
<1>2. ASSUME NEW e \in Extractions, Extract(e) PROVE RequestInv'
  BY <1>2 DEF Extract, Goto, Request
<1>3. ASSUME NEW e \in Extractions, ClientStep(e) PROVE RequestInv'
  <2>1. CASE JobCreated(e)
    BY <2>1 DEF JobCreated, Answered, Goto, Request, Poll
  <2>2. CASE CreateFails(e)
    BY <2>2 DEF CreateFails, Goto, Abandon
  <2>3. CASE ChunkSent(e)
    BY <2>3 DEF ChunkSent, Answered, Goto, Request
  <2>4. CASE InputCompleted(e)
    BY <2>4 DEF InputCompleted, Answered, Goto
  <2>5. CASE FollowingEnds(e)
    BY <2>5 DEF FollowingEnds, Goto, Request
  <2>6. CASE ResultArrives(e)
    BY <2>6 DEF ResultArrives, Answered, Goto
  <2>7. CASE Fail(e)
    BY <2>7 DEF Fail, Goto, Request, Abandon
  <2>8. CASE CancelEnds(e)
    BY <2>8 DEF CancelEnds, Goto, Abandon
  <2>9. CASE AcknowledgeEnds(e)
    BY <2>9 DEF AcknowledgeEnds, Goto, Abandon
  <2> QED
    BY <1>3, <2>1, <2>2, <2>3, <2>4, <2>5, <2>6, <2>7, <2>8, <2>9 DEF ClientStep
<1>4. ASSUME NEW e \in Extractions, SubscriptionStep(e) PROVE RequestInv'
  <2>1. CASE EventsArrive(e)
    BY <2>1 DEF EventsArrive, Poll, Request
  <2>2. CASE PollFails(e)
    BY <2>2 DEF PollFails
  <2> QED
    BY <1>4, <2>1, <2>2 DEF SubscriptionStep
<1>5. ASSUME NEW e \in Extractions, Stop(e) PROVE RequestInv'
  BY <1>5 DEF Stop, Goto, Request, Abandon
<1>6. ASSUME NEW e \in Extractions, Acknowledge(e) PROVE RequestInv'
  BY <1>6 DEF Acknowledge, Goto, Request
<1>7. ASSUME NEW e \in Extractions, HandlePoll(e) PROVE RequestInv'
  BY <1>7 DEF HandlePoll
<1>8. ASSUME NEW e \in Extractions, Work(e) \/ Sweep(e) PROVE RequestInv'
  BY <1>8 DEF Work, Sweep
<1>9. ASSUME NEW x \in Callers, HandleCall(x) PROVE RequestInv'
  BY <1>9 DEF HandleCall
<1>10. ASSUME NEW r \in strays, HandleStray(r) PROVE RequestInv'
  BY <1>10 DEF HandleStray
<1>11. CASE CodeExpires
  BY <1>11 DEF CodeExpires
<1>12. CASE Tick
  BY <1>12 DEF Tick, Older, Ended, Overdue
<1>13. CASE UNCHANGED vars
  BY <1>13 DEF vars, server, client
<1> QED
  BY <1>1, <1>2, <1>3, <1>4, <1>5, <1>6, <1>7, <1>8, <1>9, <1>10, <1>11, <1>12, <1>13 DEF Next

LEMMA PairingStep ==
    ASSUME TypeOK, RequestInv, PairingInv, [Next]_vars
    PROVE  PairingInv'
<1> USE ConstantsAssumption DEF PairingInv, Callers, server, client
<1>1. ASSUME NEW c \in Connects, ConnectStep(c) PROVE PairingInv'
  <2>1. CASE Connect(c)
    BY <2>1 DEF Connect, Goto, Request, TypeOK
  <2>2. CASE Paired(c)
    BY <2>2 DEF Paired, Answered, Goto, Request, TypeOK
  <2>3. CASE Connected(c)
    BY <2>3 DEF Connected, Answered, Goto, TypeOK
  <2>4. CASE ConnectFails(c)
    BY <2>4 DEF ConnectFails, Goto, Abandon, TypeOK
  <2> QED
    BY <1>1, <2>1, <2>2, <2>3, <2>4 DEF ConnectStep
<1>2. ASSUME NEW e \in Extractions, Extract(e) PROVE PairingInv'
  BY <1>2 DEF Extract, Goto, TypeOK
<1>3. ASSUME NEW e \in Extractions, ClientStep(e) PROVE PairingInv'
  <2>1. CASE JobCreated(e)
    BY <2>1 DEF JobCreated, Answered, Goto, Request, Poll, TypeOK
  <2>2. CASE CreateFails(e)
    BY <2>2 DEF CreateFails, Goto, Abandon, TypeOK
  <2>3. CASE ChunkSent(e)
    BY <2>3 DEF ChunkSent, Answered, Goto, Request, TypeOK
  <2>4. CASE InputCompleted(e)
    BY <2>4 DEF InputCompleted, Answered, Goto, TypeOK
  <2>5. CASE FollowingEnds(e)
    BY <2>5 DEF FollowingEnds, Goto, Request, TypeOK
  <2>6. CASE ResultArrives(e)
    BY <2>6 DEF ResultArrives, Answered, Goto, TypeOK
  <2>7. CASE Fail(e)
    BY <2>7 DEF Fail, Goto, Request, Abandon, TypeOK
  <2>8. CASE CancelEnds(e)
    BY <2>8 DEF CancelEnds, Goto, Abandon, TypeOK
  <2>9. CASE AcknowledgeEnds(e)
    BY <2>9 DEF AcknowledgeEnds, Goto, Abandon, TypeOK
  <2> QED
    BY <1>3, <2>1, <2>2, <2>3, <2>4, <2>5, <2>6, <2>7, <2>8, <2>9 DEF ClientStep
<1>4. ASSUME NEW e \in Extractions, SubscriptionStep(e) PROVE PairingInv'
  <2>1. CASE EventsArrive(e)
    BY <2>1 DEF EventsArrive, Poll, Request
  <2>2. CASE PollFails(e)
    BY <2>2 DEF PollFails
  <2> QED
    BY <1>4, <2>1, <2>2 DEF SubscriptionStep
<1>5. ASSUME NEW e \in Extractions, Stop(e) PROVE PairingInv'
  BY <1>5 DEF Stop, Goto, TypeOK
<1>6. ASSUME NEW e \in Extractions, Acknowledge(e) PROVE PairingInv'
  BY <1>6 DEF Acknowledge, Goto, TypeOK
<1>7. ASSUME NEW e \in Extractions, HandlePoll(e) PROVE PairingInv'
  <2>1. PICK answer \in Answers \ {"none"} :
            /\ Route(e, "events", 0, answer)
            /\ poll' = [poll EXCEPT ![e].answer = answer]
    BY <1>7 DEF HandlePoll, TypeOK
  <2>2. /\ poll[e] \in Calls /\ poll[e] # NoCall /\ poll[e].answer = "none"
        /\ UNCHANGED <<client, call, strays>>
    BY <1>7 DEF HandlePoll, TypeOK
  <2>3. UNCHANGED <<code, sessions>>
    <3>1. ServerType /\ e \in Callers /\ 0 \in 0..Chunks
      BY TypeParts
    <3>2. "events" # "session" /\ "events" # "chunk"
      OBVIOUS
    <3> HIDE DEF PairingInv, Callers
    <3> QED
      BY <2>1, <3>1, <3>2, RouteMoves
  <2> QED
    BY <2>2, <2>3
<1>8. ASSUME NEW e \in Extractions, Work(e) \/ Sweep(e) PROVE PairingInv'
  BY <1>8 DEF Work, Sweep
<1>9. ASSUME NEW x \in Callers, HandleCall(x) PROVE PairingInv'
  <2>1. PICK answer \in Answers \ {"none"} :
            /\ Route(x, call[x].op, call[x].n, answer)
            /\ call' = [call EXCEPT ![x].answer = answer]
    BY <1>9 DEF HandleCall
  <2>2. /\ call[x] \in Calls /\ call[x] # NoCall /\ call[x].answer = "none"
        /\ RequestOk(call[x], x)
        /\ UNCHANGED <<client, poll, strays>>
    BY <1>9 DEF HandleCall, RequestInv, TypeOK
  <2>3. \A y \in Callers : y # x => call'[y] = call[y]
    BY <2>1 DEF TypeOK
  <2>4. /\ call'[x].op = call[x].op /\ call'[x].answer = answer
    BY <1>9, <2>1, <2>2 DEF TypeOK, Calls
  <2>5. CASE call[x].op # "session"
    <3>1. UNCHANGED <<code, sessions>>
      BY <2>1, <2>2, <2>5, CallMoves
    <3>2. x \in Connects => pc[x] # "pairing"
      BY <2>2, <2>5
    <3> QED
      BY <2>2, <2>3, <3>1, <3>2
  <2>6. CASE call[x].op = "session"
    <3>1. x \in Connects /\ OpenSession(x, answer)
      BY <2>1, <2>2, <2>6, TypeParts, RouteMoves DEF RequestOk, Calls
    <3> QED
      BY <1>9, <2>2, <2>3, <2>4, <2>6, <3>1 DEF OpenSession
  <2> QED
    BY <2>5, <2>6
<1>10. ASSUME NEW r \in strays, HandleStray(r) PROVE PairingInv'
  <2>1. PICK answer \in Answers : Route(r.from, r.op, r.n, answer)
    BY <1>10 DEF HandleStray
  <2>2. /\ r.from \in Callers /\ r.n \in 0..Chunks /\ RequestOk(r, r.from)
        /\ strays' = strays \ {r}
        /\ UNCHANGED <<client, call, poll>>
    BY <1>10 DEF HandleStray, RequestInv, TypeOK
  <2>3. CASE r.op # "session"
    <3>1. UNCHANGED <<code, sessions>>
      BY <2>1, <2>2, <2>3, TypeParts, RouteMoves DEF RequestOk
    <3> QED
      BY <2>2, <3>1
  <2>4. CASE r.op = "session"
    <3>1. r.from \in Connects /\ OpenSession(r.from, answer)
      BY <2>1, <2>2, <2>4, TypeParts, RouteMoves DEF RequestOk
    <3> QED
      BY <2>2, <3>1 DEF OpenSession
  <2> QED
    BY <2>3, <2>4
<1>11. CASE CodeExpires
  BY <1>11 DEF CodeExpires
<1>12. CASE Tick
  <2>1. \A x \in Callers : call[x] # NoCall => ~Overdue(call[x]) \/ Ended(call[x])
    BY <1>12 DEF Tick
  <2>2. \A x \in Callers : /\ (call'[x] = NoCall) <=> (call[x] = NoCall)
                           /\ call[x] # NoCall => /\ call'[x].op = call[x].op
                                                 /\ call'[x].answer = call[x].answer
    BY <1>12, <2>1, OlderRequest DEF Tick, TypeOK
  <2>3. UNCHANGED <<phase, available, got, code, sessions, client, strays>>
    BY <1>12 DEF Tick
  <2> QED
    BY <2>2, <2>3
<1>13. CASE UNCHANGED vars
  BY <1>13 DEF vars, server, client
<1> QED
  BY <1>1, <1>2, <1>3, <1>4, <1>5, <1>6, <1>7, <1>8, <1>9, <1>10, <1>11, <1>12, <1>13 DEF Next

LEMMA DocumentStep ==
    ASSUME TypeOK, RequestInv, DocumentInv, [Next]_vars
    PROVE  DocumentInv'
<1> USE ConstantsAssumption DEF DocumentInv, Whole, Fed, Done, Kept, Callers, server, client
<1>1. ASSUME NEW c \in Connects, ConnectStep(c) PROVE DocumentInv'
  <2>1. CASE Connect(c)
    BY <2>1 DEF Connect, Goto, Request, TypeOK
  <2>2. CASE Paired(c)
    BY <2>2 DEF Paired, Answered, Goto, Request, TypeOK
  <2>3. CASE Connected(c)
    BY <2>3 DEF Connected, Answered, Goto, TypeOK
  <2>4. CASE ConnectFails(c)
    BY <2>4 DEF ConnectFails, Goto, Abandon, TypeOK
  <2> QED
    BY <1>1, <2>1, <2>2, <2>3, <2>4 DEF ConnectStep
<1>2. ASSUME NEW e \in Extractions, Extract(e) PROVE DocumentInv'
  BY <1>2 DEF Extract, Goto, TypeOK
<1>3. ASSUME NEW e \in Extractions, ClientStep(e) PROVE DocumentInv'
  <2>1. CASE JobCreated(e)
    BY <2>1 DEF JobCreated, Answered, Goto, Request, Poll, TypeOK
  <2>2. CASE CreateFails(e)
    BY <2>2 DEF CreateFails, Goto, Abandon, TypeOK
  <2>3. CASE ChunkSent(e)
    BY <2>3 DEF ChunkSent, Answered, Goto, Request, TypeOK
  <2>4. CASE InputCompleted(e)
    BY <2>4 DEF InputCompleted, Answered, Goto, TypeOK
  <2>5. CASE FollowingEnds(e)
    BY <2>5 DEF FollowingEnds, Goto, Request, TypeOK
  <2>6. CASE ResultArrives(e)
    BY <2>6 DEF ResultArrives, Answered, Goto, TypeOK
  <2>7. CASE Fail(e)
    BY <2>7 DEF Fail, Goto, Request, Abandon, TypeOK
  <2>8. CASE CancelEnds(e)
    BY <2>8 DEF CancelEnds, Goto, Abandon, TypeOK
  <2>9. CASE AcknowledgeEnds(e)
    BY <2>9 DEF AcknowledgeEnds, Goto, Abandon, TypeOK
  <2> QED
    BY <1>3, <2>1, <2>2, <2>3, <2>4, <2>5, <2>6, <2>7, <2>8, <2>9 DEF ClientStep
<1>4. ASSUME NEW e \in Extractions, SubscriptionStep(e) PROVE DocumentInv'
  <2>1. CASE EventsArrive(e)
    BY <2>1 DEF EventsArrive, Poll, Request
  <2>2. CASE PollFails(e)
    BY <2>2 DEF PollFails
  <2> QED
    BY <1>4, <2>1, <2>2 DEF SubscriptionStep
<1>5. ASSUME NEW e \in Extractions, Stop(e) PROVE DocumentInv'
  BY <1>5 DEF Stop, Goto, Engaged, TypeOK
<1>6. ASSUME NEW e \in Extractions, Acknowledge(e) PROVE DocumentInv'
  BY <1>6 DEF Acknowledge, Goto, TypeOK
<1>7. ASSUME NEW e \in Extractions, HandlePoll(e) PROVE DocumentInv'
  <2>1. PICK answer \in Answers \ {"none"} :
            /\ Route(e, "events", 0, answer)
            /\ poll' = [poll EXCEPT ![e].answer = answer]
    BY <1>7 DEF HandlePoll, TypeOK
  <2>2. /\ poll[e] \in Calls /\ poll[e] # NoCall /\ poll[e].answer = "none"
        /\ UNCHANGED <<client, call, strays>>
    BY <1>7 DEF HandlePoll, TypeOK
  <2>3. \A i \in Extractions : JobMoves(i)
    BY <2>1, TypeParts, RouteMoves
  <2> QED
    BY <2>2, <2>3 DEF JobMoves
<1>8. ASSUME NEW e \in Extractions, Work(e) \/ Sweep(e) PROVE DocumentInv'
  <2>1. \A i \in Extractions : JobMoves(i)
    BY <1>8, TypeParts, WorkMoves
  <2>2. UNCHANGED <<client, call>>
    BY <1>8 DEF Work, Sweep
  <2> QED
    BY <2>1, <2>2 DEF JobMoves
<1>9. ASSUME NEW x \in Callers, HandleCall(x) PROVE DocumentInv'
  <2>1. PICK answer \in Answers \ {"none"} :
            /\ Route(x, call[x].op, call[x].n, answer)
            /\ call' = [call EXCEPT ![x].answer = answer]
    BY <1>9 DEF HandleCall
  <2>2. /\ call[x] \in Calls /\ call[x] # NoCall /\ call[x].answer = "none"
        /\ RequestOk(call[x], x)
        /\ UNCHANGED <<client, poll, strays>>
    BY <1>9 DEF HandleCall, RequestInv, TypeOK
  <2>3. \A y \in Callers : y # x => call'[y] = call[y]
    BY <2>1 DEF TypeOK
  <2>4. /\ call'[x].op = call[x].op /\ call'[x].answer = answer
    BY <1>9, <2>1, <2>2 DEF TypeOK, Calls
  <2>5. /\ \A i \in Extractions : JobMoves(i)
        /\ x \in Extractions /\ call[x].op = "result" /\ answer = "ok" =>
             phase'[x] = "completed"
    BY <2>1, <2>2, TypeParts, RouteMoves DEF RequestOk, Calls
  <2>6. \A i \in Extractions : phase'[i] \in Fed => got'[i] = Chunks
    BY <2>5 DEF JobMoves
  <2>7. \A i \in Extractions : Whole(i) => Whole(i)'
    BY <2>5 DEF JobMoves
  <2>8. x \in Extractions /\ pc[x] = "fetching" =>
          call'[x].op = "result" /\ (call'[x].answer = "ok" => Whole(x)')
    BY <2>2, <2>4, <2>5, <2>6
  <2> QED
    BY <2>2, <2>3, <2>6, <2>7, <2>8
<1>10. ASSUME NEW r \in strays, HandleStray(r) PROVE DocumentInv'
  <2>1. PICK answer \in Answers : Route(r.from, r.op, r.n, answer)
    BY <1>10 DEF HandleStray
  <2>2. /\ r.from \in Callers /\ r.n \in 0..Chunks /\ RequestOk(r, r.from)
        /\ strays' = strays \ {r}
        /\ UNCHANGED <<client, call, poll>>
    BY <1>10 DEF HandleStray, RequestInv, TypeOK
  <2>3. \A i \in Extractions : JobMoves(i)
    BY <2>1, <2>2, TypeParts, RouteMoves DEF RequestOk
  <2> QED
    BY <2>2, <2>3 DEF JobMoves
<1>11. CASE CodeExpires
  BY <1>11 DEF CodeExpires
<1>12. CASE Tick
  <2>1. \A x \in Callers : call[x] # NoCall => ~Overdue(call[x]) \/ Ended(call[x])
    BY <1>12 DEF Tick
  <2>2. \A x \in Callers : /\ (call'[x] = NoCall) <=> (call[x] = NoCall)
                           /\ call[x] # NoCall => /\ call'[x].op = call[x].op
                                                 /\ call'[x].answer = call[x].answer
    BY <1>12, <2>1, OlderRequest DEF Tick, TypeOK
  <2>3. UNCHANGED <<phase, available, got, code, sessions, client, strays>>
    BY <1>12 DEF Tick
  <2> QED
    BY <2>2, <2>3
<1>13. CASE UNCHANGED vars
  BY <1>13 DEF vars, server, client
<1> QED
  BY <1>1, <1>2, <1>3, <1>4, <1>5, <1>6, <1>7, <1>8, <1>9, <1>10, <1>11, <1>12, <1>13 DEF Next

LEMMA LeftoverStep ==
    ASSUME TypeOK, RequestInv, AliveInv, LeftoverInv, [Next]_vars
    PROVE  LeftoverInv'
<1> USE ConstantsAssumption DEF LeftoverInv, New, Settled, Callers, server, client
<1>1. ASSUME NEW c \in Connects, ConnectStep(c) PROVE LeftoverInv'
  <2>1. CASE Connect(c)
    BY <2>1 DEF Connect, Goto, Request, TypeOK
  <2>2. CASE Paired(c)
    BY <2>2 DEF Paired, Answered, Goto, Request, TypeOK
  <2>3. CASE Connected(c)
    BY <2>3 DEF Connected, Answered, Goto, TypeOK
  <2>4. CASE ConnectFails(c)
    BY <2>4 DEF ConnectFails, Goto, Abandon, TypeOK
  <2> QED
    BY <1>1, <2>1, <2>2, <2>3, <2>4 DEF ConnectStep
<1>2. ASSUME NEW e \in Extractions, Extract(e) PROVE LeftoverInv'
  BY <1>2 DEF Extract, Goto, Request, TypeOK
<1>3. ASSUME NEW e \in Extractions, ClientStep(e) PROVE LeftoverInv'
  <2>1. CASE JobCreated(e)
    BY <2>1 DEF JobCreated, Answered, Goto, Request, Poll, TypeOK
  <2>2. CASE CreateFails(e)
    BY <2>2 DEF CreateFails, Goto, Abandon, TypeOK
  <2>3. CASE ChunkSent(e)
    BY <2>3 DEF ChunkSent, Answered, Goto, Request, TypeOK
  <2>4. CASE InputCompleted(e)
    BY <2>4 DEF InputCompleted, Answered, Goto, TypeOK
  <2>5. CASE FollowingEnds(e)
    BY <2>5 DEF FollowingEnds, Goto, Request, TypeOK
  <2>6. CASE ResultArrives(e)
    BY <2>6 DEF ResultArrives, Answered, Goto, TypeOK
  <2>7. CASE Fail(e)
    BY <2>7 DEF Fail, Goto, Request, Abandon, TypeOK
  <2>8. CASE CancelEnds(e)
    BY <2>8 DEF CancelEnds, Goto, Abandon, TypeOK, AliveInv, Alive
  <2>9. CASE AcknowledgeEnds(e)
    BY <2>9 DEF AcknowledgeEnds, Goto, Abandon, TypeOK
  <2> QED
    BY <1>3, <2>1, <2>2, <2>3, <2>4, <2>5, <2>6, <2>7, <2>8, <2>9 DEF ClientStep
<1>4. ASSUME NEW e \in Extractions, SubscriptionStep(e) PROVE LeftoverInv'
  <2>1. CASE EventsArrive(e)
    BY <2>1 DEF EventsArrive, Poll, Request
  <2>2. CASE PollFails(e)
    BY <2>2 DEF PollFails
  <2> QED
    BY <1>4, <2>1, <2>2 DEF SubscriptionStep
<1>5. ASSUME NEW e \in Extractions, Stop(e) PROVE LeftoverInv'
  BY <1>5 DEF Stop, Goto, Request, Abandon, Engaged, TypeOK
<1>6. ASSUME NEW e \in Extractions, Acknowledge(e) PROVE LeftoverInv'
  BY <1>6 DEF Acknowledge, Goto, TypeOK
<1>7. ASSUME NEW e \in Extractions, HandlePoll(e) PROVE LeftoverInv'
  <2>1. PICK answer \in Answers \ {"none"} :
            /\ Route(e, "events", 0, answer)
            /\ poll' = [poll EXCEPT ![e].answer = answer]
    BY <1>7 DEF HandlePoll, TypeOK
  <2>2. /\ poll[e] \in Calls /\ poll[e] # NoCall /\ poll[e].answer = "none"
        /\ UNCHANGED <<client, call, strays>>
    BY <1>7 DEF HandlePoll, TypeOK
  <2>3. \A i \in Extractions : JobMoves(i) /\ (Fresh(i) => Fresh(i)')
    BY <2>1, TypeParts, RouteMoves
  <2> QED
    BY <2>2, <2>3 DEF JobMoves, Fresh
<1>8. ASSUME NEW e \in Extractions, Work(e) \/ Sweep(e) PROVE LeftoverInv'
  <2>1. \A i \in Extractions :
            /\ JobMoves(i)
            /\ Fresh(i) => Fresh(i)' \/ Settled(i)'
            /\ pc[i] \in {"idle", "creating"} => (Fresh(i) => Fresh(i)')
    BY <1>8, TypeParts, WorkMoves
  <2>2. UNCHANGED <<client, call, strays>>
    BY <1>8 DEF Work, Sweep
  <2> QED
    BY <2>1, <2>2 DEF JobMoves, Fresh
<1>9. ASSUME NEW x \in Callers, HandleCall(x) PROVE LeftoverInv'
  <2>1. PICK answer \in Answers \ {"none"} :
            /\ Route(x, call[x].op, call[x].n, answer)
            /\ call' = [call EXCEPT ![x].answer = answer]
    BY <1>9 DEF HandleCall
  <2>2. /\ call[x] \in Calls /\ call[x] # NoCall /\ call[x].answer = "none"
        /\ RequestOk(call[x], x)
        /\ UNCHANGED <<client, poll, strays>>
    BY <1>9 DEF HandleCall, RequestInv, TypeOK
  <2>3. \A y \in Callers : y # x => call'[y] = call[y]
    BY <2>1 DEF TypeOK
  <2>4. /\ call'[x].op = call[x].op /\ call'[x].answer = answer
    BY <1>9, <2>1, <2>2 DEF TypeOK, Calls
  <2>5. /\ \A i \in Extractions :
             /\ JobMoves(i)
             /\ i # x \/ call[x].op = "create" => (Fresh(i) => Fresh(i)')
        /\ x \in Extractions /\ call[x].op = "cancel" /\ answer = "ok" => Settled(x)'
    <3> HIDE DEF LeftoverInv, New, Settled, Callers, server, client
    <3> QED
      BY <2>1, <2>2, CallMoves
  <2>6. \A i \in Extractions : Settled(i) => Settled(i)'
    BY <2>5 DEF JobMoves
  <2>7. \A i \in Extractions : i # x \/ call[x].op = "create" => (New(i) => New(i)')
    BY <2>2, <2>5 DEF Fresh
  <2> HIDE DEF New, Settled
  <2> QED
    BY <1>9, <2>2, <2>3, <2>4, <2>5, <2>6, <2>7
<1>10. ASSUME NEW r \in strays, HandleStray(r) PROVE LeftoverInv'
  <2>1. PICK answer \in Answers : Route(r.from, r.op, r.n, answer)
    BY <1>10 DEF HandleStray
  <2>2. /\ r.from \in Callers /\ r.n \in 0..Chunks /\ RequestOk(r, r.from)
        /\ strays' = strays \ {r}
        /\ UNCHANGED <<client, call, poll>>
    BY <1>10 DEF HandleStray, RequestInv, TypeOK
  <2>3. \A i \in Extractions :
            /\ JobMoves(i)
            /\ i # r.from \/ r.op = "create" => (Fresh(i) => Fresh(i)')
    BY <2>1, <2>2, TypeParts, RouteMoves DEF RequestOk
  <2> QED
    BY <1>10, <2>2, <2>3 DEF JobMoves, Fresh
<1>11. CASE CodeExpires
  BY <1>11 DEF CodeExpires
<1>12. CASE Tick
  <2>1. \A x \in Callers : call[x] # NoCall => ~Overdue(call[x]) \/ Ended(call[x])
    BY <1>12 DEF Tick
  <2>2. \A x \in Callers : /\ (call'[x] = NoCall) <=> (call[x] = NoCall)
                           /\ call[x] # NoCall => /\ call'[x].op = call[x].op
                                                 /\ call'[x].answer = call[x].answer
    BY <1>12, <2>1, OlderRequest DEF Tick, TypeOK
  <2>3. UNCHANGED <<phase, available, got, code, sessions, client, strays>>
    BY <1>12 DEF Tick
  <2> QED
    BY <2>2, <2>3
<1>13. CASE UNCHANGED vars
  BY <1>13 DEF vars, server, client
<1> QED
  BY <1>1, <1>2, <1>3, <1>4, <1>5, <1>6, <1>7, <1>8, <1>9, <1>10, <1>11, <1>12, <1>13 DEF Next

\* An extraction whose client and session did nothing.
LEMMA Unmoved ==
    ASSUME NEW i \in Extractions, Alive(i),
           pc'[i] = pc[i], call'[i] = call[i], poll'[i] = poll[i],
           UNCHANGED <<via, idle, sessions>>
    PROVE  Alive(i)'
  BY DEF Alive

\* An extraction that waits while its session is used by somebody.
LEMMA Used ==
    ASSUME NEW i \in Extractions, Alive(i), TypeOK,
           pc'[i] = pc[i], call'[i] = call[i], poll'[i] = poll[i], via' = via,
           \A c \in Connects : idle'[c] = idle[c] \/ idle'[c] = 0,
           sessions \subseteq sessions'
    PROVE  Alive(i)'
<1>1. pc[i] \in Engaged \cup {"creating"} =>
        via[i] \in sessions' /\ idle'[via[i]] <= idle[via[i]] /\ idle'[via[i]] \in Nat
    BY DEF Alive, TypeOK
<1>2. pc[i] \notin Engaged \cup {"creating"} => Alive(i)'
  BY DEF Alive, Engaged
<1>3. ASSUME pc[i] \in Engaged \cup {"creating"} PROVE Alive(i)'
  <2>1. /\ idle[via[i]] \in Nat
        /\ call[i] # NoCall => call[i].age \in Nat
        /\ poll[i] # NoCall => poll[i].age \in Nat
    BY <1>3 DEF Alive, TypeOK, Callers, Calls
  <2> QED
    BY <1>1, <1>3, <2>1, ConstantsAssumption DEF Alive, Engaged
<1> QED
  BY <1>2, <1>3

LEMMA Sent ==
    ASSUME NEW op \in Ops, NEW n \in 0..Chunks
    PROVE  /\ Request(op, n) # NoCall
           /\ Request(op, n).answer = "none"
           /\ Request(op, n).age = 0
<1>1. Request(op, n) \in Calls
  BY ConstantsAssumption DEF Request, Calls, Answers
<1> QED
  BY <1>1, NoCallAssumption DEF Request

\* How old what an extraction waits for may be, and how long its session was idle.
LEMMA Bounds ==
    ASSUME TypeOK, NEW e \in Extractions, Alive(e)
    PROVE  /\ call[e] # NoCall => call[e].age \in 0..RequestTimeout
           /\ poll[e] # NoCall => poll[e].age \in 0..RequestTimeout
           /\ pc[e] \in Engaged \cup {"creating"} => idle[via[e]] \in Nat
  BY DEF TypeOK, Callers, Calls, Alive

LEMMA AliveStep ==
    ASSUME TypeOK, RequestInv, PairingInv, AliveInv, [Next]_vars
    PROVE  AliveInv'
<1> USE ConstantsAssumption
<1>1. ASSUME NEW c \in Connects, ConnectStep(c) PROVE AliveInv'
  <2>1. CASE Connect(c)
    BY <2>1, Unmoved DEF AliveInv, Connect, Goto, Request, TypeOK, Callers, server, client
  <2>2. CASE Paired(c)
    BY <2>2, Unmoved DEF AliveInv, Paired, Answered, Goto, Request, TypeOK, Callers, server, client
  <2>3. CASE Connected(c)
    BY <2>3, Unmoved DEF AliveInv, Connected, Answered, Goto, TypeOK, Callers, server, client
  <2>4. CASE ConnectFails(c)
    BY <2>4, Unmoved DEF AliveInv, ConnectFails, Goto, Abandon, TypeOK, Callers, server, client
  <2> QED
    BY <1>1, <2>1, <2>2, <2>3, <2>4 DEF ConnectStep
<1>2. ASSUME NEW e \in Extractions, Extract(e) PROVE AliveInv'
  <2>1. /\ UNCHANGED <<idle, sessions>>
        /\ \A i \in Extractions : i # e =>
             pc'[i] = pc[i] /\ call'[i] = call[i] /\ poll'[i] = poll[i] /\ via'[i] = via[i]
    BY <1>2 DEF Extract, Goto, Request, TypeOK, Callers, server, client
  <2>2. \A i \in Extractions : i # e => Alive(i)'
    BY <2>1 DEF AliveInv, Alive
  <2>3. /\ pc'[e] \in {"creating", "refused"}
        /\ pc'[e] = "creating" => call'[e].answer = "none"
        /\ via'[e] \in sessions
    BY <1>2, Sent DEF Extract, Goto, PairingInv, client, server, TypeOK, Callers, Ops
  <2>4. Alive(e)'
    BY <2>1, <2>3, Bounds DEF AliveInv, Alive, Engaged
  <2> QED
    BY <2>2, <2>4 DEF AliveInv
<1>3. ASSUME NEW e \in Extractions, ClientStep(e) PROVE AliveInv'
  <2>1. CASE JobCreated(e)
    <3>1. /\ UNCHANGED <<via, idle, sessions>>
          /\ \A i \in Extractions : i # e =>
               pc'[i] = pc[i] /\ call'[i] = call[i] /\ poll'[i] = poll[i]
      BY <2>1 DEF JobCreated, Answered, Goto, Request, Poll, TypeOK, Callers, server, client
    <3>2. \A i \in Extractions : i # e => Alive(i)'
      BY <3>1, Unmoved DEF AliveInv
    <3>3. /\ call'[e] # NoCall /\ call'[e].answer = "none" /\ call'[e].age = 0
          /\ poll'[e] # NoCall /\ poll'[e].answer = "none" /\ poll'[e].age = 0
          /\ pc[e] = "creating" /\ call[e] # NoCall /\ call[e].answer = "ok"
          /\ pc'[e] = "uploading"
      BY <2>1, Sent DEF JobCreated, Answered, Goto, Poll, TypeOK, Callers, Ops
    <3>4. Alive(e)'
      BY <3>1, <3>3, Bounds DEF AliveInv, Alive, Engaged
    <3> QED
      BY <3>2, <3>4 DEF AliveInv
  <2>2. CASE CreateFails(e)
    <3>1. /\ UNCHANGED <<via, idle, sessions>>
          /\ \A i \in Extractions : i # e =>
               pc'[i] = pc[i] /\ call'[i] = call[i] /\ poll'[i] = poll[i]
      BY <2>2 DEF CreateFails, Goto, Abandon, TypeOK, Callers, server, client
    <3>2. \A i \in Extractions : i # e => Alive(i)'
      BY <3>1, Unmoved DEF AliveInv
    <3>3. pc'[e] = "failed"
      BY <2>2, Sent DEF CreateFails, Goto, TypeOK, Callers, Ops
    <3>4. Alive(e)'
      BY <3>1, <3>3, Bounds DEF AliveInv, Alive, Engaged
    <3> QED
      BY <3>2, <3>4 DEF AliveInv
  <2>3. CASE ChunkSent(e)
    <3>1. /\ UNCHANGED <<via, idle, sessions>>
          /\ \A i \in Extractions : i # e =>
               pc'[i] = pc[i] /\ call'[i] = call[i] /\ poll'[i] = poll[i]
      BY <2>3 DEF ChunkSent, Answered, Goto, Request, TypeOK, Callers, server, client
    <3>2. \A i \in Extractions : i # e => Alive(i)'
      BY <3>1, Unmoved DEF AliveInv
    <3>3. /\ call'[e] # NoCall /\ call'[e].answer = "none" /\ call'[e].age = 0
          /\ pc[e] = "uploading" /\ call[e] # NoCall /\ call[e].answer = "ok"
          /\ pc'[e] \in {"uploading", "completing"}
          /\ poll' = poll
      <4>1. /\ pc[e] = "uploading" /\ call[e] # NoCall /\ call[e].answer = "ok"
            /\ call[e].n \in Nat
        BY <2>3 DEF ChunkSent, Answered, TypeOK, Callers, Calls
      <4>2. CASE call[e].n + 1 < Chunks
        <5>1. Request("chunk", call[e].n + 1) # NoCall /\ "chunk" \in Ops
          BY <4>1, <4>2, Sent DEF Ops
        <5> QED
          BY <2>3, <4>1, <4>2, <5>1, Sent DEF ChunkSent, Goto, TypeOK, Callers
      <4>3. CASE ~(call[e].n + 1 < Chunks)
        BY <2>3, <4>1, <4>3, Sent DEF ChunkSent, Goto, TypeOK, Callers, Ops
      <4> QED
        BY <4>2, <4>3
    <3>4. Alive(e)'
      BY <3>1, <3>3, Bounds DEF AliveInv, Alive, Engaged
    <3> QED
      BY <3>2, <3>4 DEF AliveInv
  <2>4. CASE InputCompleted(e)
    <3>1. /\ UNCHANGED <<via, idle, sessions>>
          /\ \A i \in Extractions : i # e =>
               pc'[i] = pc[i] /\ call'[i] = call[i] /\ poll'[i] = poll[i]
      BY <2>4 DEF InputCompleted, Answered, Goto, TypeOK, Callers, server, client
    <3>2. \A i \in Extractions : i # e => Alive(i)'
      BY <3>1, Unmoved DEF AliveInv
    <3>3. /\ pc[e] = "completing" /\ call[e] # NoCall /\ call[e].answer = "ok"
          /\ pc'[e] = "following"
          /\ poll' = poll
      BY <2>4, Sent DEF InputCompleted, Answered, Goto, TypeOK, Callers, Ops
    <3>4. Alive(e)'
      BY <3>1, <3>3, Bounds DEF AliveInv, Alive, Engaged
    <3> QED
      BY <3>2, <3>4 DEF AliveInv
  <2>5. CASE FollowingEnds(e)
    <3>1. /\ UNCHANGED <<via, idle, sessions>>
          /\ \A i \in Extractions : i # e =>
               pc'[i] = pc[i] /\ call'[i] = call[i] /\ poll'[i] = poll[i]
      BY <2>5 DEF FollowingEnds, Goto, Request, TypeOK, Callers, server, client
    <3>2. \A i \in Extractions : i # e => Alive(i)'
      BY <3>1, Unmoved DEF AliveInv
    <3>3. /\ call'[e] # NoCall /\ call'[e].answer = "none" /\ call'[e].age = 0
          /\ pc[e] = "following" /\ poll[e].answer = "last"
          /\ pc'[e] = "fetching"
      BY <2>5, Sent DEF FollowingEnds, Goto, TypeOK, Callers, Ops
    <3>4. Alive(e)'
      BY <3>1, <3>3, Bounds DEF AliveInv, Alive, Engaged
    <3> QED
      BY <3>2, <3>4 DEF AliveInv
  <2>6. CASE ResultArrives(e)
    <3>1. /\ UNCHANGED <<via, idle, sessions>>
          /\ \A i \in Extractions : i # e =>
               pc'[i] = pc[i] /\ call'[i] = call[i] /\ poll'[i] = poll[i]
      BY <2>6 DEF ResultArrives, Answered, Goto, TypeOK, Callers, server, client
    <3>2. \A i \in Extractions : i # e => Alive(i)'
      BY <3>1, Unmoved DEF AliveInv
    <3>3. pc'[e] = "returned"
      BY <2>6, Sent DEF ResultArrives, Goto, TypeOK, Callers, Ops
    <3>4. Alive(e)'
      BY <3>1, <3>3, Bounds DEF AliveInv, Alive, Engaged
    <3> QED
      BY <3>2, <3>4 DEF AliveInv
  <2>7. CASE Fail(e)
    <3>1. /\ UNCHANGED <<via, idle, sessions>>
          /\ \A i \in Extractions : i # e =>
               pc'[i] = pc[i] /\ call'[i] = call[i] /\ poll'[i] = poll[i]
      BY <2>7 DEF Fail, Goto, Request, Abandon, TypeOK, Callers, server, client
    <3>2. \A i \in Extractions : i # e => Alive(i)'
      BY <3>1, Unmoved DEF AliveInv
    <3>3. /\ call'[e] # NoCall /\ call'[e].answer = "none" /\ call'[e].age = 0
          /\ pc[e] \in {"uploading", "completing", "fetching", "following"}
          /\ pc'[e] = "cancelling"
      BY <2>7, Sent DEF Fail, Goto, TypeOK, Callers, Ops
    <3>4. Alive(e)'
      BY <3>1, <3>3, Bounds DEF AliveInv, Alive, Engaged
    <3> QED
      BY <3>2, <3>4 DEF AliveInv
  <2>8. CASE CancelEnds(e)
    <3>1. /\ UNCHANGED <<via, idle, sessions>>
          /\ \A i \in Extractions : i # e =>
               pc'[i] = pc[i] /\ call'[i] = call[i] /\ poll'[i] = poll[i]
      BY <2>8 DEF CancelEnds, Goto, Abandon, TypeOK, Callers, server, client
    <3>2. \A i \in Extractions : i # e => Alive(i)'
      BY <3>1, Unmoved DEF AliveInv
    <3>3. pc'[e] = "failed"
      BY <2>8, Sent DEF CancelEnds, Goto, TypeOK, Callers, Ops
    <3>4. Alive(e)'
      BY <3>1, <3>3, Bounds DEF AliveInv, Alive, Engaged
    <3> QED
      BY <3>2, <3>4 DEF AliveInv
  <2>9. CASE AcknowledgeEnds(e)
    <3>1. /\ UNCHANGED <<via, idle, sessions>>
          /\ \A i \in Extractions : i # e =>
               pc'[i] = pc[i] /\ call'[i] = call[i] /\ poll'[i] = poll[i]
      BY <2>9 DEF AcknowledgeEnds, Goto, Abandon, TypeOK, Callers, server, client
    <3>2. \A i \in Extractions : i # e => Alive(i)'
      BY <3>1, Unmoved DEF AliveInv
    <3>3. pc'[e] \in {"acknowledged", "retained"}
      BY <2>9, Sent DEF AcknowledgeEnds, Goto, TypeOK, Callers, Ops
    <3>4. Alive(e)'
      BY <3>1, <3>3, Bounds DEF AliveInv, Alive, Engaged
    <3> QED
      BY <3>2, <3>4 DEF AliveInv
  <2> QED
    BY <1>3, <2>1, <2>2, <2>3, <2>4, <2>5, <2>6, <2>7, <2>8, <2>9 DEF ClientStep
<1>4. ASSUME NEW e \in Extractions, SubscriptionStep(e) PROVE AliveInv'
  <2>1. CASE EventsArrive(e)
    <3>1. /\ UNCHANGED <<via, idle, sessions>>
          /\ \A i \in Extractions : i # e =>
               pc'[i] = pc[i] /\ call'[i] = call[i] /\ poll'[i] = poll[i]
      BY <2>1 DEF EventsArrive, Poll, Request, TypeOK, Callers, server, client
    <3>2. \A i \in Extractions : i # e => Alive(i)'
      BY <3>1, Unmoved DEF AliveInv
    <3>3. /\ poll'[e] # NoCall /\ poll'[e].answer = "none" /\ poll'[e].age = 0
          /\ poll[e] # NoCall /\ poll[e].answer = "more"
          /\ pc' = pc /\ call' = call
      BY <2>1, Sent DEF EventsArrive, Poll, client, TypeOK, Callers, Ops
    <3>4. Alive(e)'
      BY <3>1, <3>3, Bounds DEF AliveInv, Alive, Engaged
    <3> QED
      BY <3>2, <3>4 DEF AliveInv
  <2>2. CASE PollFails(e)
    <3>1. /\ UNCHANGED <<via, idle, sessions>>
          /\ \A i \in Extractions : i # e =>
               pc'[i] = pc[i] /\ call'[i] = call[i] /\ poll'[i] = poll[i]
      BY <2>2 DEF PollFails, TypeOK, Callers, server, client
    <3>2. \A i \in Extractions : i # e => Alive(i)'
      BY <3>1, Unmoved DEF AliveInv
    <3>3. /\ poll'[e] # NoCall /\ poll'[e].answer = "no" /\ poll'[e].age = poll[e].age
          /\ poll[e] # NoCall
          /\ pc[e] \in {"uploading", "completing"} /\ pc' = pc /\ call' = call
      <4>1. poll[e] \in Calls /\ poll'[e] = [poll[e] EXCEPT !.answer = "no"]
        BY <2>2 DEF PollFails, TypeOK
      <4>2. poll'[e] \in Calls /\ poll'[e].answer = "no" /\ poll'[e].age = poll[e].age
        BY <4>1 DEF Calls, Answers
      <4> QED
        BY <2>2, <4>2, NoCallAssumption DEF PollFails, client
    <3>4. Alive(e)'
      BY <3>1, <3>3, Bounds DEF AliveInv, Alive, Engaged
    <3> QED
      BY <3>2, <3>4 DEF AliveInv
  <2> QED
    BY <1>4, <2>1, <2>2 DEF SubscriptionStep
<1>5. ASSUME NEW e \in Extractions, Stop(e) PROVE AliveInv'
  <2>1. /\ UNCHANGED <<via, idle, sessions>>
        /\ \A i \in Extractions : i # e =>
             pc'[i] = pc[i] /\ call'[i] = call[i] /\ poll'[i] = poll[i]
    BY <1>5 DEF Stop, Goto, Request, Abandon, TypeOK, Callers, server, client
  <2>2. \A i \in Extractions : i # e => Alive(i)'
    BY <2>1, Unmoved DEF AliveInv
  <2>3. /\ pc'[e] \in {"failed", "cancelling"}
        /\ pc'[e] = "cancelling" =>
             /\ call'[e] # NoCall /\ call'[e].age = 0
             /\ pc[e] \in {"uploading", "completing", "fetching", "following"}
    BY <1>5, Sent DEF Stop, Goto, Engaged, TypeOK, Callers, Ops
  <2>4. Alive(e)'
    BY <2>1, <2>3, Bounds DEF AliveInv, Alive, Engaged
  <2> QED
    BY <2>2, <2>4 DEF AliveInv
<1>6. ASSUME NEW e \in Extractions, Acknowledge(e) PROVE AliveInv'
  <2>1. /\ UNCHANGED <<via, idle, sessions>>
        /\ \A i \in Extractions : i # e =>
             pc'[i] = pc[i] /\ call'[i] = call[i] /\ poll'[i] = poll[i]
    BY <1>6 DEF Acknowledge, Goto, Request, TypeOK, Callers, server, client
  <2>2. \A i \in Extractions : i # e => Alive(i)'
    BY <2>1, Unmoved DEF AliveInv
  <2>3. pc'[e] = "saved"
    BY <1>6, Sent DEF Acknowledge, Goto, TypeOK, Callers, Ops
  <2>4. Alive(e)'
    BY <2>1, <2>3, Bounds DEF AliveInv, Alive, Engaged
  <2> QED
    BY <2>2, <2>4 DEF AliveInv
<1>7. ASSUME NEW e \in Extractions, HandlePoll(e) PROVE AliveInv'
  <2>1. PICK answer \in Answers \ {"none"} :
            /\ Route(e, "events", 0, answer)
            /\ poll' = [poll EXCEPT ![e].answer = answer]
    BY <1>7 DEF HandlePoll, TypeOK
  <2>2. /\ poll[e] \in Calls /\ poll[e] # NoCall /\ poll[e].answer = "none"
        /\ UNCHANGED <<client, call, strays>>
    BY <1>7 DEF HandlePoll, TypeOK
  <2>3. /\ \A c \in Connects : idle'[c] = idle[c] \/ idle'[c] = 0
        /\ answer # "no" => idle'[via[e]] = 0
        /\ UNCHANGED sessions
    <3>1. ServerType /\ e \in Callers /\ 0 \in 0..Chunks
      BY TypeParts DEF Callers
    <3>2. "events" # "session" /\ "events" # "chunk" /\ SessionOf(e) = via[e]
      BY DEF SessionOf
    <3> QED
      BY <2>1, <3>1, <3>2, RouteMoves
  <2>4. \A i \in Extractions : i # e => Alive(i)'
    BY <2>1, <2>2, <2>3, Used DEF AliveInv, TypeOK, client
  <2>5. /\ poll'[e].answer = answer /\ poll'[e].age = poll[e].age
        /\ poll'[e] # NoCall
    <3>1. poll'[e] = [poll[e] EXCEPT !.answer = answer]
      BY <2>1 DEF TypeOK
    <3>2. poll'[e] \in Calls /\ poll'[e].answer = answer /\ poll'[e].age = poll[e].age
      BY <2>1, <2>2, <3>1 DEF Calls
    <3> QED
      BY <3>2, NoCallAssumption
  <2>6. CASE pc[e] \in Engaged \cup {"creating"}
    <3>1. via[e] \in Connects /\ Alive(e)
      BY <2>6 DEF AliveInv, Alive, TypeOK
    <3>2. idle[via[e]] \in Nat /\ idle'[via[e]] \in Nat /\ idle'[via[e]] <= idle[via[e]]
      BY <2>3, <3>1 DEF TypeOK
    <3>3. Alive(e)'
      BY <2>2, <2>3, <2>5, <2>6, <3>1, <3>2, Bounds DEF Alive, Engaged, client, Answers
    <3> QED
      BY <2>4, <3>3 DEF AliveInv
  <2>7. CASE pc[e] \notin Engaged \cup {"creating"}
    <3>1. Alive(e)'
      BY <2>2, <2>7 DEF Alive, Engaged, client
    <3> QED
      BY <2>4, <3>1 DEF AliveInv
  <2> QED
    BY <2>4, <2>6, <2>7 DEF AliveInv
<1>8. ASSUME NEW e \in Extractions, Work(e) \/ Sweep(e) PROVE AliveInv'
  <2>1. UNCHANGED <<pc, via, sessions, idle, call, poll>>
    BY <1>8 DEF Work, Sweep, client
  <2> QED
    BY <2>1, Unmoved DEF AliveInv
<1>9. ASSUME NEW x \in Callers, HandleCall(x) PROVE AliveInv'
  <2>1. PICK answer \in Answers \ {"none"} :
            /\ Route(x, call[x].op, call[x].n, answer)
            /\ call' = [call EXCEPT ![x].answer = answer]
    BY <1>9 DEF HandleCall, RequestInv, TypeOK
  <2>2. /\ call[x] \in Calls /\ call[x] # NoCall /\ call[x].answer = "none"
        /\ RequestOk(call[x], x)
        /\ UNCHANGED <<client, poll, strays>>
    BY <1>9 DEF HandleCall, RequestInv, TypeOK
  <2>3. /\ \A c \in Connects : idle'[c] = idle[c] \/ idle'[c] = 0
        /\ x \in Extractions /\ answer # "no" => idle'[via[x]] = 0
        /\ sessions \subseteq sessions'
    <3>1. ServerType /\ call[x].n \in 0..Chunks
      BY <2>2, TypeParts DEF Calls
    <3>2. (call[x].op = "session" => x \in Connects) /\ (call[x].op = "chunk" => call[x].n < Chunks)
      BY <2>2 DEF RequestOk
    <3>3. CASE call[x].op = "session"
      <4>1. /\ x \in Connects /\ OpenSession(x, answer)
            /\ \A c \in Connects : idle'[c] = idle[c] \/ idle'[c] = 0
        BY <2>1, <3>1, <3>2, <3>3, RouteMoves
      <4> QED
        BY <4>1 DEF OpenSession
    <3>4. CASE call[x].op # "session"
      <4>1. /\ \A c \in Connects : idle'[c] = idle[c] \/ idle'[c] = 0
            /\ answer # "no" => idle'[SessionOf(x)] = 0
            /\ UNCHANGED sessions
        <5> DEFINE op == call[x].op
        <5>1. Route(x, op, call[x].n, answer) /\ op # "session"
          BY <2>1, <3>4
        <5>2. op = "chunk" => call[x].n < Chunks
          BY <3>2
        <5> HIDE DEF op
        <5> QED
          BY <3>1, <5>1, <5>2, RouteMoves
      <4>2. x \in Extractions => SessionOf(x) = via[x]
        BY DEF SessionOf
      <4> QED
        BY <4>1, <4>2
    <3> QED
      BY <3>3, <3>4
  <2>4. \A i \in Extractions : i # x => Alive(i)'
    BY <2>1, <2>2, <2>3, Used DEF AliveInv, TypeOK, client, Callers
  <2>5. call'[x] # NoCall /\ call'[x].answer = answer /\ call'[x].age = call[x].age
    <3>1. call'[x] = [call[x] EXCEPT !.answer = answer]
      BY <2>1 DEF TypeOK
    <3>2. call'[x] \in Calls /\ call'[x].answer = answer /\ call'[x].age = call[x].age
      BY <2>1, <2>2, <3>1 DEF Calls
    <3> QED
      BY <3>2, NoCallAssumption
  <2>6. CASE x \in Extractions /\ pc[x] \in Engaged \cup {"creating"}
    <3>1. via[x] \in Connects /\ Alive(x)
      BY <2>6 DEF AliveInv, Alive, TypeOK
    <3>2. idle[via[x]] \in Nat /\ idle'[via[x]] \in Nat /\ idle'[via[x]] <= idle[via[x]]
      BY <2>3, <3>1 DEF TypeOK
    <3>3. Alive(x)'
      BY <2>2, <2>3, <2>5, <2>6, <3>1, <3>2, Bounds DEF Alive, Engaged, client, Answers
    <3> QED
      BY <2>4, <3>3 DEF AliveInv
  <2>7. CASE x \in Extractions /\ pc[x] \notin Engaged \cup {"creating"}
    <3>1. Alive(x)'
      BY <2>2, <2>7 DEF Alive, Engaged, client
    <3> QED
      BY <2>4, <3>1 DEF AliveInv
  <2> QED
    BY <2>4, <2>6, <2>7 DEF AliveInv
<1>10. ASSUME NEW r \in strays, HandleStray(r) PROVE AliveInv'
  <2>1. PICK answer \in Answers : Route(r.from, r.op, r.n, answer)
    BY <1>10 DEF HandleStray, RequestInv, TypeOK
  <2>2. /\ r.from \in Callers /\ r.n \in 0..Chunks /\ RequestOk(r, r.from)
        /\ strays' = strays \ {r}
        /\ UNCHANGED <<client, call, poll>>
    BY <1>10 DEF HandleStray, RequestInv, TypeOK
  <2>3. /\ \A c \in Connects : idle'[c] = idle[c] \/ idle'[c] = 0
        /\ sessions \subseteq sessions'
    <3>1. ServerType /\ (r.op = "session" => r.from \in Connects) /\ (r.op = "chunk" => r.n < Chunks)
      BY <2>2, TypeParts DEF RequestOk
    <3>2. /\ \A c \in Connects : idle'[c] = idle[c] \/ idle'[c] = 0
          /\ (r.op = "session" => OpenSession(r.from, answer))
          /\ (r.op # "session" => UNCHANGED sessions)
      BY <2>1, <2>2, <3>1, RouteMoves
    <3> QED
      BY <3>2 DEF OpenSession
  <2> QED
    BY <2>2, <2>3, Used DEF AliveInv, client
<1>11. CASE CodeExpires
  BY <1>11, Unmoved DEF AliveInv, CodeExpires, client
<1>12. CASE Tick
  <2> SUFFICES ASSUME NEW e \in Extractions PROVE Alive(e)'
    BY DEF AliveInv
  <2>1. /\ (call'[e] = NoCall) <=> (call[e] = NoCall)
        /\ call[e] # NoCall => call'[e].answer = call[e].answer
                              /\ call'[e].age = call[e].age + 1
    BY <1>12, OlderRequest DEF Tick, TypeOK, Callers
  <2>2. /\ (poll'[e] = NoCall) <=> (poll[e] = NoCall)
        /\ poll[e] # NoCall =>
             /\ poll'[e].answer = poll[e].answer
             /\ pc[e] = "following" \/ poll[e].answer = "more" =>
                  poll'[e].age = poll[e].age + 1
             /\ pc[e] = "following" => poll[e].answer # "last"
    BY <1>12, OlderRequest DEF Tick, TypeOK, Ended
  <2>3. UNCHANGED <<sessions, pc, via>>
    BY <1>12 DEF Tick, client
  <2>4. Alive(e)
    BY DEF AliveInv
  <2>5. CASE pc[e] \in Engaged \cup {"creating"}
    <3>1. via[e] \in Connects
      BY <2>4, <2>5 DEF Alive, TypeOK
    <3>2. idle[via[e]] \in Nat /\ idle'[via[e]] \in Nat /\ idle'[via[e]] <= idle[via[e]] + 1
      BY <1>12, <3>1 DEF Tick, TypeOK
    <3> QED
      BY <2>1, <2>2, <2>3, <2>4, <3>2, Bounds DEF Alive, Engaged
  <2>6. CASE pc[e] \notin Engaged \cup {"creating"}
    BY <2>3, <2>6 DEF Alive, Engaged
  <2> QED
    BY <2>5, <2>6
<1>13. CASE UNCHANGED vars
  BY <1>13, Unmoved DEF AliveInv, vars, server, client
<1> QED
  BY <1>1, <1>2, <1>3, <1>4, <1>5, <1>6, <1>7, <1>8, <1>9, <1>10, <1>11, <1>12, <1>13 DEF Next

-----------------------------------------------------------------------------
(* The theorems.                                                           *)

LEMMA Initially == Init => IInv
<1> SUFFICES ASSUME Init PROVE IInv
  OBVIOUS
<1> USE ConstantsAssumption DEF Init
<1>1. TypeOK
  BY DEF TypeOK, Callers
<1>2. RequestInv
  BY DEF RequestInv
<1>3. PairingInv
  BY DEF PairingInv, Callers
<1>4. DocumentInv
  BY DEF DocumentInv, Fed, Kept, Callers
<1>5. LeftoverInv
  BY DEF LeftoverInv, New, Callers
<1>6. AliveInv
  BY DEF AliveInv, Alive, Engaged, Callers
<1> QED
  BY <1>1, <1>2, <1>3, <1>4, <1>5, <1>6 DEF IInv

LEMMA Inductive == IInv /\ [Next]_vars => IInv'
  BY TypeStep, RequestStep, PairingStep, DocumentStep, LeftoverStep, AliveStep DEF IInv

LEMMA Invariance == Spec => []IInv
  BY Initially, Inductive, PTL DEF Spec

\* Every variable of the client, the bridge and the jobs has its type.
THEOREM TypeCorrect == Spec => []TypeOK
<1>1. IInv => TypeOK
  BY DEF IInv
<1> QED
  BY <1>1, Invariance, PTL

\* A document the client returns is whole, for any number of chunks and however late
\* requests are handled.
THEOREM DocumentsAreWhole == Spec => []ReturnedDocumentsAreWhole
<1>1. IInv => ReturnedDocumentsAreWhole
  BY DEF IInv, DocumentInv, Whole, Kept, Done, ReturnedDocumentsAreWhole
<1> QED
  BY <1>1, Invariance, PTL

\* An extraction that is over leaves no job at work, and none that waits for input,
\* but for those whose cancel request failed or whose id never arrived.
THEOREM NoJobIsLeftBehind == Spec => []NothingLeftBehind
<1>1. IInv => NothingLeftBehind
  <2>1. ASSUME IInv, NEW e \in Extractions, pc[e] \in Over
        PROVE  /\ phase[e] \notin {"queued", "running"} \/ e \in uncancelled
               /\ phase[e] = "receiving" => e \in uncancelled \/ got[e] = 0
    <3>1. CASE pc[e] \in Kept
      BY <2>1, <3>1 DEF IInv, DocumentInv, Whole, Done
    <3>2. CASE pc[e] \in {"failed", "refused"}
      BY <2>1, <3>2 DEF IInv, LeftoverInv, New, Settled
    <3> QED
      BY <2>1, <3>1, <3>2 DEF Over, Kept
  <2> QED
    BY <2>1 DEF NothingLeftBehind, NothingRunsUnwatched, LeftoversAreExplained
<1> QED
  BY <1>1, Invariance, PTL

\* At most one attempt at pairing gets a session for a code, and where sessions may be
\* idle for three timeouts, none expires while its client looks after a job.
THEOREM SessionsAreHeld ==
    IdleLimit >= 3 * RequestTimeout => (Spec => []SessionsHold)
<1> SUFFICES ASSUME IdleLimit >= 3 * RequestTimeout PROVE Spec => []SessionsHold
  OBVIOUS
<1>1. ASSUME IInv PROVE SessionsHold
  <2>1. OneSessionPerCode
    <3>1. PairingInv
      BY <1>1 DEF IInv
    <3>2. CASE sessions = {}
      BY <3>1, <3>2, FS_EmptySet DEF PairingInv, OneSessionPerCode
    <3>3. CASE sessions # {}
      <4>1. PICK c \in sessions : sessions = {c}
        BY <3>1, <3>3 DEF PairingInv
      <4>2. Cardinality(sessions) = 1
        BY <4>1, FS_Singleton
      <4> QED
        BY <3>1, <4>2 DEF PairingInv, OneSessionPerCode
    <3> QED
      BY <3>2, <3>3
  <2>2. EngagedSessionsStayAlive
    <3> SUFFICES ASSUME NEW e \in Extractions, pc[e] \in Engaged
                 PROVE  via[e] \in sessions /\ idle[via[e]] <= IdleLimit
      BY DEF EngagedSessionsStayAlive
    <3>1. AliveInv /\ TypeOK
      BY <1>1 DEF IInv
    <3>2. via[e] \in sessions /\ idle[via[e]] \in Nat
      BY <3>1 DEF AliveInv, Alive, TypeOK
    <3>3. /\ call[e] # NoCall => call[e].age \in 0..RequestTimeout
          /\ poll[e] # NoCall => poll[e].age \in 0..RequestTimeout
      BY <3>1 DEF TypeOK, Calls, Callers
    <3>4. idle[via[e]] <= 3 * RequestTimeout
      BY <3>1, <3>2, <3>3, ConstantsAssumption DEF AliveInv, Alive, Engaged
    <3> QED
      BY <3>2, <3>4, ConstantsAssumption
  <2> QED
    BY <1>1, <2>1, <2>2 DEF SessionsHold, IInv
<1>2. IInv => SessionsHold
  BY <1>1
<1> QED
  BY <1>2, Invariance, PTL
=============================================================================

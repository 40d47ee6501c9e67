--------------------------- MODULE CompanionClient ---------------------------
(***************************************************************************)
(* A document that is extracted by the Companion of a browser: pairing and *)
(* the extraction of a batch in features/companion/bridge.js, the routes   *)
(* and sessions of companion-bridge, and between them requests that are    *)
(* lost, time out, or are handled after their sender gave up.  Of the      *)
(* manager behind the bridge only JobLifecycle is used, which JobManager   *)
(* implements.                                                             *)
(*                                                                         *)
(* Every extraction creates one job, with a key of its own, so the job has *)
(* the name of the extraction.  Time advances in steps of the wait of an   *)
(* event poll.                                                             *)
(***************************************************************************)
EXTENDS Naturals, FiniteSets

CONSTANTS
    Connects,       \* attempts to pair: the link's fragment, the settings form
    Extractions,    \* batches handed to the Companion, each with one job
    Chunks,         \* chunks of the document
    Minor,          \* minor protocol version of the Companion
    RequestTimeout, \* steps until a request is given up (controlTimeoutMs)
    IdleLimit,      \* steps until a session that is not used expires
    MaxActive, MaxResults, \* limits of the manager
    NoBridge, NoCall

ASSUME ConstantsAssumption ==
    /\ Chunks \in Nat \ {0}
    /\ Minor \in 0..4
    /\ RequestTimeout \in Nat \ {0}
    /\ IdleLimit \in Nat
    /\ Connects \cap Extractions = {}
    /\ NoBridge \notin Connects

VARIABLES
    phase,      \* the manager's jobs, see JobLifecycle
    available,  \* jobs whose result the manager keeps
    got,        \* chunks the manager accepted for a job
    code,       \* the pairing code: "fresh", "used" or "expired"
    sessions,   \* attempts to which the bridge granted a session
    idle,       \* steps since a session was last used
    pc,         \* where an attempt to pair or an extraction stands
    call,       \* the request it waits for
    poll,       \* the event poll of an extraction's subscription
    strays,     \* requests whose sender gave up and that may still be handled
    bridge,     \* the attempt whose bridge the application uses
    via,        \* the bridge an extraction was started with
    stopped,    \* extractions whose signal was aborted
    uncancelled \* extractions whose cancel request failed (history)

server == <<phase, available, got, code, sessions, idle>>
client == <<pc, bridge, via, stopped, uncancelled>>
vars == <<server, client, call, poll, strays>>

Manager == INSTANCE JobLifecycle WITH Jobs <- Extractions

Callers == Connects \cup Extractions

\* Extractions whose job the client knows and looks after.
Engaged == {"uploading", "completing", "following", "fetching", "cancelling"}
Over == {"refused", "failed", "returned", "saved", "acknowledged", "retained"}

\* The metadata of a document's job and what the client's own check of a request
\* lets through.
RequestFields(minor) ==
    {"schema", "selectedPages", "ocrAccuracy", "ocrLanguage", "useOcr", "forceOcr",
     "password"} \cup (IF minor >= 4 THEN {"extractEquations"} ELSE {})
AcceptedFields ==
    {"schema", "selectedPages", "ocrAccuracy", "ocrLanguage", "useOcr", "forceOcr",
     "password"}
JobRequestValid == RequestFields(Minor) \subseteq AcceptedFields

Request(op, n) == [op |-> op, n |-> n, answer |-> "none", age |-> 0]
Poll == Request("events", 0)
Answers == {"none", "ok", "more", "last", "no"}
Ops == {"session", "capabilities", "create", "chunk", "complete", "events",
        "result", "cancel", "acknowledge"}
Calls == [op : Ops, n : 0..Chunks, answer : Answers, age : 0..RequestTimeout]

ASSUME NoCallAssumption == NoCall \notin Calls

Init ==
    /\ phase = [e \in Extractions |-> "absent"]
    /\ available = {}
    /\ got = [e \in Extractions |-> 0]
    /\ code = "fresh"
    /\ sessions = {}
    /\ idle = [c \in Connects |-> 0]
    /\ pc = [x \in Callers |-> "idle"]
    /\ call = [x \in Callers |-> NoCall]
    /\ poll = [e \in Extractions |-> NoCall]
    /\ strays = {}
    /\ bridge = NoBridge
    /\ via = [e \in Extractions |-> NoBridge]
    /\ stopped = {}
    /\ uncancelled = {}
-----------------------------------------------------------------------------
(* The client.  An action is what runs up to the next await: it consumes   *)
(* the answer of the last request and sends the next one.                  *)

Goto(x, next, request) ==
    /\ pc' = [pc EXCEPT ![x] = next]
    /\ call' = [call EXCEPT ![x] = request]

Answered(x, at, answer) ==
    /\ pc[x] = at
    /\ call[x] # NoCall
    /\ call[x].answer = answer

\* A sent request whose sender no longer waits may or may not reach the bridge.
Abandon(x) ==
    strays' = strays \cup
        (IF call[x] # NoCall /\ call[x].answer = "none"
         THEN {[from |-> x, op |-> call[x].op, n |-> call[x].n]} ELSE {})

\* connect() with an endpoint and a code.
Connect(c) ==
    /\ pc[c] = "idle"
    /\ Goto(c, "pairing", Request("session", 0))
    /\ UNCHANGED <<server, poll, strays, bridge, via, stopped, uncancelled>>

\* The bridge has its session before it asks for the capabilities.
Paired(c) ==
    /\ Answered(c, "pairing", "ok")
    /\ Goto(c, "asking", Request("capabilities", 0))
    /\ UNCHANGED <<server, poll, strays, bridge, via, stopped, uncancelled>>

\* The application uses the bridge that connected last.
Connected(c) ==
    /\ Answered(c, "asking", "ok")
    /\ Goto(c, "connected", NoCall)
    /\ bridge' = c
    /\ UNCHANGED <<server, poll, strays, via, stopped, uncancelled>>

\* connect() turns every failure into a status that is not "connected".
ConnectFails(c) ==
    /\ pc[c] \in {"pairing", "asking"}
    /\ call[c].answer \in {"none", "no"}
    /\ Goto(c, "failed", NoCall)
    /\ Abandon(c)
    /\ UNCHANGED <<server, poll, bridge, via, stopped, uncancelled>>

\* extractDocument() up to the request that creates the job; a request that fails
\* its own check is never sent.
Extract(e) ==
    /\ pc[e] = "idle"
    /\ bridge # NoBridge
    /\ via' = [via EXCEPT ![e] = bridge]
    /\ IF JobRequestValid THEN Goto(e, "creating", Request("create", 0))
                          ELSE Goto(e, "refused", NoCall)
    /\ UNCHANGED <<server, poll, strays, bridge, stopped, uncancelled>>

\* Once its id is known the job is followed and its input sent.
JobCreated(e) ==
    /\ Answered(e, "creating", "ok")
    /\ Goto(e, "uploading", Request("chunk", 0))
    /\ poll' = [poll EXCEPT ![e] = Poll]
    /\ UNCHANGED <<server, strays, bridge, via, stopped, uncancelled>>

\* Creating the job is outside of the block that cancels it.
CreateFails(e) ==
    /\ pc[e] = "creating"
    /\ call[e].answer \in {"none", "no"}
    /\ Goto(e, "failed", NoCall)
    /\ Abandon(e)
    /\ UNCHANGED <<server, poll, bridge, via, stopped, uncancelled>>

ChunkSent(e) ==
    /\ Answered(e, "uploading", "ok")
    /\ LET sent == call[e].n + 1
       IN IF sent < Chunks THEN Goto(e, "uploading", Request("chunk", sent))
                           ELSE Goto(e, "completing", Request("complete", 0))
    /\ UNCHANGED <<server, poll, strays, bridge, via, stopped, uncancelled>>

InputCompleted(e) ==
    /\ Answered(e, "completing", "ok")
    /\ Goto(e, "following", NoCall)
    /\ UNCHANGED <<server, poll, strays, bridge, via, stopped, uncancelled>>

\* The subscription asks again until a page is terminal.
EventsArrive(e) ==
    /\ poll[e] # NoCall
    /\ poll[e].answer = "more"
    /\ poll' = [poll EXCEPT ![e] = Poll]
    /\ UNCHANGED <<server, client, call, strays>>

\* The job is over: its result is fetched, whichever way it ended.
FollowingEnds(e) ==
    /\ pc[e] = "following"
    /\ poll[e].answer = "last"
    /\ Goto(e, "fetching", Request("result", 0))
    /\ UNCHANGED <<server, poll, strays, bridge, via, stopped, uncancelled>>

\* Mutant: a refused result is returned like a good one.
ResultArrivesUnchecked(e) ==
    /\ Answered(e, "fetching", "ok") \/ Answered(e, "fetching", "no")
    /\ Goto(e, "returned", NoCall)
    /\ poll' = [poll EXCEPT ![e] = NoCall]
    /\ UNCHANGED <<server, strays, bridge, via, stopped, uncancelled>>
ResultArrives(e) ==
    /\ Answered(e, "fetching", "ok")
    /\ Goto(e, "returned", NoCall)
    /\ poll' = [poll EXCEPT ![e] = NoCall]
    /\ UNCHANGED <<server, strays, bridge, via, stopped, uncancelled>>

\* Mutant: a failure ends the extraction without cancelling its job.
FailWithoutCancel(e) ==
    /\ \/ /\ pc[e] \in {"uploading", "completing", "fetching"}
          /\ call[e].answer \in {"none", "no"}
       \/ /\ pc[e] = "following"
          /\ poll[e].answer \in {"none", "no"}
    /\ Goto(e, "failed", NoCall)
    /\ Abandon(e)
    /\ UNCHANGED <<server, poll, bridge, via, stopped, uncancelled>>

\* Any failure after the job was created, a refused or lost poll of the
\* subscription once it is waited for included, cancels the job.
Fail(e) ==
    /\ \/ /\ pc[e] \in {"uploading", "completing", "fetching"}
          /\ call[e].answer \in {"none", "no"}
       \/ /\ pc[e] = "following"
          /\ poll[e].answer \in {"none", "no"}
    /\ Goto(e, "cancelling", Request("cancel", 0))
    /\ Abandon(e)
    /\ UNCHANGED <<server, poll, bridge, via, stopped, uncancelled>>

\* A poll that is lost or times out while the input is still sent is only noticed
\* when the subscription is waited for.
PollFails(e) ==
    /\ pc[e] \in {"uploading", "completing"}
    /\ poll[e] # NoCall
    /\ poll[e].answer = "none"
    /\ poll' = [poll EXCEPT ![e].answer = "no"]
    /\ UNCHANGED <<server, client, call, strays>>

\* The user stops the run: what is awaited rejects at once.  The request that
\* cancels the job is sent without the signal.
Stop(e) ==
    /\ e \notin stopped
    /\ pc[e] \in (Engaged \cup {"creating"}) \ {"cancelling"}
    /\ stopped' = stopped \cup {e}
    /\ IF pc[e] = "creating" THEN Goto(e, "failed", NoCall)
       ELSE Goto(e, "cancelling", Request("cancel", 0))
    /\ poll' = [poll EXCEPT ![e] = NoCall]
    /\ Abandon(e)
    /\ UNCHANGED <<server, bridge, via, uncancelled>>

\* Whether or not the job could be cancelled, the error is passed on and the
\* subscription stopped.
CancelEnds(e) ==
    /\ pc[e] = "cancelling"
    /\ Goto(e, "failed", NoCall)
    /\ poll' = [poll EXCEPT ![e] = NoCall]
    /\ uncancelled' = IF call[e].answer = "ok" THEN uncancelled
                      ELSE uncancelled \cup {e}
    /\ Abandon(e)
    /\ UNCHANGED <<server, bridge, via, stopped>>

\* The pages are durable: the result is acknowledged with the bridge in use when
\* the batch began.
Acknowledge(e) ==
    /\ pc[e] = "returned"
    /\ Goto(e, "saved", Request("acknowledge", 0))
    /\ UNCHANGED <<server, poll, strays, bridge, via, stopped, uncancelled>>

AcknowledgeEnds(e) ==
    /\ pc[e] = "saved"
    /\ call[e] # NoCall
    /\ Goto(e, IF call[e].answer = "ok" THEN "acknowledged" ELSE "retained", NoCall)
    /\ Abandon(e)
    /\ UNCHANGED <<server, poll, bridge, via, stopped, uncancelled>>
-----------------------------------------------------------------------------
(* The bridge.                                                             *)

SessionOf(x) == IF x \in Connects THEN x ELSE via[x]

\* authenticated(): the session exists and was used recently enough.
Authentic(x) == SessionOf(x) \in sessions /\ idle[SessionOf(x)] <= IdleLimit
Refresh(x) == idle' = [idle EXCEPT ![SessionOf(x)] = 0]

Unserved == UNCHANGED <<phase, available, got>>

\* Mutant: only a completed job ends the subscription.
ProgressOnlyCompletion(e) ==
    CASE phase[e] = "removed" -> "no"
      [] phase[e] = "completed" -> "last"
      [] OTHER -> "more"

\* What a poll is told of a job.
Progress(e) ==
    CASE phase[e] = "removed" -> "no"
      [] phase[e] \in Manager!Terminal -> "last"
      [] OTHER -> "more"

Fetch(e, answer) ==
    /\ answer = IF phase[e] = "completed" /\ e \in available THEN "ok" ELSE "no"
    /\ Unserved

\* What the manager does with an authenticated request, and its answer.
Serve(e, op, n, answer) ==
    \/ /\ op = "create"
       /\ answer = "ok"
       /\ Manager!Accept(e)
       /\ UNCHANGED got
    \/ /\ op = "create" \* the desktop's jobs may fill the manager as well
       /\ answer = "no"
       /\ Unserved
    \/ /\ op = "chunk"
       /\ IF phase[e] = "receiving" /\ got[e] = n
          THEN answer = "ok" /\ got' = [got EXCEPT ![e] = n + 1]
          ELSE answer = "no" /\ UNCHANGED got
       /\ UNCHANGED <<phase, available>>
    \/ /\ op = "complete"
       /\ IF phase[e] = "receiving" /\ got[e] = Chunks
          THEN answer = "ok" /\ Manager!Enqueue(e)
          ELSE answer = "no" /\ UNCHANGED <<phase, available>>
       /\ UNCHANGED got
    \/ /\ op = "events"
       /\ answer = Progress(e)
       /\ Unserved
    \/ /\ op = "result"
       /\ Fetch(e, answer)
    \/ /\ op = "cancel"
       /\ UNCHANGED got
       /\ CASE phase[e] \in Manager!Pending -> answer = "ok" /\ Manager!Withdraw({e}, {})
            [] phase[e] = "running" -> answer = "ok" /\ Manager!RequestStop(e)
            [] OTHER -> /\ answer = IF phase[e] \in {"absent", "removed"} THEN "no" ELSE "ok"
                        /\ UNCHANGED <<phase, available>>
    \/ /\ op = "acknowledge"
       /\ IF phase[e] = "completed"
          THEN answer = "ok" /\ Manager!Acknowledge(e)
          ELSE answer = "no" /\ UNCHANGED <<phase, available>>
       /\ UNCHANGED got

\* Mutant: a code that was used opens another session.
OpenSessionAgain(x, answer) ==
    IF code # "expired"
    THEN answer = "ok" /\ UNCHANGED code /\ sessions' = sessions \cup {x} /\ Refresh(x)
    ELSE answer = "no" /\ UNCHANGED <<code, sessions, idle>>

\* A code that was used or is too old opens nothing.
OpenSession(x, answer) ==
    IF code = "fresh"
    THEN answer = "ok" /\ code' = "used" /\ sessions' = sessions \cup {x} /\ Refresh(x)
    ELSE answer = "no" /\ UNCHANGED <<code, sessions, idle>>

\* The handler of a route, from its session check to its answer.
Route(x, op, n, answer) ==
    IF op = "session"
    THEN OpenSession(x, answer) /\ Unserved
    ELSE /\ IF ~Authentic(x)
            THEN answer = "no" /\ UNCHANGED idle /\ Unserved
            ELSE /\ Refresh(x)
                 /\ IF op = "capabilities" THEN answer = "ok" /\ Unserved
                                           ELSE Serve(x, op, n, answer)
         /\ UNCHANGED <<code, sessions>>

HandleCall(x) ==
    /\ call[x] # NoCall
    /\ call[x].answer = "none"
    /\ \E answer \in Answers \ {"none"} :
        /\ Route(x, call[x].op, call[x].n, answer)
        /\ call' = [call EXCEPT ![x].answer = answer]
    /\ UNCHANGED <<client, poll, strays>>

HandlePoll(e) ==
    /\ poll[e] # NoCall
    /\ poll[e].answer = "none"
    /\ \E answer \in Answers \ {"none"} :
        /\ Route(e, "events", 0, answer)
        /\ poll' = [poll EXCEPT ![e].answer = answer]
    /\ UNCHANGED <<client, call, strays>>

HandleStray(r) ==
    /\ \E answer \in Answers : Route(r.from, r.op, r.n, answer)
    /\ strays' = strays \ {r}
    /\ UNCHANGED <<client, call, poll>>

\* PAIRING_TTL_SECS pass before the code was used.
CodeExpires ==
    /\ code = "fresh"
    /\ code' = "expired"
    /\ UNCHANGED <<phase, available, got, sessions, idle, client, call, poll, strays>>
-----------------------------------------------------------------------------
(* The manager's own steps, and time.                                      *)

Work(e) ==
    /\ \/ Manager!Start(e) \/ Manager!Complete(e) \/ Manager!Stop(e)
    /\ UNCHANGED <<got, code, sessions, idle, client, call, poll, strays>>

\* The sweep gives up jobs without input for ABANDONED_JOB_TTL_SECS, which no upload
\* that is under way is, and queued ones, and forgets finished ones that nobody
\* follows.
Sweep(e) ==
    /\ pc[e] \in Over \/ phase[e] = "queued"
    /\ \/ phase[e] \in Manager!Pending /\ Manager!Withdraw({e}, {})
       \/ phase[e] \in Manager!Terminal /\ Manager!Withdraw({}, {e})
    /\ UNCHANGED <<got, code, sessions, idle, client, call, poll, strays>>

\* A subscription that has ended waits for nothing.
Ended(p) == p # NoCall /\ p.answer \in {"last", "no"}
Older(r) == IF r = NoCall \/ Ended(r) THEN r ELSE [r EXCEPT !.age = @ + 1]
Overdue(r) == r # NoCall /\ r.age = RequestTimeout

\* A request is given up when its time is over, and the page's scripts run without
\* delay, so time waits for both.
Tick ==
    /\ \A x \in Callers : call[x] # NoCall => ~Ended(call[x]) /\ ~Overdue(call[x])
    /\ \A e \in Extractions :
        /\ ~Overdue(poll[e]) \/ Ended(poll[e])
        /\ pc[e] = "following" => ~Ended(poll[e])
    /\ call' = [x \in Callers |-> Older(call[x])]
    /\ poll' = [e \in Extractions |-> Older(poll[e])]
    /\ idle' = [c \in Connects |->
                  IF c \in sessions /\ idle[c] <= IdleLimit THEN idle[c] + 1 ELSE idle[c]]
    /\ UNCHANGED <<phase, available, got, code, sessions, client, strays>>

ConnectStep(c) == Connect(c) \/ Paired(c) \/ Connected(c) \/ ConnectFails(c)
ClientStep(e) ==
    \/ JobCreated(e) \/ CreateFails(e) \/ ChunkSent(e) \/ InputCompleted(e)
    \/ FollowingEnds(e) \/ ResultArrives(e) \/ Fail(e) \/ CancelEnds(e)
    \/ AcknowledgeEnds(e)
SubscriptionStep(e) == EventsArrive(e) \/ PollFails(e)

Next ==
    \/ \E c \in Connects : ConnectStep(c)
    \/ \E e \in Extractions :
        \/ Extract(e) \/ ClientStep(e) \/ SubscriptionStep(e) \/ Stop(e)
        \/ Acknowledge(e) \/ HandlePoll(e) \/ Work(e) \/ Sweep(e)
    \/ \E x \in Callers : HandleCall(x)
    \/ \E r \in strays : HandleStray(r)
    \/ CodeExpires
    \/ Tick

Spec == Init /\ [][Next]_vars

\* The bridge answers, the page's scripts run, and the manager ends what it starts.
\* Nothing is assumed of time, of users or of the sweep.
FairSpec ==
    /\ Spec
    /\ \A e \in Extractions :
        /\ WF_vars(ClientStep(e)) /\ WF_vars(SubscriptionStep(e))
        /\ WF_vars(HandlePoll(e)) /\ WF_vars(Work(e))
    /\ \A x \in Callers : WF_vars(HandleCall(x))
-----------------------------------------------------------------------------
TypeOK ==
    /\ phase \in [Extractions -> {"absent", "removed"} \cup Manager!Pending
                                 \cup Manager!Busy \cup Manager!Terminal]
    /\ available \subseteq Extractions
    /\ got \in [Extractions -> 0..Chunks]
    /\ code \in {"fresh", "used", "expired"}
    /\ sessions \subseteq Connects
    /\ idle \in [Connects -> 0..IdleLimit + 1]
    /\ pc \in [Callers -> {"idle", "pairing", "asking", "connected", "creating"}
                          \cup Engaged \cup Over]
    /\ call \in [Callers -> Calls \cup {NoCall}]
    /\ poll \in [Extractions -> Calls \cup {NoCall}]
    /\ strays \subseteq [from : Callers, op : Ops, n : 0..Chunks]
    /\ bridge \in Connects \cup {NoBridge}
    /\ via \in [Extractions -> Connects \cup {NoBridge}]
    /\ stopped \subseteq Extractions
    /\ uncancelled \subseteq Extractions

\* One pairing code opens at most one session, however many attempts race for it,
\* and a bridge the application uses has it.
OneSessionPerCode ==
    /\ Cardinality(sessions) <= 1
    /\ sessions # {} => code = "used"
    /\ bridge # NoBridge => bridge \in sessions

\* A document the client returns is that of a job which was given every chunk
\* and ran to its end, though requests may be handled late or out of their turn.
ReturnedDocumentsAreWhole ==
    \A e \in Extractions :
        pc[e] \in {"returned", "saved", "acknowledged", "retained"} =>
            /\ got[e] = Chunks
            /\ phase[e] \in {"completed", "removed"}
            /\ e \notin stopped

\* No job is worked on for an extraction that is over, unless the request that
\* cancels it failed: one whose creation was lost never gets its input.
NothingRunsUnwatched ==
    \A e \in Extractions :
        pc[e] \in Over /\ phase[e] \in {"queued", "running"} => e \in uncancelled

\* A job that waits for input after its extraction is over either had its id lost
\* with the answer, or could not be cancelled.
LeftoversAreExplained ==
    \A e \in Extractions :
        pc[e] \in Over /\ phase[e] = "receiving" => e \in uncancelled \/ got[e] = 0

\* The polls of an extraction keep its session alive: none expires under a job its
\* client looks after, so that its cancel request is never refused.
EngagedSessionsStayAlive ==
    \A e \in Extractions :
        pc[e] \in Engaged => via[e] \in sessions /\ idle[via[e]] <= IdleLimit

\* One code gives one session, and it lasts as long as the client needs it.
SessionsHold == TypeOK /\ OneSessionPerCode /\ EngagedSessionsStayAlive

\* An extraction that is over leaves no job behind, but for the ones that the client
\* could not know of or could not reach.
NothingLeftBehind == NothingRunsUnwatched /\ LeftoversAreExplained

\* Every extraction that sent its request comes to an end, even when answers are lost
\* and the user does nothing.
ExtractionsEnd ==
    \A e \in Extractions : pc[e] \in Engaged \cup {"creating"} ~> pc[e] \in Over

\* A request the client builds for the version it negotiated passes its own check.
\* The code does not have this property: see "Divergences" in the README.
RequestsAreAcceptable == \A e \in Extractions : pc[e] # "refused"
=============================================================================

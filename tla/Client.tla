------------------------------- MODULE Client -------------------------------
(***************************************************************************)
(* AsyncTydomClient (tydomio/client.py) and PendingRequests                *)
(* (tydomio/pending_requests.py): the life of run_websocket, one           *)
(* connection after another, and the sends that wait on it for responses   *)
(* correlated by transaction id.                                           *)
(*                                                                         *)
(* One caller is one task with at most one send in flight, so the caller   *)
(* identifies the future of its send.  `ready' is the part of asyncio's    *)
(* FIFO ready queue whose order the client promises something about: the   *)
(* first step of each push handler and the wakeup of each answered send.   *)
(***************************************************************************)
EXTENDS Naturals, Integers, Sequences, FiniteSets

CONSTANTS
  Breaking,    \* tasks of the connection whose failed send ends it: the ping
  Routines,    \* tasks of the connection that survive a failed send: the sync
  Outer,       \* tasks that outlive the connection: the MCP tool calls
  Tids,        \* transaction ids
  Resend,      \* whether a request object may be sent more than once
  Unasked,     \* kinds of messages the Tydom sends without being asked
  MaxInbox,    \* bound on the messages on their way to the client
  MaxHandlers, \* bound on the push handlers created and not started
  None,        \* no caller, or no transaction id
  Handler      \* a push handler waiting in the ready queue for its first step

Callers == Breaking \cup Routines \cup Outer
Inner == Breaking \cup Routines

ASSUME CallersDisjoint ==
  /\ Breaking \cap Routines = {} /\ Breaking \cap Outer = {}
  /\ Routines \cap Outer = {}
ASSUME NoneAndHandlerApart == None \notin Callers \cup Tids /\ Handler \notin Callers
ASSUME ResendIsBoolean == Resend \in BOOLEAN
ASSUME UnaskedKinds == Unasked \subseteq {"push", "malformed", "text", "poison"}
ASSUME BoundsAreNat == MaxInbox \in Nat /\ MaxHandlers \in Nat

VARIABLES
  run,        \* where run_websocket is suspended, or how it ended
  errors,     \* kinds of errors raised in the connection's task group
  cancelling, \* a cancellation of run_websocket not delivered yet
  websocket,  \* whether self._websocket is set
  connected,  \* self._connected
  reading,    \* whether _read_messages is running
  link,       \* whether the websocket is open
  inbox,      \* messages for _read_messages, oldest first
  outbox,     \* requests the Tydom has received and not answered
  futures,    \* PendingRequests._futures: caller owning each transaction id
  call,       \* what each caller's send is doing, or how its last one ended
  tid,        \* the transaction id of the send in flight
  future,     \* the future of the send in flight
  interrupt,  \* why the task of the send was cancelled, if it was
  ready,      \* callbacks in asyncio's ready queue, next one first
  owed        \* push handlers to start before an answered send resumes

clientVars == <<cancelling, websocket, connected>>
runVars  == <<run, errors, reading, clientVars>>
linkVars == <<link, inbox, outbox>>
sendVars == <<futures, call, tid, future, interrupt>>
loopVars == <<ready, owed>>
vars == <<runVars, linkVars, sendVars, loopVars>>

Final == {"returned", "cancelled", "failed"}
\* "exiting" is _disconnect with the local `exiting' set.
Phases == Final \cup {"authorizing", "authPause", "opening", "connected", "unwinding",
                      "closing", "disconnecting", "exiting", "pausing"}
\* "severed": in the send of a websocket that has closed meanwhile
InFlight == {"sending", "severed", "waiting"}
Outcomes == {"idle", "answered", "unanswered", "cancelled", "refused", "raised"}
Futures == {"none", "pending", "answered", "misanswered", "failed", "cancelled"}
Kinds == {"response", "push", "malformed", "text", "poison"}
Requests == [tid : Tids, to : Callers \cup {None}]
Responses == [kind : {"response"}, tid : Tids, to : Callers \cup {None}]
Others == [kind : Kinds \ {"response"}, tid : {None}, to : {None}]
Messages == Responses \cup Others

TypeOK ==
  /\ run \in Phases /\ errors \subseteq {"lost", "fatal"}
  /\ cancelling \in BOOLEAN /\ websocket \in BOOLEAN /\ connected \in BOOLEAN
  /\ reading \in BOOLEAN /\ link \in BOOLEAN
  /\ inbox \in Seq(Messages) /\ outbox \subseteq Requests
  /\ futures \in [Tids -> Callers \cup {None}]
  /\ call \in [Callers -> InFlight \cup Outcomes]
  /\ tid \in [Callers -> Tids \cup {None}]
  /\ future \in [Callers -> Futures]
  /\ interrupt \in [Callers -> {"no", "timeout", "cancel"}]
  /\ ready \in Seq(Callers \cup {Handler}) /\ owed \in [Callers -> Int]

Init ==
  /\ run = "authorizing" /\ errors = {}
  /\ cancelling = FALSE /\ websocket = FALSE /\ connected = FALSE
  /\ reading = FALSE /\ link = FALSE /\ inbox = <<>> /\ outbox = {}
  /\ futures = [t \in Tids |-> None] /\ tid = [c \in Callers |-> None]
  /\ call = [c \in Callers |-> "idle"] /\ future = [c \in Callers |-> "none"]
  /\ interrupt = [c \in Callers |-> "no"]
  /\ ready = <<>> /\ owed = [c \in Callers |-> 0]

-----------------------------------------------------------------------------
(* PendingRequests                                                         *)

Register(t, c) == futures' = [futures EXCEPT ![t] = c]

\* Mutants: the entry goes whoever owns it; it stays when the task is cancelled.
AbandonWhoever(c) == futures' = [t \in Tids |-> IF t = tid[c] THEN None ELSE futures[t]]
AbandonUnlessCancelled(c) ==
  futures' = [t \in Tids |-> IF t = tid[c] /\ futures[t] = c /\ interrupt[c] # "cancel"
                              THEN None ELSE futures[t]]

\* Only the send that still owns the transaction id is forgotten.
Abandon(c) ==
  futures' = [t \in Tids |-> IF t = tid[c] /\ futures[t] = c THEN None ELSE futures[t]]

\* Mutant: the pending requests are forgotten without being failed.
FlushSilently == futures' = [t \in Tids |-> None] /\ UNCHANGED future

Flush ==
  /\ future' = [c \in Callers |->
                  IF future[c] = "pending" /\ \E t \in Tids : futures[t] = c
                  THEN "failed" ELSE future[c]]
  /\ futures' = [t \in Tids |-> None]

HandlersReady == {i \in DOMAIN ready : ready[i] = Handler}

\* Mutants: a response nobody waits for is not dropped; the wakeup goes first.
ResolveAnyway(m) ==
  LET c == futures[m.tid] IN
  /\ futures' = [futures EXCEPT ![m.tid] = None]
  /\ future' = [future EXCEPT ![c] = IF m.to = c THEN "answered" ELSE "misanswered"]
  /\ ready' = Append(ready, c)
  /\ UNCHANGED owed
ResolveAtOnce(m) ==
  LET c == futures[m.tid] IN
  /\ futures' = [futures EXCEPT ![m.tid] = None]
  /\ IF c # None /\ future[c] = "pending"
     THEN /\ future' = [future EXCEPT ![c] = "answered"]
          /\ ready' = <<c>> \o ready
          /\ owed' = [owed EXCEPT ![c] = Cardinality(HandlersReady)]
     ELSE UNCHANGED <<future, loopVars>>

\* The future's wakeup is queued behind the handlers already created.
Resolve(m) ==
  LET c == futures[m.tid] IN
  /\ futures' = [futures EXCEPT ![m.tid] = None]
  /\ IF c # None /\ future[c] = "pending"
     THEN /\ future' = [future EXCEPT ![c] = IF m.to = c THEN "answered" ELSE "misanswered"]
          /\ IF call[c] = "waiting"
             THEN /\ ready' = Append(ready, c)
                  /\ owed' = [owed EXCEPT ![c] = Cardinality(HandlersReady)]
             ELSE UNCHANGED loopVars
     ELSE UNCHANGED <<future, loopVars>>

-----------------------------------------------------------------------------
(* AsyncTydomClient.send                                                   *)

\* Mutant: a transaction id is taken again as soon as its send has ended.
FreshOnceEnded(t) == futures[t] = None /\ \A c \in Callers : tid[c] # t

\* TRANSACTION_COUNTER gives every request object a number of its own; a
\* number is used again here once nothing refers to it any more.
Fresh(t) ==
  /\ futures[t] = None
  /\ \A c \in Callers : tid[c] # t
  /\ \A r \in outbox : r.tid # t
  /\ \A i \in DOMAIN inbox : inbox[i].tid # t

Usable(c, t) == Fresh(t) \/ (Resend /\ c \in Outer)

\* A task of the connection runs only while its task group does.
MayBegin(c) ==
  /\ call[c] \notin InFlight
  /\ c \in Inner => run = "connected" /\ call[c] # "raised"
  /\ c \in Breaking => call[c] \in {"idle", "answered"}

\* Mutant: the ping swallows the failure of its send.
EndQuietly(c, outcome, requests) ==
  /\ Abandon(c)
  /\ call' = [call EXCEPT ![c] = outcome] /\ tid' = [tid EXCEPT ![c] = None]
  /\ future' = [future EXCEPT ![c] = "none"]
  /\ interrupt' = [interrupt EXCEPT ![c] = "no"] /\ owed' = [owed EXCEPT ![c] = 0]
  /\ outbox' = {r \in requests : r.to # c}
  /\ UNCHANGED <<runVars, link, inbox>>

\* The finally clause, then the outcome given to the caller's task. What is
\* still on the wire for this send is from now on too late.
EndHaving(c, outcome, requests) ==
  /\ Abandon(c)
  /\ call' = [call EXCEPT ![c] = outcome]
  /\ tid' = [tid EXCEPT ![c] = None]
  /\ future' = [future EXCEPT ![c] = "none"]
  /\ interrupt' = [interrupt EXCEPT ![c] = "no"]
  /\ owed' = [owed EXCEPT ![c] = 0]
  /\ inbox' = [i \in DOMAIN inbox |->
                 IF inbox[i].to = c THEN [inbox[i] EXCEPT !.to = None] ELSE inbox[i]]
  /\ outbox' = {IF r.to = c THEN [r EXCEPT !.to = None] ELSE r : r \in requests}
  /\ errors' = IF c \in Breaking /\ outcome = "unanswered"
               THEN errors \cup {"lost"} ELSE errors
  /\ UNCHANGED <<run, reading, clientVars, link>>

End(c, outcome) == EndHaving(c, outcome, outbox)
Request(c) == [tid |-> tid[c], to |-> c]

Refuse(c, t) ==
  /\ MayBegin(c) /\ Usable(c, t)
  /\ futures[t] # None
  /\ call' = [call EXCEPT ![c] = "refused"]
  /\ UNCHANGED <<runVars, linkVars, futures, tid, future, interrupt, loopVars>>

NotConnected(c, t) ==
  /\ MayBegin(c) /\ Usable(c, t)
  /\ futures[t] = None
  /\ ~websocket
  /\ call' = [call EXCEPT ![c] = "unanswered"]
  /\ UNCHANGED <<runVars, linkVars, futures, tid, future, interrupt, loopVars>>

Begin(c, t) ==
  /\ MayBegin(c) /\ Usable(c, t)
  /\ futures[t] = None
  /\ websocket
  /\ Register(t, c)
  /\ call' = [call EXCEPT ![c] = IF link THEN "sending" ELSE "severed"]
  /\ tid' = [tid EXCEPT ![c] = t]
  /\ future' = [future EXCEPT ![c] = "pending"]
  /\ UNCHANGED <<runVars, linkVars, interrupt, loopVars>>

SendCompletes(c) ==
  /\ call[c] = "sending" /\ interrupt[c] = "no"
  /\ call' = [call EXCEPT ![c] = "waiting"]
  /\ outbox' = outbox \cup {Request(c)}
  /\ UNCHANGED <<runVars, link, inbox, futures, tid, future, interrupt, loopVars>>

\* ConnectionClosed, or the cancellation of the task, leaves websocket.send; a
\* cancelled one may have sent the request.
SendFails(c) ==
  /\ \/ call[c] \in {"sending", "severed"} /\ interrupt[c] = "cancel" /\ End(c, "cancelled")
     \/ /\ call[c] = "sending" /\ interrupt[c] = "cancel"
        /\ EndHaving(c, "cancelled", outbox \cup {Request(c)})
     \/ call[c] = "severed" /\ interrupt[c] = "no" /\ End(c, "unanswered")
  /\ UNCHANGED ready

\* Mutant: tool calls are sent without a timeout.
TimeOutInside(c) ==
  /\ c \in Inner /\ call[c] = "waiting" /\ interrupt[c] = "no"
  /\ interrupt' = [interrupt EXCEPT ![c] = "timeout"]
  /\ future' = [future EXCEPT ![c] = IF @ = "pending" THEN "cancelled" ELSE @]
  /\ UNCHANGED <<runVars, linkVars, futures, call, tid, loopVars>>

\* asyncio.timeout cancels the task, which cancels the future it awaits; a
\* future already done is left as is but its wakeup raises all the same.
TimeOut(c) ==
  /\ call[c] = "waiting" /\ interrupt[c] = "no"
  /\ interrupt' = [interrupt EXCEPT ![c] = "timeout"]
  /\ future' = [future EXCEPT ![c] = IF @ = "pending" THEN "cancelled" ELSE @]
  /\ UNCHANGED <<runVars, linkVars, futures, call, tid, loopVars>>

\* The task of a tool call is cancelled by its own client.
CancelCall(c) ==
  /\ c \in Outer
  /\ call[c] \in InFlight /\ interrupt[c] # "cancel"
  /\ interrupt' = [interrupt EXCEPT ![c] = "cancel"]
  /\ future' = [future EXCEPT
       ![c] = IF @ = "pending" /\ call[c] = "waiting" THEN "cancelled" ELSE @]
  /\ UNCHANGED <<runVars, linkVars, futures, call, tid, loopVars>>

\* What the await of the future gives: its cancellation wins over the timeout,
\* both win over a response, and a response may not parse.
ResumeAs(c) ==
  \/ interrupt[c] = "cancel" /\ End(c, "cancelled")
  \/ interrupt[c] = "timeout" /\ End(c, "unanswered")
  \/ interrupt[c] = "no" /\ future[c] = "failed" /\ End(c, "unanswered")
  \/ /\ interrupt[c] = "no" /\ future[c] \in {"answered", "misanswered"}
     /\ \E outcome \in {"answered", "unanswered"} : End(c, outcome)

\* A send whose future was failed or cancelled, or answered before it waited.
Resume(c) ==
  /\ call[c] = "waiting" /\ future[c] # "pending"
  /\ \A i \in DOMAIN ready : ready[i] # c
  /\ ResumeAs(c)
  /\ UNCHANGED ready

ResumeAnswered(c) ==
  /\ ready # <<>> /\ Head(ready) = c
  /\ ready' = Tail(ready)
  /\ ResumeAs(c)

-----------------------------------------------------------------------------
(* The tasks of the connection                                             *)

\* The first step of a handler's task; cancelled with the group before it, the
\* task ends without calling the handler. An error other than RuntimeError
\* (CacheError) ends the connection.
StartHandler ==
  /\ ready # <<>> /\ Head(ready) = Handler
  /\ ready' = Tail(ready)
  /\ owed' = [c \in Callers |->
                IF \E i \in DOMAIN ready : ready[i] = c THEN owed[c] - 1 ELSE owed[c]]
  /\ \/ UNCHANGED errors
     \/ run = "connected" /\ errors' = errors \cup {"fatal"}
  /\ UNCHANGED <<run, reading, clientVars, linkVars, sendVars>>

Message == Head(inbox)

\* A parsed response or push, or a malformed message that is logged only.
ReadMessage ==
  /\ run = "connected" /\ reading /\ inbox # <<>>
  /\ inbox' = Tail(inbox)
  /\ \/ Message.kind = "response" /\ Resolve(Message)
     \/ /\ Message.kind = "push" /\ Cardinality(HandlersReady) < MaxHandlers
        /\ ready' = Append(ready, Handler)
        /\ UNCHANGED <<futures, future, owed>>
     \/ Message.kind = "malformed" /\ UNCHANGED <<futures, future, loopVars>>
  /\ UNCHANGED <<runVars, link, outbox, call, tid, interrupt>>

\* What the reader leaves unread is lost with the connection.
ReaderStops(error) ==
  /\ reading' = FALSE /\ inbox' = <<>>
  /\ errors' = errors \cup {error}
  /\ UNCHANGED <<run, clientVars, link, outbox, sendVars, loopVars>>

\* A text message, or the end of the messages, is a CommunicationError; a
\* message whose parsing raises anything unforeseen is fatal.
ReadEnds ==
  /\ run = "connected" /\ reading
  /\ \/ inbox = <<>> /\ ~link /\ ReaderStops("lost")
     \/ inbox # <<>> /\ Message.kind = "text" /\ ReaderStops("lost")
     \/ inbox # <<>> /\ Message.kind = "poison" /\ ReaderStops("fatal")

RoutineRaises(c) ==
  /\ c \in Routines /\ run = "connected"
  /\ call[c] \notin InFlight \cup {"raised"}
  /\ call' = [call EXCEPT ![c] = "raised"]
  /\ errors' = errors \cup {"fatal"}
  /\ UNCHANGED <<run, reading, clientVars, linkVars, futures, tid, future, interrupt,
                 loopVars>>

-----------------------------------------------------------------------------
(* AsyncTydomClient.run_websocket. A cancellation is raised by the await it *)
(* finds run_websocket in, even when what it awaits has already come.       *)

\* The steps that change nothing but where run_websocket is.
OnlyRun == UNCHANGED <<errors, reading, clientVars, linkVars, sendVars, loopVars>>

Authorize ==
  run = "authorizing" /\ ~cancelling /\ run' \in {"opening", "authPause"} /\ OnlyRun

PauseEnds ==
  run \in {"authPause", "pausing"} /\ ~cancelling /\ run' = "authorizing" /\ OnlyRun

Opens ==
  /\ run = "opening" /\ ~cancelling /\ run' = "connected"
  /\ websocket' = TRUE /\ connected' = TRUE /\ reading' = TRUE /\ link' = TRUE
  /\ call' = [c \in Callers |-> IF c \in Inner THEN "idle" ELSE call[c]]
  /\ UNCHANGED <<errors, cancelling, inbox, outbox, futures, tid, future, interrupt,
                 loopVars>>

\* Mutants: _connected stays set; the cancellation does not set `exiting'.
DisconnectStillSet(cancelled) ==
  /\ run' = IF cancelled THEN "exiting" ELSE "disconnecting"
  /\ cancelling' = (cancelling /\ ~cancelled) /\ errors' = {}
  /\ Flush
  /\ UNCHANGED <<connected, websocket, reading, linkVars, call, tid, interrupt, loopVars>>
DisconnectAndGoOn(cancelled) ==
  /\ run' = "disconnecting"
  /\ cancelling' = FALSE /\ connected' = FALSE /\ errors' = {}
  /\ Flush
  /\ UNCHANGED <<websocket, reading, linkVars, call, tid, interrupt, loopVars>>

\* The except* clauses, then _disconnect up to its first await. The cancellation
\* makes run_websocket exit where an await raised it.
Disconnect(cancelled) ==
  /\ run' = IF cancelled THEN "exiting" ELSE "disconnecting"
  /\ cancelling' = (cancelling /\ ~cancelled)
  /\ connected' = FALSE /\ errors' = {}
  /\ Flush
  /\ UNCHANGED <<websocket, reading, linkVars, call, tid, interrupt, loopVars>>

OpenFails == run = "opening" /\ Disconnect(cancelling)

\* An error of a task, or the cancellation of run_websocket, makes the task
\* group cancel all its tasks.
Abort ==
  /\ run = "connected" /\ (errors # {} \/ cancelling)
  /\ run' = "unwinding" /\ reading' = FALSE /\ inbox' = <<>>
  /\ interrupt' = [c \in Callers |->
       IF c \in Inner /\ call[c] \in InFlight THEN "cancel" ELSE interrupt[c]]
  /\ future' = [c \in Callers |->
       IF c \in Inner /\ call[c] = "waiting" /\ future[c] = "pending"
       THEN "cancelled" ELSE future[c]]
  /\ UNCHANGED <<errors, clientVars, link, outbox, futures, call, tid, loopVars>>

\* The websocket closes, and fails the sends suspended in it.
Sever ==
  /\ link' = FALSE
  /\ call' = [c \in Callers |-> IF call[c] = "sending" THEN "severed" ELSE call[c]]
  /\ UNCHANGED <<futures, tid, future, interrupt>>

\* The task group waits for all its tasks, then the exit stack closes.
GroupEnds ==
  /\ run = "unwinding"
  /\ HandlersReady = {} /\ \A c \in Inner : call[c] \notin InFlight
  /\ run' = "closing" /\ outbox' = {}
  /\ Sever
  /\ UNCHANGED <<errors, reading, clientVars, inbox, loopVars>>

\* A cancellation makes run_websocket exit, unless the group already raised an
\* error and closing did not suspend; an error that is not a CommunicationError
\* leaves run_websocket at once.
Closes ==
  /\ run = "closing"
  /\ \/ cancelling /\ Disconnect(TRUE)
     \/ errors = {"lost"} /\ Disconnect(FALSE)
     \/ "fatal" \in errors /\ run' = "failed" /\ OnlyRun

\* Mutant: the loop ends with the connection.
DisconnectedForGood ==
  /\ run \in {"disconnecting", "exiting"} /\ run' = "returned"
  /\ websocket' = FALSE
  /\ UNCHANGED <<errors, reading, cancelling, connected, linkVars, sendVars, loopVars>>

\* The rest of _disconnect, and of the loop's body: no websocket to close means
\* that it was not opened.
Disconnected ==
  /\ run \in {"disconnecting", "exiting"}
  /\ run' = IF run = "exiting" THEN "returned"
            ELSE IF websocket THEN "authorizing" ELSE "pausing"
  /\ websocket' = FALSE
  /\ UNCHANGED <<errors, reading, cancelling, connected, linkVars, sendVars, loopVars>>

\* A disconnection routine raises something other than a RuntimeError.
DisconnectFails == run \in {"disconnecting", "exiting"} /\ run' = "failed" /\ OnlyRun

Cancel ==
  /\ run \notin Final /\ ~cancelling
  /\ cancelling' = TRUE
  /\ UNCHANGED <<run, errors, reading, websocket, connected, linkVars, sendVars, loopVars>>

\* Awaits of run_websocket with no handler of CancelledError around them.
CancelEscapes ==
  /\ run \in {"authorizing", "authPause", "pausing", "disconnecting", "exiting"}
  /\ cancelling /\ run' = "cancelled" /\ OnlyRun

-----------------------------------------------------------------------------
(* The Tydom and the network                                               *)

\* Messages that arrive after the reader has stopped are never read.
Delivers(m) == link /\ reading /\ Len(inbox) < MaxInbox /\ inbox' = Append(inbox, m)

TydomAnswers(r) ==
  /\ Delivers([kind |-> "response", tid |-> r.tid, to |-> r.to])
  /\ outbox' = outbox \ {r}
  /\ UNCHANGED <<runVars, link, sendVars, loopVars>>

TydomSends(kind) ==
  /\ Delivers([kind |-> kind, tid |-> None, to |-> None])
  /\ UNCHANGED <<runVars, link, outbox, sendVars, loopVars>>

\* A request is lost, or the Tydom never answers it; which one only shows once
\* nobody waits for the response.
TydomForgets(r) ==
  /\ r.to = None
  /\ outbox' = outbox \ {r}
  /\ UNCHANGED <<runVars, link, inbox, sendVars, loopVars>>

LinkCloses ==
  /\ link
  /\ Sever
  /\ UNCHANGED <<runVars, inbox, outbox, loopVars>>

-----------------------------------------------------------------------------
Send(c) ==
  \/ \E t \in Tids : Refuse(c, t) \/ NotConnected(c, t) \/ Begin(c, t)
  \/ SendCompletes(c) \/ SendFails(c) \/ TimeOut(c) \/ CancelCall(c)
  \/ Resume(c) \/ ResumeAnswered(c)

Connection == StartHandler \/ ReadMessage \/ ReadEnds \/ \E c \in Routines : RoutineRaises(c)

RunWebsocket ==
  \/ Authorize \/ PauseEnds \/ Opens \/ OpenFails \/ Abort \/ GroupEnds
  \/ Closes \/ Disconnected \/ DisconnectFails \/ Cancel \/ CancelEscapes

Tydom ==
  \/ \E r \in outbox : TydomAnswers(r) \/ TydomForgets(r)
  \/ \E kind \in Unasked : TydomSends(kind)
  \/ LinkCloses

Next == (\E c \in Callers : Send(c)) \/ Connection \/ RunWebsocket \/ Tydom

Spec == Init /\ [][Next]_vars

\* asyncio runs every ready callback and every timer that is due, the network
\* operations end one way or the other, and the Tydom is not away for ever. The
\* ping starts again whenever a transaction id is free: the counter has one always.
Fairness ==
  /\ \A c \in Callers :
       /\ WF_vars(SendCompletes(c) \/ SendFails(c)) /\ WF_vars(TimeOut(c))
       /\ WF_vars(Resume(c)) /\ WF_vars(ResumeAnswered(c))
  /\ \A c \in Breaking : SF_vars(\E t \in Tids : Begin(c, t))
  /\ WF_vars(StartHandler) /\ WF_vars(ReadMessage) /\ WF_vars(ReadEnds)
  /\ WF_vars(PauseEnds) /\ WF_vars(OpenFails) /\ WF_vars(Abort) /\ WF_vars(GroupEnds)
  /\ WF_vars(Closes) /\ WF_vars(Disconnected) /\ WF_vars(CancelEscapes)
  /\ WF_vars(\E r \in outbox : TydomForgets(r))
  /\ SF_vars(Authorize /\ run' = "opening") /\ SF_vars(Opens)

FairSpec == Spec /\ Fairness
=============================================================================

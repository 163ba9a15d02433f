---------------------------- MODULE ClientProofs ----------------------------
(***************************************************************************)
(* Proofs, for every set of callers and transaction ids and every bound,   *)
(* that the client's state is well typed and that PendingRequests holds    *)
(* exactly the sends in progress that a response may still reach.          *)
(***************************************************************************)
EXTENDS ClientProps, FunctionTheorems, SequenceTheorems, FiniteSetTheorems, TLAPS

\* A caller not sending holds nothing of a former send: no future, no
\* transaction id, no interruption.
HoldsNothing ==
  \A c \in Callers : call[c] \notin InFlight => future[c] = "none" /\ tid[c] = None

\* A caller sending has a transaction id.
HoldsTid == \A c \in Callers : call[c] \in InFlight => tid[c] \in Tids

\* The task group has waited for the sends of its tasks: none outlives it to
\* meet the tasks of the next connection.
TasksEnded ==
  run \notin {"connected", "unwinding"} => \A c \in Inner : call[c] \notin InFlight

\* The inductive invariant behind InProgressOnly and Reachable.
PendingInv == HoldsNothing /\ HoldsTid /\ TasksEnded /\ InProgressOnly /\ Reachable

\* Replacing messages by messages leaves a sequence of messages.
LEMMA MapIsSeq ==
  ASSUME NEW S, NEW s \in Seq(S), NEW t,
         t = [i \in DOMAIN s |-> t[i]], \A i \in DOMAIN s : t[i] \in S
  PROVE  t \in Seq(S)
<1>1. DOMAIN s = 1 .. Len(s) /\ Len(s) \in Nat
  OBVIOUS
<1>2. t \in [1 .. Len(s) -> S]
  BY <1>1
<1> QED
  BY <1>1, <1>2, SeqDef

\* The end of a send keeps the types, whatever ends it.
LEMMA EndType ==
  ASSUME TypeOK, NEW c \in Callers, NEW outcome \in Outcomes, NEW requests \in SUBSET Requests,
         EndHaving(c, outcome, requests), ready' \in Seq(Callers \cup {Handler})
  PROVE  TypeOK'
<1>1. futures' \in [Tids -> Callers \cup {None}]
  BY DEF TypeOK, EndHaving, Abandon
<1>2. /\ call' \in [Callers -> InFlight \cup Outcomes]
      /\ tid' \in [Callers -> Tids \cup {None}]
      /\ future' \in [Callers -> Futures]
      /\ interrupt' \in [Callers -> {"no", "timeout", "cancel"}]
      /\ owed' \in [Callers -> Int]
  BY DEF TypeOK, EndHaving, Futures
<1>3. inbox' \in Seq(Messages)
  <2>1. \A i \in DOMAIN inbox : inbox[i] \in Messages
    BY DEF TypeOK
  <2>2. \A i \in DOMAIN inbox : inbox'[i] \in Messages
    BY <2>1, NoneAndHandlerApart DEF EndHaving, Messages, Responses, Others
  <2>3. inbox' = [i \in DOMAIN inbox |-> inbox'[i]]
    BY DEF EndHaving
  <2> QED
    BY <2>2, <2>3, MapIsSeq DEF TypeOK
<1>4. outbox' \subseteq Requests
  <2>1. \A r \in requests : [r EXCEPT !.to = None] \in Requests
    BY DEF Requests
  <2> QED
    BY <2>1 DEF EndHaving
<1>5. /\ run' \in Phases /\ errors' \subseteq {"lost", "fatal"}
      /\ cancelling' \in BOOLEAN /\ websocket' \in BOOLEAN /\ connected' \in BOOLEAN
      /\ reading' \in BOOLEAN /\ link' \in BOOLEAN
  BY DEF TypeOK, EndHaving, clientVars
<1> QED
  BY <1>1, <1>2, <1>3, <1>4, <1>5 DEF TypeOK

\* Every step of the client, of the connection's tasks and of the Tydom keeps the
\* types; a request on the wire has the transaction id its send holds.
LEMMA TypeStep == TypeOK /\ HoldsTid /\ [Next]_vars => TypeOK'
<1> SUFFICES ASSUME TypeOK, HoldsTid, [Next]_vars PROVE TypeOK'
  OBVIOUS
<1> USE CallersDisjoint, NoneAndHandlerApart
<1> USE DEF InFlight, Outcomes, Futures, Phases, Final, clientVars, runVars, linkVars,
            sendVars, loopVars
<1>0. <<>> \in Seq(Messages)
  BY EmptySeq
<1>1. ASSUME NEW c \in Callers, Send(c) PROVE TypeOK'
  <2>1. ASSUME NEW t \in Tids, Refuse(c, t) PROVE TypeOK'
    BY <2>1 DEF TypeOK, Refuse
  <2>2. ASSUME NEW t \in Tids, NotConnected(c, t) PROVE TypeOK'
    BY <2>2 DEF TypeOK, NotConnected
  <2>3. ASSUME NEW t \in Tids, Begin(c, t) PROVE TypeOK'
    BY <2>3 DEF TypeOK, Begin, Register
  <2>4. call[c] \in InFlight => Request(c) \in Requests
    BY DEF HoldsTid, Request, Requests
  <2>5. ASSUME SendCompletes(c) PROVE TypeOK'
    BY <2>4, <2>5 DEF TypeOK, SendCompletes
  <2>6. ASSUME SendFails(c) PROVE TypeOK'
    <3>1. outbox \cup {Request(c)} \in SUBSET Requests \/ call[c] # "sending"
      BY <2>4 DEF TypeOK
    <3>2. outbox \in SUBSET Requests /\ ready' \in Seq(Callers \cup {Handler})
      BY <2>6 DEF TypeOK, SendFails
    <3> QED
      BY <2>6, <3>1, <3>2, EndType DEF SendFails, End
  <2>7. ASSUME TimeOut(c) PROVE TypeOK'
    BY <2>7 DEF TypeOK, TimeOut
  <2>8. ASSUME CancelCall(c) PROVE TypeOK'
    BY <2>8 DEF TypeOK, CancelCall
  <2>9. ASSUME ResumeAs(c), ready' \in Seq(Callers \cup {Handler}) PROVE TypeOK'
    <3>1. outbox \in SUBSET Requests
      BY DEF TypeOK
    <3> QED
      BY <2>9, <3>1, EndType DEF ResumeAs, End
  <2>10. ASSUME Resume(c) PROVE TypeOK'
    BY <2>9, <2>10 DEF TypeOK, Resume
  <2>11. ASSUME ResumeAnswered(c) PROVE TypeOK'
    <3>1. Tail(ready) \in Seq(Callers \cup {Handler})
      BY <2>11, HeadTailProperties DEF TypeOK, ResumeAnswered
    <3> QED
      BY <2>9, <2>11, <3>1 DEF ResumeAnswered
  <2> QED
    BY <1>1, <2>1, <2>2, <2>3, <2>5, <2>6, <2>7, <2>8, <2>10, <2>11 DEF Send
<1>2. ASSUME StartHandler PROVE TypeOK'
  <2>1. Tail(ready) \in Seq(Callers \cup {Handler})
    BY <1>2, HeadTailProperties DEF TypeOK, StartHandler
  <2>2. owed' \in [Callers -> Int]
    BY <1>2 DEF TypeOK, StartHandler
  <2> QED
    BY <1>2, <2>1, <2>2 DEF TypeOK, StartHandler
<1>3. ASSUME ReadMessage PROVE TypeOK'
  <2>0. inbox \in Seq(Messages) /\ inbox # <<>>
    BY <1>3 DEF TypeOK, ReadMessage
  <2>1. Message \in Messages /\ Tail(inbox) \in Seq(Messages)
    BY <2>0, HeadTailProperties DEF Message
  <2>2. ASSUME Message.kind = "response", Resolve(Message)
        PROVE  /\ futures' \in [Tids -> Callers \cup {None}]
               /\ future' \in [Callers -> Futures]
               /\ ready' \in Seq(Callers \cup {Handler}) /\ owed' \in [Callers -> Int]
    <3>1. Message \in Responses
      BY <2>1, <2>2 DEF Messages, Others
    <3>2. PICK c \in Callers \cup {None} : c = futures[Message.tid]
      BY <3>1 DEF TypeOK, Responses
    <3>3. Cardinality(HandlersReady) \in Int
      <4>1. ready \in Seq(Callers \cup {Handler})
        BY DEF TypeOK
      <4>2. IsFiniteSet(1 .. Len(ready)) /\ HandlersReady \in SUBSET (1 .. Len(ready))
        BY <4>1, FS_Interval DEF HandlersReady
      <4>3. Cardinality(HandlersReady) \in Nat
        BY <4>2, FS_Subset, FS_CardinalityType
      <4> QED
        BY <4>3
    <3>4. futures' \in [Tids -> Callers \cup {None}]
      BY <2>2, <3>1 DEF TypeOK, Resolve
    <3>5. CASE c # None /\ future[c] = "pending"
      <4>1. c \in Callers /\ c = futures[Message.tid]
        BY <3>2, <3>5
      <4>2. future' \in [Callers -> Futures]
        BY <2>2, <3>5, <4>1 DEF TypeOK, Resolve
      <4>3. ready' \in Seq(Callers \cup {Handler}) /\ owed' \in [Callers -> Int]
        <5>1. CASE call[c] = "waiting"
          <6>1. ready' = Append(ready, c) /\ owed' = [owed EXCEPT ![c] = Cardinality(HandlersReady)]
            BY <2>2, <3>5, <4>1, <5>1 DEF Resolve
          <6> QED
            BY <3>3, <4>1, <6>1, AppendProperties DEF TypeOK
        <5>2. CASE call[c] # "waiting"
          BY <2>2, <3>5, <4>1, <5>2 DEF TypeOK, Resolve
        <5> QED
          BY <5>1, <5>2
      <4> QED
        BY <3>4, <4>2, <4>3
    <3>6. CASE ~(c # None /\ future[c] = "pending")
      BY <2>2, <3>2, <3>4, <3>6 DEF TypeOK, Resolve
    <3> QED
      BY <3>5, <3>6
  <2>3. CASE Message.kind = "response"
    BY <1>3, <2>1, <2>2, <2>3 DEF TypeOK, ReadMessage
  <2>4. CASE Message.kind = "push"
    <3>1. ready \in Seq(Callers \cup {Handler}) => Append(ready, Handler) \in Seq(Callers \cup {Handler})
      BY AppendProperties
    <3> QED
      BY <1>3, <2>1, <2>4, <3>1 DEF TypeOK, ReadMessage
  <2>5. CASE Message.kind = "malformed"
    BY <1>3, <2>1, <2>5 DEF TypeOK, ReadMessage
  <2> QED
    BY <1>3, <2>3, <2>4, <2>5 DEF ReadMessage
<1>4. ASSUME ReadEnds PROVE TypeOK'
  BY <1>0, <1>4 DEF TypeOK, ReadEnds, ReaderStops
<1>5. ASSUME NEW c \in Routines, RoutineRaises(c) PROVE TypeOK'
  BY <1>5 DEF TypeOK, RoutineRaises
<1>6. ASSUME RunWebsocket PROVE TypeOK'
  <2>1. ASSUME NEW cancelled \in BOOLEAN, Disconnect(cancelled) PROVE TypeOK'
    BY <2>1 DEF TypeOK, Disconnect, Flush
  <2>2. CASE Authorize \/ PauseEnds \/ Disconnected \/ DisconnectFails \/ Cancel \/ CancelEscapes
    BY <2>2 DEF TypeOK, Authorize, PauseEnds, Disconnected, DisconnectFails, Cancel,
                CancelEscapes, OnlyRun
  <2>3. CASE Opens
    BY <2>3 DEF TypeOK, Opens
  <2>4. CASE OpenFails
    BY <2>1, <2>4 DEF OpenFails, TypeOK
  <2>5. CASE Abort
    BY <1>0, <2>5 DEF TypeOK, Abort
  <2>6. CASE GroupEnds
    BY <2>6 DEF TypeOK, GroupEnds, Sever
  <2>7. CASE Closes
    BY <2>1, <2>7 DEF TypeOK, Closes, OnlyRun
  <2> QED
    BY <1>6, <2>2, <2>3, <2>4, <2>5, <2>6, <2>7 DEF RunWebsocket
<1>7. ASSUME Tydom PROVE TypeOK'
  <2>1. ASSUME NEW m \in Messages, Delivers(m) PROVE inbox' \in Seq(Messages)
    BY <2>1 DEF TypeOK, Delivers
  <2>2. ASSUME NEW r \in outbox, TydomAnswers(r) PROVE TypeOK'
    <3>1. [kind |-> "response", tid |-> r.tid, to |-> r.to] \in Messages
      BY DEF TypeOK, Requests, Messages, Responses
    <3> QED
      BY <2>1, <2>2, <3>1 DEF TypeOK, TydomAnswers, Delivers
  <2>3. ASSUME NEW r \in outbox, TydomForgets(r) PROVE TypeOK'
    BY <2>3 DEF TypeOK, TydomForgets
  <2>4. ASSUME NEW kind \in Unasked, TydomSends(kind) PROVE TypeOK'
    <3>1. [kind |-> kind, tid |-> None, to |-> None] \in Messages
      BY UnaskedKinds DEF Messages, Others, Kinds
    <3> QED
      BY <2>1, <2>4, <3>1 DEF TypeOK, TydomSends, Delivers
  <2>5. CASE LinkCloses
    BY <2>5 DEF TypeOK, LinkCloses, Sever
  <2> QED
    BY <1>7, <2>2, <2>3, <2>4, <2>5 DEF Tydom
<1>8. CASE UNCHANGED vars
  BY <1>8 DEF TypeOK, vars
<1> QED
  BY <1>1, <1>2, <1>3, <1>4, <1>5, <1>6, <1>7, <1>8 DEF Next, Connection

\* The end of a send, whatever ends it, leaves no entry of its own behind and
\* takes none that another send has registered since.
LEMMA EndPending ==
  ASSUME TypeOK, PendingInv, NEW c \in Callers, NEW outcome \in Outcomes, NEW requests,
         EndHaving(c, outcome, requests)
  PROVE  PendingInv'
<1> USE NoneAndHandlerApart
<1> USE DEF EndHaving, Abandon, TypeOK, InFlight, Outcomes
<1>1. HoldsNothing' /\ HoldsTid'
  BY DEF PendingInv, HoldsNothing, HoldsTid
<1>2. TasksEnded'
  BY DEF PendingInv, TasksEnded
<1>3. InProgressOnly'
  BY DEF PendingInv, InProgressOnly
<1>4. Reachable'
  <2> SUFFICES ASSUME NEW d \in Callers, future'[d] = "pending" PROVE futures'[tid'[d]] = d
    BY DEF Reachable
  <2>1. d # c /\ future[d] = "pending" /\ tid'[d] = tid[d]
    OBVIOUS
  <2>2. futures[tid[d]] = d /\ tid[d] \in Tids
    BY <2>1 DEF PendingInv, Reachable, HoldsNothing, HoldsTid
  <2> QED
    BY <2>1, <2>2
<1> QED
  BY <1>1, <1>2, <1>3, <1>4 DEF PendingInv

\* A step that neither begins nor ends a send, nor touches _futures, keeps them.
LEMMA SameSends ==
  ASSUME TypeOK, PendingInv, UNCHANGED <<futures, tid>>,
         \A c \in Callers :
           /\ call'[c] \in InFlight <=> call[c] \in InFlight
           /\ future'[c] = "pending" => future[c] = "pending"
           /\ future[c] = "none" => future'[c] = "none",
         run' \notin {"connected", "unwinding"} =>
           run = run' \/ \A c \in Inner : call'[c] \notin InFlight
  PROVE  PendingInv'
<1>1. HoldsNothing' /\ HoldsTid' /\ Reachable'
  BY DEF PendingInv, HoldsNothing, HoldsTid, Reachable
<1>2. InProgressOnly'
  <2>1. \A t \in Tids : futures[t] # None => futures[t] \in Callers
    BY DEF TypeOK
  <2> QED
    BY <2>1 DEF PendingInv, InProgressOnly
<1>3. TasksEnded'
  BY DEF PendingInv, TasksEnded, Inner, Callers
<1> QED
  BY <1>1, <1>2, <1>3 DEF PendingInv

\* Every step keeps the pending requests and the sends in progress in agreement.
LEMMA PendingStep == TypeOK /\ PendingInv /\ [Next]_vars => PendingInv'
<1> SUFFICES ASSUME TypeOK, PendingInv, [Next]_vars PROVE PendingInv'
  OBVIOUS
<1> USE CallersDisjoint, NoneAndHandlerApart
<1> USE DEF InFlight, Outcomes, clientVars, runVars, linkVars, sendVars, loopVars
<1>1. ASSUME NEW c \in Callers, Send(c) PROVE PendingInv'
  <2>1. ASSUME NEW t \in Tids, Refuse(c, t) \/ NotConnected(c, t) PROVE PendingInv'
    BY <2>1, SameSends DEF TypeOK, Refuse, NotConnected, MayBegin
  <2>2. ASSUME NEW t \in Tids, Begin(c, t) PROVE PendingInv'
    <3> USE <2>2 DEF Begin, Register, MayBegin, TypeOK
    <3>1. HoldsNothing' /\ HoldsTid'
      BY DEF PendingInv, HoldsNothing, HoldsTid
    <3>2. TasksEnded'
      BY DEF PendingInv, TasksEnded
    <3>3. InProgressOnly'
      BY DEF PendingInv, InProgressOnly
    <3>4. Reachable'
      BY DEF PendingInv, Reachable, HoldsNothing, HoldsTid
    <3> QED
      BY <3>1, <3>2, <3>3, <3>4 DEF PendingInv
  <2>3. ASSUME SendCompletes(c) \/ TimeOut(c) \/ CancelCall(c) PROVE PendingInv'
    BY <2>3, SameSends DEF TypeOK, SendCompletes, TimeOut, CancelCall
  <2>4. ASSUME SendFails(c) PROVE PendingInv'
    BY <2>4, EndPending DEF SendFails, End
  <2>5. ASSUME ResumeAs(c) PROVE PendingInv'
    BY <2>5, EndPending DEF ResumeAs, End
  <2> QED
    BY <1>1, <2>1, <2>2, <2>3, <2>4, <2>5 DEF Send, Resume, ResumeAnswered
<1>2. CASE StartHandler \/ ReadEnds \/ Tydom \/ UNCHANGED vars
  <2>1. CASE LinkCloses
    BY <2>1, SameSends DEF TypeOK, LinkCloses, Sever
  <2>2. CASE ~LinkCloses
    <3>1. UNCHANGED <<run, sendVars>>
      BY <1>2, <2>2 DEF StartHandler, ReadEnds, ReaderStops, Tydom, TydomAnswers, TydomSends,
                        TydomForgets, vars
    <3> QED
      BY <3>1 DEF PendingInv, HoldsNothing, HoldsTid, TasksEnded, InProgressOnly, Reachable
  <2> QED
    BY <2>1, <2>2
<1>3. CASE ReadMessage
  <2>1. ASSUME Message.kind = "response", Resolve(Message) PROVE PendingInv'
    <3>1. Message.tid \in Tids
      <4>1. inbox \in Seq(Messages) /\ inbox # <<>>
        BY <1>3 DEF TypeOK, ReadMessage
      <4>2. Message \in Messages
        BY <4>1, HeadTailProperties DEF Message
      <4> QED
        BY <2>1, <4>2 DEF Messages, Responses, Others
    <3>2. UNCHANGED <<run, call, tid, interrupt>>
      BY <1>3 DEF ReadMessage
    <3>3. PICK c \in Callers \cup {None} : c = futures[Message.tid]
      BY <3>1 DEF TypeOK
    <3>4. /\ futures' = [futures EXCEPT ![Message.tid] = None]
          /\ \A d \in Callers : future'[d] = "pending" => future[d] = "pending" /\ d # c
          /\ \A d \in Callers : future[d] = "none" => future'[d] = "none"
      BY <2>1, <3>1, <3>3 DEF Resolve, TypeOK
    <3>5. HoldsNothing' /\ HoldsTid' /\ TasksEnded'
      BY <3>2, <3>4 DEF PendingInv, HoldsNothing, HoldsTid, TasksEnded
    <3>6. InProgressOnly'
      BY <3>1, <3>2, <3>4 DEF PendingInv, InProgressOnly, TypeOK
    <3>7. Reachable'
      BY <3>1, <3>2, <3>3, <3>4 DEF PendingInv, Reachable, HoldsNothing, HoldsTid, TypeOK
    <3> QED
      BY <3>5, <3>6, <3>7 DEF PendingInv
  <2>2. ASSUME UNCHANGED <<run, sendVars>> PROVE PendingInv'
    BY <2>2 DEF PendingInv, HoldsNothing, HoldsTid, TasksEnded, InProgressOnly, Reachable
  <2> QED
    BY <1>3, <2>1, <2>2 DEF ReadMessage
<1>4. ASSUME NEW c \in Routines, RoutineRaises(c) PROVE PendingInv'
  BY <1>4 DEF RoutineRaises, TypeOK, PendingInv, HoldsNothing, HoldsTid, TasksEnded,
              InProgressOnly, Reachable, Callers
<1>5. CASE RunWebsocket
  <2>1. ASSUME NEW cancelled \in BOOLEAN, run \in {"opening", "closing"}, Disconnect(cancelled)
        PROVE PendingInv'
    BY <2>1 DEF Disconnect, Flush, TypeOK, PendingInv, HoldsNothing, HoldsTid, TasksEnded,
                InProgressOnly, Reachable
  <2>2. CASE Authorize \/ PauseEnds \/ Disconnected \/ DisconnectFails \/ Cancel \/ CancelEscapes
    BY <2>2 DEF Authorize, PauseEnds, Disconnected, DisconnectFails, Cancel, CancelEscapes,
                OnlyRun, PendingInv, HoldsNothing, HoldsTid, TasksEnded, InProgressOnly, Reachable
  <2>3. CASE Opens
    BY <2>3 DEF Opens, TypeOK, PendingInv, HoldsNothing, HoldsTid, TasksEnded, InProgressOnly,
                Reachable
  <2>4. CASE OpenFails
    BY <2>1, <2>4 DEF OpenFails, TypeOK
  <2>5. CASE Abort
    BY <2>5, SameSends DEF TypeOK, Abort
  <2>6. CASE GroupEnds
    BY <2>6, SameSends DEF TypeOK, GroupEnds, Sever, Inner, Callers
  <2>7. CASE Closes
    <3>1. CASE run' = "failed" /\ OnlyRun
      BY <2>7, <3>1 DEF Closes, OnlyRun, PendingInv, HoldsNothing, HoldsTid, TasksEnded,
                        InProgressOnly, Reachable
    <3> QED
      BY <2>1, <2>7, <3>1 DEF Closes
  <2> QED
    BY <1>5, <2>2, <2>3, <2>4, <2>5, <2>6, <2>7 DEF RunWebsocket
<1> QED
  BY <1>1, <1>2, <1>3, <1>4, <1>5 DEF Next, Connection

LEMMA InvInit == Init => TypeOK /\ PendingInv
<1>1. <<>> \in Seq(Messages) /\ <<>> \in Seq(Callers \cup {Handler})
  BY EmptySeq
<1>2. ASSUME Init PROVE TypeOK
  <2>1. /\ run \in Phases /\ errors \subseteq {"lost", "fatal"}
        /\ cancelling \in BOOLEAN /\ websocket \in BOOLEAN /\ connected \in BOOLEAN
        /\ reading \in BOOLEAN /\ link \in BOOLEAN
    BY <1>2 DEF Init, Phases
  <2>2. /\ futures \in [Tids -> Callers \cup {None}]
        /\ call \in [Callers -> InFlight \cup Outcomes]
        /\ tid \in [Callers -> Tids \cup {None}]
        /\ future \in [Callers -> Futures]
        /\ interrupt \in [Callers -> {"no", "timeout", "cancel"}]
    BY <1>2 DEF Init, Outcomes, Futures
  <2>3. owed \in [Callers -> Int]
    BY <1>2 DEF Init
  <2>4. /\ inbox \in Seq(Messages) /\ outbox \subseteq Requests
        /\ ready \in Seq(Callers \cup {Handler})
    BY <1>1, <1>2 DEF Init
  <2> QED
    BY <2>1, <2>2, <2>3, <2>4 DEF TypeOK
<1>3. Init => PendingInv
  BY NoneAndHandlerApart DEF Init, PendingInv, HoldsNothing, HoldsTid, TasksEnded,
     InProgressOnly, Reachable, InFlight, Inner, Callers
<1> QED
  BY <1>2, <1>3

LEMMA InvAlways == Spec => [](TypeOK /\ PendingInv)
<1>1. TypeOK /\ PendingInv /\ [Next]_vars => (TypeOK /\ PendingInv)'
  BY TypeStep, PendingStep DEF PendingInv
<1> QED
  BY InvInit, <1>1, PTL DEF Spec

\* The state of the client keeps its types, for any callers and transaction ids.
THEOREM TypeCorrect == Spec => []TypeOK
BY InvAlways, PTL

\* PendingRequests holds nothing but sends in progress, each under its own
\* transaction id, however sends end and ids are used again.
THEOREM OnlyInProgress == Spec => []InProgressOnly
<1>1. TypeOK /\ PendingInv => InProgressOnly
  BY DEF PendingInv
<1> QED
  BY InvAlways, <1>1, PTL

\* A send still waiting can be reached by its response and by the loss of the
\* connection: no other send's end takes its entry away.
THEOREM AlwaysReachable == Spec => []Reachable
<1>1. TypeOK /\ PendingInv => Reachable
  BY DEF PendingInv
<1> QED
  BY InvAlways, <1>1, PTL

\* The websocket is open only inside the task group, and only a send of an open
\* one can complete: hence nobody begins to wait while there is no connection.
LinkInUse ==
  /\ link => run \in {"connected", "unwinding"}
  /\ \A c \in Callers : call[c] = "sending" => link

WaitInv == LinkInUse /\ NobodyWaitsDisconnected

LEMMA WaitStep == TypeOK /\ PendingInv /\ WaitInv /\ [Next]_vars => WaitInv'
<1> SUFFICES ASSUME TypeOK, PendingInv, WaitInv, [Next]_vars PROVE WaitInv'
  OBVIOUS
<1> USE DEF InFlight, Outcomes, clientVars, runVars, linkVars, sendVars, loopVars, WaitInv,
            LinkInUse, NobodyWaitsDisconnected, Gone
<1>1. ASSUME NEW c \in Callers, Send(c) PROVE WaitInv'
  <2>1. ASSUME NEW outcome \in Outcomes, NEW requests, EndHaving(c, outcome, requests)
        PROVE  WaitInv'
    BY <2>1 DEF EndHaving, TypeOK
  <2>2. ASSUME NEW t \in Tids, Refuse(c, t) \/ NotConnected(c, t) \/ Begin(c, t) PROVE WaitInv'
    BY <2>2 DEF Refuse, NotConnected, Begin, TypeOK
  <2>3. CASE SendCompletes(c)
    BY <2>3 DEF SendCompletes, TypeOK
  <2>4. CASE TimeOut(c) \/ CancelCall(c)
    BY <2>4 DEF TimeOut, CancelCall, TypeOK
  <2>5. CASE SendFails(c)
    BY <2>1, <2>5 DEF SendFails, End
  <2>6. ASSUME ResumeAs(c) PROVE WaitInv'
    BY <2>1, <2>6 DEF ResumeAs, End
  <2> QED
    BY <1>1, <2>2, <2>3, <2>4, <2>5, <2>6 DEF Send, Resume, ResumeAnswered
<1>2. CASE ReadMessage
  <2>1. run = "connected" /\ UNCHANGED <<run, link, call>>
    BY <1>2 DEF ReadMessage
  <2> QED
    BY <2>1
<1>3. CASE StartHandler \/ ReadEnds
  BY <1>3 DEF StartHandler, ReadEnds, ReaderStops
<1>4. ASSUME NEW c \in Routines, RoutineRaises(c) PROVE WaitInv'
  BY <1>4 DEF RoutineRaises, TypeOK, Callers
<1>5. CASE RunWebsocket
  <2>1. ASSUME NEW cancelled \in BOOLEAN, run \in {"opening", "closing"}, Disconnect(cancelled)
        PROVE WaitInv'
    <3>1. \A c \in Callers : future'[c] # "pending"
      <4>1. ASSUME NEW c \in Callers, future[c] = "pending" PROVE \E t \in Tids : futures[t] = c
        BY <4>1 DEF PendingInv, Reachable, HoldsNothing, HoldsTid
      <4> QED
        BY <2>1, <4>1 DEF Disconnect, Flush
    <3>2. LinkInUse'
      BY <2>1 DEF Disconnect, Flush
    <3> QED
      BY <3>1, <3>2
  <2>2. CASE Authorize \/ PauseEnds \/ Disconnected \/ DisconnectFails \/ Cancel \/ CancelEscapes
    BY <2>2 DEF Authorize, PauseEnds, Disconnected, DisconnectFails, Cancel, CancelEscapes,
                OnlyRun
  <2>3. CASE Opens
    BY <2>3 DEF Opens, TypeOK
  <2>4. CASE OpenFails
    BY <2>1, <2>4 DEF OpenFails, TypeOK
  <2>5. CASE Abort
    BY <2>5 DEF Abort, TypeOK
  <2>6. CASE GroupEnds
    BY <2>6 DEF GroupEnds, Sever, TypeOK
  <2>7. CASE Closes
    <3>1. CASE run' = "failed" /\ OnlyRun
      BY <2>7, <3>1 DEF Closes, OnlyRun
    <3> QED
      BY <2>1, <2>7, <3>1 DEF Closes
  <2> QED
    BY <1>5, <2>2, <2>3, <2>4, <2>5, <2>6, <2>7 DEF RunWebsocket
<1>6. CASE Tydom \/ UNCHANGED vars
  <2>1. CASE LinkCloses
    BY <2>1 DEF LinkCloses, Sever, TypeOK
  <2>2. CASE ~LinkCloses
    <3>1. UNCHANGED <<run, link, sendVars>>
      BY <1>6, <2>2 DEF Tydom, TydomAnswers, TydomSends, TydomForgets, Delivers, vars
    <3> QED
      BY <3>1
  <2> QED
    BY <2>1, <2>2
<1> QED
  BY <1>1, <1>2, <1>3, <1>4, <1>5, <1>6 DEF Next, Connection

\* Once a connection is disconnected no send waits for a response any more, for
\* any number of callers, whatever they were doing when it was lost.
THEOREM NoneWaitsDisconnected == Spec => []NobodyWaitsDisconnected
<1>1. Init => WaitInv
  BY DEF Init, WaitInv, LinkInUse, NobodyWaitsDisconnected
<1>2. TypeOK /\ PendingInv /\ WaitInv /\ [Next]_vars => WaitInv'
  BY WaitStep
<1>3. WaitInv => NobodyWaitsDisconnected
  BY DEF WaitInv
<1> QED
  BY InvAlways, <1>1, <1>2, <1>3, PTL DEF Spec

\* A client that says it is connected has a websocket, opened and not yet
\* disconnected, unless a fatal error has ended run_websocket since.
THEOREM ConnectedMeansWebsocket == Spec => []ConnectedHasWebsocket
<1>1. Init => ConnectedHasWebsocket
  BY DEF Init, ConnectedHasWebsocket
<1>2. ConnectedHasWebsocket /\ [Next]_vars => ConnectedHasWebsocket'
  <2> SUFFICES ASSUME ConnectedHasWebsocket, [Next]_vars PROVE ConnectedHasWebsocket'
    OBVIOUS
  <2> USE DEF ConnectedHasWebsocket, clientVars, runVars
  <2>1. ASSUME NEW c \in Callers, Send(c) PROVE ConnectedHasWebsocket'
    <3>1. UNCHANGED <<run, websocket, connected>>
      BY <2>1 DEF Send, Refuse, NotConnected, Begin, SendCompletes, SendFails, TimeOut,
                  CancelCall, Resume, ResumeAnswered, ResumeAs, End, EndHaving
    <3> QED
      BY <3>1
  <2>2. CASE Connection \/ Tydom \/ UNCHANGED vars
    <3>1. UNCHANGED <<run, websocket, connected>>
      BY <2>2 DEF Connection, StartHandler, ReadMessage, ReadEnds, ReaderStops, RoutineRaises,
                  Tydom, TydomAnswers, TydomSends, TydomForgets, LinkCloses, vars
    <3> QED
      BY <3>1
  <2>3. CASE RunWebsocket
    BY <2>3 DEF RunWebsocket, Authorize, PauseEnds, Opens, OpenFails, Abort, GroupEnds, Closes,
                Disconnect, Disconnected, DisconnectFails, Cancel, CancelEscapes, OnlyRun
  <2> QED
    BY <2>1, <2>2, <2>3 DEF Next
<1> QED
  BY <1>1, <1>2, PTL DEF Spec

\* Two sends in flight have transaction ids of their own, and what is on the wire
\* under the transaction id of a send in flight is that send's.
OneEach == \A c, d \in Callers : tid[c] \in Tids /\ tid[c] = tid[d] => c = d
AskedBy(m) == \A c \in Callers : m.tid \in Tids /\ tid[c] = m.tid => m.to = c
OwnWire ==
  /\ \A r \in outbox : AskedBy(r)
  /\ \A i \in DOMAIN inbox : AskedBy(inbox[i])
OwnInv == OneEach /\ OwnWire /\ OwnResponse

\* The end of a send gives up what is still on the wire for it, and nothing else.
LEMMA EndOwn ==
  ASSUME TypeOK, OwnInv, NEW c \in Callers, NEW outcome, NEW requests \in SUBSET Requests,
         EndHaving(c, outcome, requests), \A r \in requests : AskedBy(r)
  PROVE  OwnInv'
<1> USE NoneAndHandlerApart
<1>0. tid' = [tid EXCEPT ![c] = None] /\ tid \in [Callers -> Tids \cup {None}]
  BY DEF EndHaving, TypeOK
<1>1. OneEach'
  BY <1>0 DEF OwnInv, OneEach
<1>2. ASSUME NEW r \in outbox' PROVE AskedBy(r)'
  <2>1. PICK q \in requests : r = IF q.to = c THEN [q EXCEPT !.to = None] ELSE q
    BY <1>2 DEF EndHaving
  <2>2. q \in Requests /\ AskedBy(q)
    BY <2>1
  <2>3. r.tid = q.tid /\ (q.to # c => r.to = q.to)
    BY <2>1, <2>2 DEF Requests
  <2> QED
    BY <1>0, <2>2, <2>3 DEF AskedBy
<1>3. ASSUME NEW i \in DOMAIN inbox' PROVE AskedBy(inbox[i])'
  <2>1. i \in DOMAIN inbox /\ inbox[i] \in Messages /\ AskedBy(inbox[i])
    BY <1>3 DEF EndHaving, TypeOK, OwnInv, OwnWire
  <2>2. inbox'[i] = IF inbox[i].to = c THEN [inbox[i] EXCEPT !.to = None] ELSE inbox[i]
    BY <2>1 DEF EndHaving
  <2>3. inbox'[i].tid = inbox[i].tid /\ (inbox[i].to # c => inbox'[i].to = inbox[i].to)
    BY <2>1, <2>2 DEF Messages, Responses, Others
  <2> QED
    BY <1>0, <2>1, <2>3 DEF AskedBy
<1>4. OwnResponse'
  BY DEF EndHaving, TypeOK, OwnInv, OwnResponse
<1> QED
  BY <1>1, <1>2, <1>3, <1>4 DEF OwnInv, OwnWire

\* A step that begins and ends no send and puts nothing new on the wire.
LEMMA SameWire ==
  ASSUME OwnInv, UNCHANGED tid, outbox' \subseteq outbox,
         \A i \in DOMAIN inbox' :
           \/ \E j \in DOMAIN inbox : inbox'[i] = inbox[j]
           \/ \E r \in outbox : inbox'[i].tid = r.tid /\ inbox'[i].to = r.to
           \/ inbox'[i].tid = None,
         \A c \in Callers : future'[c] = "misanswered" => future[c] = "misanswered"
  PROVE  OwnInv'
BY NoneAndHandlerApart DEF OwnInv, OneEach, OwnWire, AskedBy, OwnResponse

\* With a transaction id for each request, every step keeps the wire to its senders.
LEMMA OwnStep ==
  ASSUME ~Resend, TypeOK, PendingInv, OwnInv, [Next]_vars
  PROVE  OwnInv'
<1> USE CallersDisjoint, NoneAndHandlerApart
<1> USE DEF clientVars, runVars, linkVars, sendVars, loopVars
<1>1. ASSUME NEW c \in Callers, Send(c) PROVE OwnInv'
  <2>1. ASSUME NEW t \in Tids, Refuse(c, t) \/ NotConnected(c, t) PROVE OwnInv'
    BY <2>1, SameWire DEF Refuse, NotConnected
  <2>2. ASSUME NEW t \in Tids, Begin(c, t) PROVE OwnInv'
    <3>1. Fresh(t) /\ tid' = [tid EXCEPT ![c] = t] /\ UNCHANGED <<inbox, outbox>>
      BY <2>2 DEF Begin, Usable
    <3>2. OneEach'
      BY <3>1 DEF Fresh, OwnInv, OneEach, TypeOK
    <3>3. OwnWire'
      BY <3>1 DEF Fresh, OwnInv, OwnWire, AskedBy, TypeOK
    <3>4. OwnResponse'
      BY <2>2 DEF Begin, OwnInv, OwnResponse, TypeOK
    <3> QED
      BY <3>2, <3>3, <3>4 DEF OwnInv
  <2>3. call[c] \in InFlight => Request(c) \in Requests /\ AskedBy(Request(c))
    BY DEF PendingInv, HoldsTid, Request, Requests, AskedBy, OwnInv, OneEach
  <2>4. CASE SendCompletes(c)
    <3>1. UNCHANGED <<tid, inbox, future>> /\ outbox' = outbox \cup {Request(c)}
      BY <2>4 DEF SendCompletes
    <3>2. AskedBy(Request(c))
      BY <2>3, <2>4 DEF SendCompletes, InFlight
    <3> QED
      BY <3>1, <3>2 DEF OwnInv, OneEach, OwnWire, AskedBy, OwnResponse
  <2>5. CASE TimeOut(c) \/ CancelCall(c)
    BY <2>5, SameWire DEF TimeOut, CancelCall, TypeOK
  <2>6. ASSUME NEW outcome, End(c, outcome) PROVE OwnInv'
    BY <2>6, EndOwn DEF End, TypeOK, OwnInv, OwnWire
  <2>7. CASE SendFails(c)
    <3>1. CASE call[c] = "sending" /\ EndHaving(c, "cancelled", outbox \cup {Request(c)})
      <4>1. outbox \cup {Request(c)} \in SUBSET Requests
        BY <2>3, <3>1 DEF TypeOK, InFlight
      <4>2. \A r \in outbox \cup {Request(c)} : AskedBy(r)
        BY <2>3, <3>1 DEF InFlight, OwnInv, OwnWire
      <4> QED
        BY <3>1, <4>1, <4>2, EndOwn
    <3> QED
      BY <2>6, <2>7, <3>1 DEF SendFails
  <2>8. CASE Resume(c) \/ ResumeAnswered(c)
    BY <2>6, <2>8 DEF Resume, ResumeAnswered, ResumeAs
  <2> QED
    BY <1>1, <2>1, <2>2, <2>4, <2>5, <2>7, <2>8 DEF Send
<1>2. CASE ReadMessage
  <2>0. inbox \in Seq(Messages) /\ inbox # <<>> /\ inbox' = Tail(inbox) /\ UNCHANGED <<tid, outbox>>
    BY <1>2 DEF TypeOK, ReadMessage
  <2>1. /\ Message = inbox[1] /\ 1 \in DOMAIN inbox /\ Message \in Messages
        /\ \A i \in DOMAIN inbox' : \E j \in DOMAIN inbox : inbox'[i] = inbox[j]
    <3>0. /\ DOMAIN inbox = 1 .. Len(inbox) /\ Len(inbox) \in Nat \ {0}
          /\ Message = inbox[1] /\ Message \in Messages
      BY <2>0, EmptySeq DEF Message
    <3>1. /\ DOMAIN inbox' = 1 .. Len(inbox) - 1
          /\ \A i \in 1 .. Len(inbox) - 1 : inbox'[i] = inbox[i + 1]
      BY <2>0, <3>0
    <3>2. ASSUME NEW i \in DOMAIN inbox' PROVE i + 1 \in DOMAIN inbox /\ inbox'[i] = inbox[i + 1]
      BY <3>0, <3>1, <3>2
    <3> QED
      BY <3>0, <3>2
  <2>2. \A c \in Callers : future'[c] = "misanswered" => future[c] = "misanswered"
    <3>1. CASE Message.kind = "response" /\ Resolve(Message)
      <4>1. Message.tid \in Tids
        BY <2>1, <3>1 DEF Messages, Responses, Others
      <4>2. \A c \in Callers : futures[Message.tid] = c => Message.to = c
        BY <2>1, <4>1 DEF PendingInv, InProgressOnly, OwnInv, OwnWire, AskedBy
      <4>3. futures[Message.tid] \in Callers \cup {None}
        BY <4>1 DEF TypeOK
      <4> QED
        BY <3>1, <4>2, <4>3 DEF Resolve, TypeOK
    <3>2. CASE UNCHANGED future
      BY <3>2
    <3> QED
      BY <1>2, <3>1, <3>2 DEF ReadMessage
  <2> QED
    BY <2>0, <2>1, <2>2, SameWire
<1>3. CASE Tydom
  <2>1. ASSUME NEW m, Delivers(m), m.tid = None \/ \E r \in outbox : m.tid = r.tid /\ m.to = r.to,
               outbox' \subseteq outbox, UNCHANGED sendVars
        PROVE  OwnInv'
    <3>1. \A i \in DOMAIN inbox' : inbox'[i] = m \/ (i \in DOMAIN inbox /\ inbox'[i] = inbox[i])
      BY <2>1 DEF Delivers, TypeOK
    <3> QED
      BY <2>1, <3>1, SameWire
  <2>2. ASSUME NEW r \in outbox, TydomAnswers(r) PROVE OwnInv'
    BY <2>1, <2>2 DEF TydomAnswers
  <2>3. ASSUME NEW kind \in Unasked, TydomSends(kind) PROVE OwnInv'
    BY <2>1, <2>3 DEF TydomSends
  <2>4. ASSUME NEW r \in outbox, TydomForgets(r) PROVE OwnInv'
    BY <2>4, SameWire DEF TydomForgets
  <2>5. CASE LinkCloses
    BY <2>5, SameWire DEF LinkCloses, Sever
  <2> QED
    BY <1>3, <2>2, <2>3, <2>4, <2>5 DEF Tydom
<1>4. CASE StartHandler \/ ReadEnds \/ (\E c \in Routines : RoutineRaises(c)) \/ UNCHANGED vars
  BY <1>4, SameWire DEF StartHandler, ReadEnds, ReaderStops, RoutineRaises, vars
<1>5. CASE RunWebsocket
  <2>1. UNCHANGED tid /\ outbox' \subseteq outbox /\ (UNCHANGED inbox \/ inbox' = <<>>)
    BY <1>5 DEF RunWebsocket, Authorize, PauseEnds, Opens, OpenFails, Abort, GroupEnds, Closes,
                Disconnect, Disconnected, DisconnectFails, Cancel, CancelEscapes, OnlyRun, Sever
  <2>2. \A c \in Callers : future'[c] = "misanswered" => future[c] = "misanswered"
    BY <1>5 DEF RunWebsocket, Authorize, PauseEnds, Opens, OpenFails, Abort, GroupEnds, Closes,
                Disconnect, Flush, Disconnected, DisconnectFails, Cancel, CancelEscapes, OnlyRun,
                Sever
  <2> QED
    BY <2>1, <2>2, SameWire
<1> QED
  BY <1>1, <1>2, <1>3, <1>4, <1>5 DEF Next, Connection

\* A send is given the response to its own request, however late responses to
\* former ones arrive, as long as each request object is sent once.
THEOREM OwnAnswer == ~Resend => (Spec => []OwnResponse)
<1> SUFFICES ASSUME ~Resend PROVE Spec => []OwnResponse
  OBVIOUS
<1>1. Init => OwnInv
  BY NoneAndHandlerApart DEF Init, OwnInv, OneEach, OwnWire, AskedBy, OwnResponse
<1>2. TypeOK /\ PendingInv /\ OwnInv /\ [Next]_vars => OwnInv'
  BY OwnStep
<1>3. OwnInv => OwnResponse
  BY DEF OwnInv
<1> QED
  BY InvAlways, <1>1, <1>2, <1>3, PTL DEF Spec

\* The push handlers to start before the i-th callback of a ready queue.
HandlersBefore(q, i) == {j \in 1 .. i - 1 : q[j] = Handler}

\* Each answered send is in the ready queue once, with as many handlers before it as
\* it owes; a send out of the queue owes none.
QueuedAreAnswered ==
  \A i \in DOMAIN ready : ready[i] # Handler =>
    call[ready[i]] = "waiting" /\ future[ready[i]] \in {"answered", "misanswered"}
QueuedOnce ==
  \A i, j \in DOMAIN ready : ready[i] = ready[j] /\ ready[i] # Handler => i = j
OwedAreBefore ==
  /\ \A i \in DOMAIN ready : ready[i] # Handler =>
       owed[ready[i]] = Cardinality(HandlersBefore(ready, i))
  /\ \A c \in Callers : (\A i \in DOMAIN ready : ready[i] # c) => owed[c] = 0
OrderInv == QueuedAreAnswered /\ QueuedOnce /\ OwedAreBefore

LEMMA BeforeIsFinite ==
  ASSUME NEW q, NEW i \in Nat
  PROVE  /\ IsFiniteSet(HandlersBefore(q, i))
         /\ Cardinality(HandlersBefore(q, i)) \in Nat
<1>1. IsFiniteSet(1 .. i - 1) /\ HandlersBefore(q, i) \in SUBSET (1 .. i - 1)
  BY FS_Interval DEF HandlersBefore
<1> QED
  BY <1>1, FS_Subset, FS_CardinalityType

\* Taking the first callback off the queue takes a handler from before each of the
\* others if it was one.
LEMMA BeforeTail ==
  ASSUME NEW q, NEW p, NEW i \in Nat \ {0}, \A j \in 1 .. i - 1 : p[j] = q[j + 1]
  PROVE  Cardinality(HandlersBefore(p, i)) =
           IF q[1] = Handler THEN Cardinality(HandlersBefore(q, i + 1)) - 1
           ELSE Cardinality(HandlersBefore(q, i + 1))
<1> DEFINE A == HandlersBefore(q, i + 1)
           B == HandlersBefore(p, i)
           f == [j \in B |-> j + 1]
<1>1. /\ IsFiniteSet(A \ {1})
      /\ Cardinality(A \ {1}) = IF 1 \in A THEN Cardinality(A) - 1 ELSE Cardinality(A)
  BY BeforeIsFinite, FS_RemoveElement
<1>2. 1 \in A <=> q[1] = Handler
  BY DEF HandlersBefore
<1>3. f \in Bijection(B, A \ {1})
  <2>1. \A j \in B : j \in Nat /\ f[j] \in A \ {1}
    BY DEF HandlersBefore
  <2>2. \A k \in A \ {1} : k - 1 \in B /\ f[k - 1] = k
    BY DEF HandlersBefore
  <2>3. f \in [B -> A \ {1}]
    BY <2>1
  <2>4. \A j, k \in B : f[j] = f[k] => j = k
    BY <2>1
  <2>5. \A k \in A \ {1} : \E j \in B : f[j] = k
    BY <2>2
  <2> HIDE DEF f, A, B
  <2> QED
    BY <2>3, <2>4, <2>5, Fun_IsBij
<1>4. IsFiniteSet(B)
  BY BeforeIsFinite
<1>5. Cardinality(A \ {1}) = Cardinality(B)
  <2>1. ExistsBijection(B, A \ {1})
    BY <1>3 DEF ExistsBijection
  <2> QED
    BY <1>4, <2>1, FS_Bijection
<1> QED
  BY <1>1, <1>2, <1>5

\* A step that leaves the queue and the sends queued in it as they are.
LEMMA SameOrder ==
  ASSUME TypeOK, OrderInv, UNCHANGED ready,
         \A c \in Callers : (\E i \in DOMAIN ready : ready[i] = c) =>
           call'[c] = call[c] /\ future'[c] = future[c] /\ owed'[c] = owed[c],
         \A c \in Callers : (\A i \in DOMAIN ready : ready[i] # c) => owed'[c] \in {0, owed[c]}
  PROVE  OrderInv'
<1>1. \A i \in DOMAIN ready : ready[i] # Handler => ready[i] \in Callers
  BY DEF TypeOK
<1>2. \A i \in DOMAIN ready : HandlersBefore(ready, i)' = HandlersBefore(ready, i)
  BY DEF HandlersBefore
<1>3. QueuedAreAnswered' /\ QueuedOnce'
  BY <1>1 DEF OrderInv, QueuedAreAnswered, QueuedOnce
<1>4. OwedAreBefore'
  BY <1>1, <1>2 DEF OrderInv, OwedAreBefore
<1> QED
  BY <1>3, <1>4 DEF OrderInv

\* The first callback of the queue runs: a handler that starts is owed no more, a
\* send that resumes is gone from the queue.
LEMMA TailOrder ==
  ASSUME TypeOK, OrderInv, ready # <<>>, ready' = Tail(ready),
         \A c \in Callers \ {Head(ready)} :
           /\ call'[c] = call[c] /\ future'[c] = future[c]
           /\ owed'[c] = IF Head(ready) = Handler /\ \E i \in DOMAIN ready : ready[i] = c
                         THEN owed[c] - 1 ELSE owed[c],
         Head(ready) # Handler => owed'[Head(ready)] = 0
  PROVE  OrderInv'
<1> USE NoneAndHandlerApart
<1>1. /\ ready \in Seq(Callers \cup {Handler})
      /\ DOMAIN ready = 1 .. Len(ready) /\ Len(ready) \in Nat \ {0}
      /\ Head(ready) = ready[1]
  BY EmptySeq DEF TypeOK
<1>2. /\ DOMAIN ready' = 1 .. Len(ready) - 1
      /\ \A i \in 1 .. Len(ready) - 1 : ready'[i] = ready[i + 1]
  BY <1>1
<1>3. ASSUME NEW i \in DOMAIN ready', ready'[i] # Handler
      PROVE  /\ i \in Nat \ {0} /\ i + 1 \in DOMAIN ready /\ ready'[i] = ready[i + 1]
             /\ ready'[i] \in Callers \ {Head(ready)}
  <2>1. i \in Nat \ {0} /\ i + 1 \in DOMAIN ready /\ 1 \in DOMAIN ready /\ i + 1 # 1
        /\ ready'[i] = ready[i + 1]
    BY <1>1, <1>2, <1>3
  <2>2. ready[i + 1] \in Callers
    BY <1>1, <1>3, <2>1
  <2>3. ready[i + 1] # ready[1]
    BY <1>3, <2>1 DEF OrderInv, QueuedOnce
  <2> QED
    BY <1>1, <2>1, <2>2, <2>3
<1>4. QueuedAreAnswered'
  BY <1>3 DEF OrderInv, QueuedAreAnswered
<1>5. QueuedOnce'
  <2> SUFFICES ASSUME NEW i \in DOMAIN ready', NEW j \in DOMAIN ready',
                      ready'[i] = ready'[j], ready'[i] # Handler
               PROVE  i = j
    BY DEF QueuedOnce
  <2>1. i + 1 = j + 1
    BY <1>3 DEF OrderInv, QueuedOnce
  <2> QED
    BY <1>3, <2>1
<1>6. ASSUME NEW i \in DOMAIN ready', ready'[i] # Handler
      PROVE  owed'[ready'[i]] = Cardinality(HandlersBefore(ready', i))
  <2>1. owed[ready[i + 1]] = Cardinality(HandlersBefore(ready, i + 1))
    BY <1>3, <1>6 DEF OrderInv, OwedAreBefore
  <2>2. \A j \in 1 .. i - 1 : ready'[j] = ready[j + 1]
    BY <1>1, <1>2, <1>6
  <2>3. Cardinality(HandlersBefore(ready', i)) =
          IF ready[1] = Handler THEN Cardinality(HandlersBefore(ready, i + 1)) - 1
          ELSE Cardinality(HandlersBefore(ready, i + 1))
    <3>1. i \in Nat \ {0}
      BY <1>3, <1>6
    <3>2. PICK q, p : q = ready /\ p = ready'
      OBVIOUS
    <3>3. \A j \in 1 .. i - 1 : p[j] = q[j + 1]
      BY <2>2, <3>2
    <3>4. Cardinality(HandlersBefore(p, i)) =
            IF q[1] = Handler THEN Cardinality(HandlersBefore(q, i + 1)) - 1
            ELSE Cardinality(HandlersBefore(q, i + 1))
      BY <3>1, <3>3, BeforeTail
    <3> QED
      BY <3>2, <3>4
  <2>4. owed'[ready'[i]] = IF ready[1] = Handler THEN owed[ready[i + 1]] - 1
                           ELSE owed[ready[i + 1]]
    BY <1>1, <1>3, <1>6
  <2> QED
    BY <2>1, <2>3, <2>4
<1>7. ASSUME NEW c \in Callers, \A i \in DOMAIN ready' : ready'[i] # c PROVE owed'[c] = 0
  <2>1. CASE c = Head(ready)
    BY <2>1
  <2>2. CASE c # Head(ready)
    <3>1. ASSUME NEW i \in DOMAIN ready, ready[i] = c PROVE FALSE
      <4>1. i - 1 \in DOMAIN ready' /\ ready'[i - 1] = c
        BY <1>1, <1>2, <2>2, <3>1
      <4> QED
        BY <1>7, <4>1
    <3>2. owed'[c] = owed[c]
      BY <2>2, <3>1
    <3> QED
      BY <3>1, <3>2 DEF OrderInv, OwedAreBefore
  <2> QED
    BY <2>1, <2>2
<1>8. OwedAreBefore'
  BY <1>6, <1>7 DEF OwedAreBefore, HandlersBefore
<1> QED
  BY <1>4, <1>5, <1>8 DEF OrderInv

\* A callback goes to the end of the queue: a handler, or a send just answered that
\* owes the handlers already there.
LEMMA AppendOrder ==
  ASSUME TypeOK, OrderInv, NEW x \in Callers \cup {Handler}, ready' = Append(ready, x),
         UNCHANGED call,
         \A c \in Callers \ {x} : future'[c] = future[c] /\ owed'[c] = owed[c],
         x # Handler => /\ call[x] = "waiting" /\ future[x] = "pending"
                        /\ future'[x] \in {"answered", "misanswered"}
                        /\ owed'[x] = Cardinality(HandlersReady)
  PROVE  OrderInv'
<1> USE NoneAndHandlerApart
<1> DEFINE n == Len(ready) + 1
<1>1. /\ ready \in Seq(Callers \cup {Handler})
      /\ DOMAIN ready = 1 .. n - 1 /\ n \in Nat \ {0}
  BY DEF TypeOK
<1>2. /\ DOMAIN ready' = 1 .. n /\ ready'[n] = x
      /\ \A i \in 1 .. n - 1 : ready'[i] = ready[i]
  BY <1>1
<1> HIDE DEF n
<1>3. ASSUME NEW i \in 1 .. n - 1, ready[i] # Handler PROVE ready[i] \in Callers \ {x}
  <2>1. ready[i] \in Callers
    BY <1>1, <1>3
  <2>2. future[ready[i]] # "pending"
    BY <1>1, <1>3 DEF OrderInv, QueuedAreAnswered
  <2> QED
    BY <2>1, <2>2
<1>4. QueuedAreAnswered'
  <2> SUFFICES ASSUME NEW i \in 1 .. n, ready'[i] # Handler
               PROVE  call[ready'[i]] = "waiting" /\ future'[ready'[i]] \in {"answered", "misanswered"}
    BY <1>2 DEF QueuedAreAnswered
  <2>1. CASE i = n
    BY <1>2, <2>1
  <2>2. CASE i \in 1 .. n - 1
    BY <1>1, <1>2, <1>3, <2>2 DEF OrderInv, QueuedAreAnswered
  <2> QED
    BY <1>1, <2>1, <2>2
<1>5. QueuedOnce'
  <2> SUFFICES ASSUME NEW i \in 1 .. n, NEW j \in 1 .. n, ready'[i] = ready'[j], ready'[i] # Handler
               PROVE  i = j
    BY <1>2 DEF QueuedOnce
  <2>1. i \in 1 .. n - 1 /\ j \in 1 .. n - 1 => i = j
    BY <1>1, <1>2 DEF OrderInv, QueuedOnce
  <2>2. i = n \/ i \in 1 .. n - 1
    BY <1>1
  <2>3. j = n \/ j \in 1 .. n - 1
    BY <1>1
  <2> QED
    BY <1>2, <1>3, <2>1, <2>2, <2>3
<1>6. \A i \in 1 .. n : HandlersBefore(ready', i) = HandlersBefore(ready, i)
  BY <1>1, <1>2 DEF HandlersBefore
<1>7. HandlersReady = HandlersBefore(ready, n)
  BY <1>1 DEF HandlersReady, HandlersBefore
<1>8. ASSUME NEW i \in 1 .. n, ready'[i] # Handler
      PROVE  owed'[ready'[i]] = Cardinality(HandlersBefore(ready', i))
  <2>1. CASE i = n
    BY <1>2, <1>6, <1>7, <1>8, <2>1
  <2>2. CASE i \in 1 .. n - 1
    BY <1>1, <1>2, <1>3, <1>6, <1>8, <2>2 DEF OrderInv, OwedAreBefore
  <2> QED
    BY <1>1, <2>1, <2>2
<1>9. ASSUME NEW c \in Callers, \A i \in 1 .. n : ready'[i] # c PROVE owed'[c] = 0
  <2>1. c # x /\ \A i \in DOMAIN ready : ready[i] # c
    BY <1>1, <1>2, <1>9
  <2> QED
    BY <2>1 DEF OrderInv, OwedAreBefore
<1>10. OwedAreBefore'
  BY <1>2, <1>8, <1>9 DEF OwedAreBefore, HandlersBefore
<1> QED
  BY <1>4, <1>5, <1>10 DEF OrderInv

\* Every step keeps the count of the handlers before each answered send.
LEMMA OrderStep == TypeOK /\ PendingInv /\ OrderInv /\ [Next]_vars => OrderInv'
<1> SUFFICES ASSUME TypeOK, PendingInv, OrderInv, [Next]_vars PROVE OrderInv'
  OBVIOUS
<1> USE CallersDisjoint, NoneAndHandlerApart
<1> USE DEF InFlight, clientVars, runVars, linkVars, sendVars, loopVars
<1>0. ASSUME NEW c \in Callers, \E i \in DOMAIN ready : ready[i] = c
      PROVE  call[c] = "waiting" /\ future[c] \in {"answered", "misanswered"}
  BY <1>0 DEF OrderInv, QueuedAreAnswered
<1>1. ASSUME NEW c \in Callers, Send(c) PROVE OrderInv'
  <2>1. ASSUME NEW outcome, NEW requests, EndHaving(c, outcome, requests), UNCHANGED ready,
               \A i \in DOMAIN ready : ready[i] # c
        PROVE  OrderInv'
    BY <2>1, SameOrder DEF EndHaving, TypeOK
  <2>2. ASSUME NEW t \in Tids, Refuse(c, t) \/ NotConnected(c, t) \/ Begin(c, t) PROVE OrderInv'
    BY <1>0, <2>2, SameOrder DEF Refuse, NotConnected, Begin, MayBegin, TypeOK
  <2>3. CASE SendCompletes(c)
    BY <1>0, <2>3, SameOrder DEF SendCompletes, TypeOK
  <2>4. CASE TimeOut(c) \/ CancelCall(c)
    BY <1>0, <2>4, SameOrder DEF TimeOut, CancelCall, TypeOK
  <2>5. CASE SendFails(c)
    BY <1>0, <2>1, <2>5 DEF SendFails, End
  <2>6. CASE Resume(c)
    BY <2>1, <2>6 DEF Resume, ResumeAs, End
  <2>7. CASE ResumeAnswered(c)
    <3>1. /\ ready # <<>> /\ ready' = Tail(ready) /\ Head(ready) = c
          /\ \E outcome : EndHaving(c, outcome, outbox)
      BY <2>7 DEF ResumeAnswered, ResumeAs, End
    <3>2. /\ \A d \in Callers \ {c} : call'[d] = call[d] /\ future'[d] = future[d] /\ owed'[d] = owed[d]
          /\ owed'[c] = 0
      BY <3>1 DEF EndHaving, TypeOK
    <3> QED
      BY <3>1, <3>2, TailOrder
  <2> QED
    BY <1>1, <2>2, <2>3, <2>4, <2>5, <2>6, <2>7 DEF Send
<1>2. CASE StartHandler
  <2>1. /\ ready # <<>> /\ ready' = Tail(ready) /\ Head(ready) = Handler
        /\ UNCHANGED <<call, future>>
        /\ \A c \in Callers : owed'[c] = IF \E i \in DOMAIN ready : ready[i] = c
                                         THEN owed[c] - 1 ELSE owed[c]
    BY <1>2 DEF StartHandler
  <2> QED
    BY <2>1, TailOrder
<1>3. CASE ReadMessage
  <2>1. UNCHANGED call
    BY <1>3 DEF ReadMessage
  <2>2. ASSUME Message.kind = "response", Resolve(Message) PROVE OrderInv'
    <3>1. Message.tid \in Tids
      <4>1. inbox \in Seq(Messages) /\ inbox # <<>>
        BY <1>3 DEF TypeOK, ReadMessage
      <4>2. Message \in Messages
        BY <4>1, HeadTailProperties DEF Message
      <4> QED
        BY <2>2, <4>2 DEF Messages, Responses, Others
    <3>2. PICK c \in Callers \cup {None} : c = futures[Message.tid]
      BY <3>1 DEF TypeOK
    <3>3. CASE c # None /\ future[c] = "pending" /\ call[c] = "waiting"
      <4>1. /\ future' = [future EXCEPT ![c] = IF Message.to = c THEN "answered" ELSE "misanswered"]
            /\ ready' = Append(ready, c)
            /\ owed' = [owed EXCEPT ![c] = Cardinality(HandlersReady)]
        BY <2>2, <3>2, <3>3 DEF Resolve
      <4>2. /\ c \in Callers /\ future'[c] \in {"answered", "misanswered"}
            /\ owed'[c] = Cardinality(HandlersReady)
            /\ \A d \in Callers \ {c} : future'[d] = future[d] /\ owed'[d] = owed[d]
        BY <3>2, <3>3, <4>1 DEF TypeOK
      <4> QED
        BY <2>1, <3>3, <4>1, <4>2, AppendOrder
    <3>4. CASE ~(c # None /\ future[c] = "pending" /\ call[c] = "waiting")
      <4>1. /\ UNCHANGED loopVars
            /\ \A d \in Callers : future'[d] = future[d] \/ (d = c /\ call[c] # "waiting")
        BY <2>2, <3>2, <3>4 DEF Resolve, TypeOK
      <4> QED
        BY <1>0, <2>1, <4>1, SameOrder
    <3> QED
      BY <3>3, <3>4
  <2>3. ASSUME ready' = Append(ready, Handler), UNCHANGED <<future, owed>> PROVE OrderInv'
    BY <2>1, <2>3, AppendOrder
  <2>4. ASSUME UNCHANGED <<future, loopVars>> PROVE OrderInv'
    BY <2>1, <2>4, SameOrder
  <2> QED
    BY <1>3, <2>2, <2>3, <2>4 DEF ReadMessage
<1>4. CASE RunWebsocket
  <2>1. UNCHANGED loopVars
    BY <1>4 DEF RunWebsocket, Authorize, PauseEnds, Opens, OpenFails, Abort, GroupEnds, Closes,
                Disconnect, Disconnected, DisconnectFails, Cancel, CancelEscapes, OnlyRun
  <2>2. \A c \in Callers : call[c] = "waiting" => call'[c] = call[c]
    <3>1. CASE Opens
      BY <3>1 DEF Opens, TypeOK, PendingInv, TasksEnded
    <3>2. CASE GroupEnds
      BY <3>2 DEF GroupEnds, Sever
    <3>3. CASE ~Opens /\ ~GroupEnds
      BY <1>4, <3>3 DEF RunWebsocket, Authorize, PauseEnds, OpenFails, Abort, Closes,
                Disconnect, Disconnected, DisconnectFails, Cancel, CancelEscapes, OnlyRun
    <3> QED
      BY <3>1, <3>2, <3>3
  <2>3. \A c \in Callers : future[c] # "pending" => future'[c] = future[c]
    BY <1>4 DEF TypeOK, RunWebsocket, Authorize, PauseEnds, Opens, OpenFails, Abort, GroupEnds,
                Sever, Closes, Disconnect, Flush, Disconnected, DisconnectFails, Cancel,
                CancelEscapes, OnlyRun
  <2> QED
    BY <1>0, <2>1, <2>2, <2>3, SameOrder
<1>5. CASE ReadEnds \/ Tydom \/ UNCHANGED vars
  <2>1. CASE LinkCloses
    BY <1>0, <2>1, SameOrder DEF LinkCloses, Sever
  <2>2. CASE ~LinkCloses
    BY <1>5, <2>2, SameOrder DEF ReadEnds, ReaderStops, Tydom, TydomAnswers, TydomSends,
                                 TydomForgets, vars
  <2> QED
    BY <2>1, <2>2
<1>6. ASSUME NEW c \in Routines, RoutineRaises(c) PROVE OrderInv'
  BY <1>0, <1>6, SameOrder DEF RoutineRaises, TypeOK, Callers
<1> QED
  BY <1>1, <1>2, <1>3, <1>4, <1>5, <1>6 DEF Next, Connection

\* An answered send resumes only once every handler of a push read before its
\* response has started, for any number of callers and of handlers.
THEOREM PushesFirst == Spec => PushOrder
<1>1. Init => OrderInv
  BY DEF Init, OrderInv, QueuedAreAnswered, QueuedOnce, OwedAreBefore
<1>2. TypeOK /\ PendingInv /\ OrderInv /\ [Next]_vars => OrderInv'
  BY OrderStep
<1>3. TypeOK /\ PendingInv /\ OrderInv /\ [Next]_vars =>
        [\A c \in Callers :
           call[c] = "waiting" /\ future[c] = "answered" /\ call'[c] # "waiting"
             => owed[c] = 0]_vars
  <2> SUFFICES ASSUME TypeOK, PendingInv, OrderInv, Next, NEW c \in Callers,
                      call[c] = "waiting", future[c] = "answered", call'[c] # "waiting"
               PROVE  owed[c] = 0
    OBVIOUS
  <2> USE CallersDisjoint, NoneAndHandlerApart
  <2> USE DEF InFlight, clientVars, runVars, linkVars, sendVars, loopVars
  <2>1. ASSUME NEW d \in Callers, Send(d) PROVE owed[c] = 0
    <3>1. CASE d # c
      BY <2>1, <3>1 DEF TypeOK, Send, Refuse, NotConnected, Begin, SendCompletes, SendFails,
                        TimeOut, CancelCall, Resume, ResumeAnswered, ResumeAs, End, EndHaving
    <3>2. CASE d = c
      <4>1. Resume(c) \/ ResumeAnswered(c)
        BY <2>1, <3>2 DEF Send, Refuse, NotConnected, Begin, MayBegin, SendCompletes, SendFails,
                          TimeOut, CancelCall
      <4>2. CASE Resume(c)
        BY <4>2 DEF Resume, OrderInv, OwedAreBefore
      <4>3. CASE ResumeAnswered(c)
        <5>1. 1 \in DOMAIN ready /\ ready[1] = c
          <6>1. ready \in Seq(Callers \cup {Handler}) /\ ready # <<>> /\ Head(ready) = c
            BY <4>3 DEF TypeOK, ResumeAnswered
          <6> QED
            BY <6>1, EmptySeq
        <5>2. HandlersBefore(ready, 1) = {}
          BY DEF HandlersBefore
        <5> QED
          BY <5>1, <5>2, FS_EmptySet DEF OrderInv, OwedAreBefore
      <4> QED
        BY <4>1, <4>2, <4>3
    <3> QED
      BY <3>1, <3>2
  <2>2. CASE Opens
    BY <2>2 DEF Opens, PendingInv, TasksEnded
  <2>3. CASE RunWebsocket /\ ~Opens
    BY <2>3 DEF RunWebsocket, Authorize, PauseEnds, OpenFails, Abort, GroupEnds, Sever, Closes,
                Disconnect, Disconnected, DisconnectFails, Cancel, CancelEscapes, OnlyRun
  <2>4. CASE Tydom
    BY <2>4 DEF Tydom, TydomAnswers, TydomSends, TydomForgets, LinkCloses, Sever
  <2>5. CASE Connection
    BY <2>5 DEF Connection, StartHandler, ReadMessage, ReadEnds, ReaderStops, RoutineRaises,
                TypeOK
  <2> QED
    BY <2>1, <2>2, <2>3, <2>4, <2>5 DEF Next
<1> QED
  BY InvAlways, <1>1, <1>2, <1>3, PTL DEF Spec, PushOrder
=============================================================================

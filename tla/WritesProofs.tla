---------------------------- MODULE WritesProofs ----------------------------
(***************************************************************************)
(* Proofs about the write tools, for any number of calls, any config and   *)
(* any interval: the rate is kept, and Writes implements WriteOnce.        *)
(***************************************************************************)
EXTENDS WritesProps, CacheSyncProofs, TLAPS

Outcomes == Reasons \cup {"none", "in_flight", "acknowledged", "unknown", "cancelled"}
Commands == {"none", "sent", "taken", "lost"}

\* The part of the type invariant that the proofs need.
Typed ==
  /\ now \in Nat /\ lastSend \in Nat \cup {Never} /\ at \in [Calls -> Nat]
  /\ outcome \in [Calls -> Outcomes] /\ command \in [Calls -> Commands]

\* The cache calls itself connected only on a connection.
OnConnection == marked = "connected" => conn \in {"up", "ending"}

\* A call that has not sent has no command, and an acknowledged one was taken.
Truthful ==
  \A c \in Calls : /\ outcome[c] \in Reasons \cup {"none"} => command[c] = "none"
                   /\ outcome[c] = "acknowledged" => command[c] = "taken"

\* The limiter remembers a time that is past, and no earlier than any send.
Remembers ==
  /\ lastSend \in Nat => lastSend <= now
  /\ \A c \in Calls : command[c] # "none" => lastSend \in Nat /\ at[c] <= lastSend

Inv == Typed /\ OnConnection /\ Truthful /\ Remembers /\ RateKept

-----------------------------------------------------------------------------
LEMMA InvHoldsAtStart == WritesInit => Inv
<1> SUFFICES ASSUME WritesInit PROVE Inv
  OBVIOUS
<1>1. OnConnection BY DEF WritesInit, Init, OnConnection
<1>2. Typed /\ Truthful /\ Remembers /\ RateKept
  BY Clock DEF WritesInit, Typed, Truthful, Remembers, RateKept, Sent, Outcomes, Commands
<1> QED BY <1>1, <1>2 DEF Inv

\* No step of the connection leaves a disconnected cache marked connected.
LEMMA SyncStep ==
  ASSUME OnConnection, Next
  PROVE  OnConnection'
<1>1. CASE \E i \in Ids, f \in Fields : Change(i, f) \/ Feed(i, f)
  BY <1>1 DEF OnConnection, Change, Feed, cacheVars
<1>2. CASE ChangeConfig \/ Reply \/ Read \/ Lose \/ HandlePush \/ HandlerFails
  BY <1>2 DEF OnConnection, ChangeConfig, Reply, Read, Lose, HandlePush, HandlerFails,
              linkVars, feedVars, cacheVars, tydomVars
<1>3. CASE Connect \/ CancelTasks
  BY <1>3 DEF OnConnection, Connect, CancelTasks
<1>4. CASE Routine
  BY <1>4 DEF OnConnection, Routine, GotConfig, GotDevices, GotAreas, GotRefresh,
              RequestFails, BackoffEnds, cacheVars
<1> QED BY <1>1, <1>2, <1>3, <1>4 DEF Next

\* What every step but the sends, the refusals and the clock leaves alone.
LEMMA QuietStep ==
  ASSUME Inv, UNCHANGED <<now, lastSend, at>>, command' = command,
         outcome' \in [Calls -> Outcomes],
         \A c \in Calls : outcome'[c] \in Reasons \cup {"none", "acknowledged"} =>
                            outcome'[c] = outcome[c],
         OnConnection'
  PROVE  Inv'
  BY DEF Inv, Typed, Truthful, Remembers, RateKept, Sent

LEMMA RefusalStep ==
  ASSUME Inv, NEW c \in Calls, NEW r \in Reasons, outcome[c] = "none",
         outcome' = [outcome EXCEPT ![c] = r], NEW t \in Nat,
         at' = at \/ at' = [at EXCEPT ![c] = t],
         UNCHANGED <<vars, now, lastSend, command>>
  PROVE  Inv'
<1>1. command[c] = "none" BY DEF Inv, Truthful
<1>2. Typed' BY DEF Inv, Typed, Outcomes
<1>3. OnConnection' BY DEF Inv, OnConnection, vars, linkVars, feedVars, cacheVars
<1>4. Truthful' BY <1>1 DEF Inv, Typed, Truthful, Reasons
<1>5. \A d \in Calls : command[d] # "none" => at'[d] = at[d]
  BY <1>1 DEF Inv, Typed
<1>6. Remembers' BY <1>5 DEF Inv, Remembers
<1>7. RateKept' BY <1>5 DEF Inv, RateKept, Sent
<1> QED BY <1>2, <1>3, <1>4, <1>6, <1>7 DEF Inv

LEMMA CheckReasons ==
  ASSUME NEW tool \in Tools, NEW target \in Targets, NEW valid \in BOOLEAN
  PROVE  Check(tool, target, valid) \in Reasons \cup {"ok"}
  BY DEF Check, Prepare, ShutterWrite, HeatingWrite, Reasons

LEMMA IssueStep ==
  ASSUME Inv, NEW c \in Calls, NEW tool \in Tools, NEW target \in Targets,
         Issue(c, tool, target)
  PROVE  Inv'
<1>1. command[c] = "none" BY DEF Inv, Truthful, Issue
<1>2. Typed' BY DEF Inv, Typed, Issue, Count, Outcomes, Commands
<1>3. OnConnection' BY DEF Inv, OnConnection, Issue, vars, linkVars, feedVars, cacheVars
<1>4. Truthful' BY DEF Inv, Typed, Truthful, Issue, Reasons
<1>5. \A d \in Calls : command[d] # "none" => lastSend \in Nat /\ at[d] <= lastSend
  BY DEF Inv, Remembers
<1>6. lastSend \in Nat => lastSend + Interval <= now
  <2>1. Interval \in Nat /\ Never \notin Nat BY Clock
  <2>2. ~(lastSend # Never /\ Interval - (now - lastSend) > 0)
    BY DEF Issue, Limited, Wait
  <2> QED BY <2>1, <2>2 DEF Inv, Typed
<1>7. /\ lastSend' = now /\ now' = now
      /\ at' = [at EXCEPT ![c] = now]
      /\ \A d \in Calls : d # c => command'[d] = command[d]
  BY DEF Issue, Count, Inv, Typed
<1>8. Remembers'
  <2>1. \A d \in Calls : command'[d] # "none" => at'[d] <= now
    <3> SUFFICES ASSUME NEW d \in Calls, command'[d] # "none" PROVE at'[d] <= now
      OBVIOUS
    <3>1. CASE d = c BY <3>1, <1>7 DEF Inv, Typed
    <3>2. CASE d # c
      <4>1. lastSend \in Nat /\ at[d] <= lastSend BY <3>2, <1>5, <1>7
      <4>2. lastSend <= now /\ now \in Nat /\ at[d] \in Nat
        BY <4>1 DEF Inv, Typed, Remembers
      <4>3. at'[d] = at[d] BY <3>2, <1>7 DEF Inv, Typed
      <4> QED BY <4>1, <4>2, <4>3
    <3> QED BY <3>1, <3>2
  <2> QED BY <2>1, <1>7 DEF Inv, Typed, Remembers
<1>9. RateKept'
  <2>1. \A d \in Calls : d # c /\ command'[d] # "none" =>
          at'[d] = at[d] /\ command[d] # "none" /\ at[d] + Interval <= now
    <3> SUFFICES ASSUME NEW d \in Calls, d # c, command'[d] # "none"
                 PROVE at'[d] = at[d] /\ command[d] # "none" /\ at[d] + Interval <= now
      OBVIOUS
    <3>1. at'[d] = at[d] /\ command[d] # "none" BY <1>7 DEF Inv, Typed
    <3>2. lastSend \in Nat /\ at[d] <= lastSend /\ at[d] \in Nat
      BY <3>1, <1>5 DEF Inv, Typed
    <3>3. Interval \in Nat /\ now \in Nat BY Clock DEF Inv, Typed
    <3> QED BY <3>1, <3>2, <3>3, <1>6
  <2>2. at'[c] = now BY <1>7 DEF Inv, Typed
  <2> SUFFICES ASSUME NEW d \in Calls, NEW e \in Calls, d # e,
                      command'[d] # "none", command'[e] # "none"
               PROVE at'[d] >= at'[e] + Interval \/ at'[e] >= at'[d] + Interval
    BY DEF RateKept, Sent
  <2>3. CASE d = c
    <3>1. at'[e] + Interval <= now /\ at'[d] = now BY <2>3, <2>1, <2>2
    <3>2. now \in Nat /\ at'[e] \in Nat /\ Interval \in Nat
      BY <1>2, Clock DEF Inv, Typed
    <3> QED BY <3>1, <3>2
  <2>4. CASE e = c
    <3>1. at'[d] + Interval <= now /\ at'[e] = now BY <2>4, <2>1, <2>2
    <3>2. now \in Nat /\ at'[d] \in Nat /\ Interval \in Nat
      BY <1>2, Clock DEF Inv, Typed
    <3> QED BY <3>1, <3>2
  <2>5. CASE d # c /\ e # c
    BY <2>5, <2>1 DEF Inv, RateKept, Sent
  <2> QED BY <2>3, <2>4, <2>5
<1> QED BY <1>2, <1>3, <1>4, <1>8, <1>9 DEF Inv

LEMMA SettlesStep ==
  ASSUME Inv, NEW c \in Calls, Settles(c)
  PROVE  Inv'
<1>1. PICK e \in {"taken", "lost"} : command' = [command EXCEPT ![c] = e]
  BY DEF Settles
<1>2. Typed' BY <1>1 DEF Settles, Inv, Typed, Commands
<1>3. OnConnection' BY DEF Settles, Inv, OnConnection, vars, linkVars, feedVars, cacheVars
<1>4. Truthful' BY <1>1 DEF Settles, Inv, Typed, Truthful
<1>5. \A d \in Calls : command'[d] # "none" <=> command[d] # "none"
  BY <1>1 DEF Settles, Inv, Typed
<1>6. Remembers' BY <1>5 DEF Settles, Inv, Remembers
<1>7. RateKept' BY <1>5 DEF Settles, Inv, RateKept, Sent
<1> QED BY <1>2, <1>3, <1>4, <1>6, <1>7 DEF Inv

LEMMA CallStep ==
  ASSUME Inv, NEW c \in Calls, Call(c)
  PROVE  Inv'
<1>1. CASE \E tool \in Tools, target \in Targets, valid \in BOOLEAN :
             Refuse(c, tool, target, valid)
  <2>1. PICK tool \in Tools, target \in Targets, valid \in BOOLEAN :
          Refuse(c, tool, target, valid)
    BY <1>1
  <2>2. Check(tool, target, valid) \in Reasons BY <2>1, CheckReasons DEF Refuse
  <2> QED BY <2>1, <2>2, RefusalStep DEF Refuse
<1>2. CASE \E tool \in Tools, target \in Targets : RateLimit(c, tool, target)
  <2>1. now \in Nat /\ "rate_limited" \in Reasons BY DEF Inv, Typed, Reasons
  <2> QED BY <1>2, <2>1, RefusalStep DEF RateLimit
<1>3. CASE \E tool \in Tools, target \in Targets : Issue(c, tool, target)
  BY <1>3, IssueStep
<1>4. CASE Acknowledged(c)
  <2>1. OnConnection' BY <1>4 DEF Acknowledged, Inv, OnConnection, vars, linkVars, feedVars, cacheVars
  <2>2. Typed' BY <1>4 DEF Acknowledged, Inv, Typed, Outcomes
  <2>3. Truthful' BY <1>4 DEF Acknowledged, Inv, Typed, Truthful, Reasons
  <2> QED BY <1>4, <2>1, <2>2, <2>3 DEF Acknowledged, Inv, Remembers, RateKept, Sent
<1>5. CASE Unknown(c) \/ Cancelled(c)
  <2>1. OnConnection'
    BY <1>5 DEF Unknown, Cancelled, Inv, OnConnection, vars, linkVars, feedVars, cacheVars
  <2>2. outcome' \in [Calls -> Outcomes]
    BY <1>5 DEF Unknown, Cancelled, Inv, Typed, Outcomes
  <2>3. \A d \in Calls : outcome'[d] \in Reasons \cup {"none", "acknowledged"} =>
                           outcome'[d] = outcome[d]
    BY <1>5 DEF Unknown, Cancelled, Inv, Typed, Reasons
  <2> QED BY <1>5, <2>1, <2>2, <2>3, QuietStep DEF Unknown, Cancelled
<1>6. CASE Settles(c)
  BY <1>6, SettlesStep
<1> QED BY <1>1, <1>2, <1>3, <1>4, <1>5, <1>6 DEF Call

LEMMA InvStep == Inv /\ [WritesNext]_allVars => Inv'
<1> SUFFICES ASSUME Inv, [WritesNext]_allVars PROVE Inv'
  OBVIOUS
<1>1. CASE \E c \in Calls : Call(c)
  BY <1>1, CallStep
<1>2. CASE Tick
  <2>1. OnConnection' BY <1>2 DEF Tick, Inv, OnConnection, vars, linkVars, feedVars, cacheVars
  <2>2. now \in Nat /\ now' = now + 1 BY <1>2 DEF Tick, Inv, Typed
  <2>3. Typed' BY <1>2, <2>2 DEF Tick, Inv, Typed
  <2>4. Remembers' BY <1>2, <2>2 DEF Tick, Inv, Remembers
  <2> QED BY <1>2, <2>1, <2>3, <2>4 DEF Tick, Inv, Truthful, RateKept, Sent
<1>3. CASE Synchronise
  <2>1. OnConnection' BY <1>3, SyncStep DEF Synchronise, Inv
  <2>2. outcome' \in [Calls -> Outcomes]
    BY <1>3 DEF Synchronise, Fails, Inv, Typed, Outcomes
  <2>3. \A d \in Calls : outcome'[d] \in Reasons \cup {"none", "acknowledged"} =>
                           outcome'[d] = outcome[d]
    BY <1>3 DEF Synchronise, Fails, Inv, Typed, Reasons
  <2> QED BY <1>3, <2>1, <2>2, <2>3, QuietStep DEF Synchronise
<1>4. CASE UNCHANGED allVars
  BY <1>4 DEF allVars, writeVars, vars, linkVars, feedVars, cacheVars, Inv, Typed, OnConnection,
              Truthful, Remembers, RateKept, Sent
<1> QED BY <1>1, <1>2, <1>3, <1>4 DEF WritesNext

LEMMA InvAlways == WritesSpec => []Inv
  BY InvHoldsAtStart, InvStep, PTL DEF WritesSpec

\* "One write is sent per 1 / rate s", whatever the rate, the calls, their outcomes
\* and the connections (Writes._count).
THEOREM RateIsKept == WritesSpec => []RateKept
<1>1. Inv => RateKept BY DEF Inv
<1> QED BY <1>1, InvAlways, PTL

-----------------------------------------------------------------------------
(* Writes implements WriteOnce                                             *)

LEMMA StartMaps == WritesInit => Once!Init
  BY DEF WritesInit, Once!Init, Reported, Reasons

LEMMA CallMaps ==
  ASSUME Inv, NEW c \in Calls, Call(c)
  PROVE  [Once!Next]_(Once!vars)
<1>1. CASE \E tool \in Tools, target \in Targets, valid \in BOOLEAN :
             Refuse(c, tool, target, valid)
  <2>1. PICK tool \in Tools, target \in Targets, valid \in BOOLEAN :
          Refuse(c, tool, target, valid)
    BY <1>1
  <2>2. Check(tool, target, valid) \in Reasons BY <2>1, CheckReasons DEF Refuse
  <2>3. Once!Refuse(c)
    BY <2>1, <2>2 DEF Refuse, Once!Refuse, Reported, Inv, Typed, Reasons
  <2> QED BY <2>3 DEF Once!Next
<1>2. CASE \E tool \in Tools, target \in Targets : RateLimit(c, tool, target)
  <2>1. Once!Refuse(c)
    BY <1>2 DEF RateLimit, Once!Refuse, Reported, Inv, Typed, Reasons
  <2> QED BY <2>1 DEF Once!Next
<1>3. CASE \E tool \in Tools, target \in Targets : Issue(c, tool, target)
  <2>1. PICK tool \in Tools, target \in Targets : Issue(c, tool, target)
    BY <1>3
  <2>2. Fresh BY <2>1 DEF Issue, Check
  <2>3. conn \in {"up", "ending"} BY <2>2 DEF Fresh, Inv, OnConnection
  <2>4. outcome[c] = "none" /\ command[c] = "none"
    BY <2>1 DEF Issue, Inv, Truthful
  <2>5. outcome' = [outcome EXCEPT ![c] = "in_flight"] BY <2>1, <2>3 DEF Issue
  <2>6. Reported' = [Reported EXCEPT ![c] = "in_flight"]
    BY <2>4, <2>5 DEF Reported, Inv, Typed, Reasons
  <2>7. \E e \in {"sent", "lost"} : command' = [command EXCEPT ![c] = e]
    BY <2>1 DEF Issue
  <2>8. Once!Issue(c)
    BY <2>4, <2>6, <2>7 DEF Once!Issue, Reported, Reasons
  <2> QED BY <2>8 DEF Once!Next
<1>4. CASE Acknowledged(c)
  <2>1. Once!Acknowledge(c)
    BY <1>4 DEF Acknowledged, Once!Acknowledge, Reported, Inv, Typed, Reasons
  <2> QED BY <2>1 DEF Once!Next
<1>5. ASSUME NEW r \in {"unknown", "cancelled"}, outcome[c] = "in_flight",
             outcome' = [outcome EXCEPT ![c] = r], command' = command
      PROVE  Once!Next
  <2>1. Once!GiveUp({c})
    BY <1>5 DEF Once!GiveUp, Reported, Inv, Typed, Reasons
  <2> QED BY <2>1 DEF Once!Next
<1>6. CASE Unknown(c) \/ Cancelled(c)
  BY <1>5, <1>6 DEF Unknown, Cancelled
<1>7. CASE Settles(c)
  <2>1. Once!Settle(c)
    BY <1>7 DEF Settles, Once!Settle, Reported
  <2> QED BY <2>1 DEF Once!Next
<1> QED BY <1>1, <1>2, <1>3, <1>4, <1>6, <1>7 DEF Call

LEMMA SynchroniseMaps ==
  ASSUME Inv, Synchronise
  PROVE  [Once!Next]_(Once!vars)
<1> DEFINE ended == {c \in Calls : outcome[c] = "in_flight"}
<1>1. outcome' = Fails /\ command' = command BY DEF Synchronise
<1>2. ended \in SUBSET Calls /\ \A c \in ended : Reported[c] = "in_flight"
  BY DEF Reported, Reasons
<1>3. CASE conn' \in {"down", "stopped"}
  <2>1. PICK r \in {"unknown", "cancelled"} :
          outcome' = [c \in Calls |-> IF c \in ended THEN r ELSE outcome[c]]
    BY <1>1, <1>3 DEF Fails
  <2>2. Reported' = [c \in Calls |-> IF c \in ended THEN r ELSE Reported[c]]
    BY <2>1 DEF Reported, Reasons
  <2>3. Once!GiveUp(ended) BY <1>1, <1>2, <2>2 DEF Once!GiveUp
  <2> QED BY <1>2, <2>3 DEF Once!Next
<1>4. CASE conn' \notin {"down", "stopped"}
  BY <1>1, <1>4 DEF Fails, Inv, Typed, Reported, Once!vars
<1> QED BY <1>3, <1>4

LEMMA StepMaps == Inv /\ [WritesNext]_allVars => [Once!Next]_(Once!vars)
<1> SUFFICES ASSUME Inv, [WritesNext]_allVars PROVE [Once!Next]_(Once!vars)
  OBVIOUS
<1>1. CASE \E c \in Calls : Call(c)
  BY <1>1, CallMaps
<1>2. CASE Tick
  BY <1>2 DEF Tick, Reported, Once!vars
<1>3. CASE Synchronise
  BY <1>3, SynchroniseMaps
<1>4. CASE UNCHANGED allVars
  BY <1>4 DEF allVars, writeVars, Reported, Once!vars
<1> QED BY <1>1, <1>2, <1>3, <1>4 DEF WritesNext

\* Every call of a write tool changes the home at most once, and reports the truth:
\* the write tools over the cache and the client implement WriteOnce.
THEOREM ImplementsWriteOnce == WritesSpec => SendsOnce
<1>1. Inv /\ [WritesNext]_allVars => [Once!Next]_(Once!vars) BY StepMaps
<1> QED BY <1>1, StartMaps, InvAlways, PTL DEF WritesSpec, SendsOnce, Once!Spec

\* "Nothing was sent" is true for ever, and an acknowledged command was taken: what
\* WriteOnce promises its callers.
THEOREM ReportsTheTruth == WritesSpec => []Once!Honest
<1>1. Inv => Once!Honest
  BY DEF Inv, Typed, Truthful, Once!Honest, Reported, Reasons, Outcomes
<1> QED BY <1>1, InvAlways, PTL

-----------------------------------------------------------------------------
(* What is told and asked of the caller                                    *)

\* The write tools leave the cache and its connection to CacheSync.
LEMMA SyncStepOrNone == [WritesNext]_allVars => [Next]_vars
<1> SUFFICES ASSUME [WritesNext]_allVars PROVE [Next]_vars
  OBVIOUS
<1>1. CASE \E c \in Calls : Call(c)
  BY <1>1 DEF Call, Refuse, RateLimit, Issue, Acknowledged, Unknown, Cancelled, Settles
<1> QED BY <1>1 DEF WritesNext, Tick, Synchronise, allVars

LEMMA WritesKeepSync == WritesSpec => Spec
<1>1. WritesInit => Init BY DEF WritesInit
<1> QED BY <1>1, SyncStepOrNone, PTL DEF WritesSpec, Spec

\* ceil(Wait / Grain) milliseconds are enough, and the cap is too.
LEMMA RetryAfterIsEnough ==
  ASSUME Wait \in 1 .. Interval
  PROVE  RetryAfter \in Wait .. Interval
<1> DEFINE q == (Wait + Grain - 1) \div Grain
           up == q * Grain
<1>1. Interval \in Nat /\ Grain \in Nat /\ Grain > 0 BY Clock
<1>2. q \in Int /\ up \in Int /\ up >= Wait
  <2>1. q \in Nat /\ Wait + Grain - 1 < (q + 1) * Grain BY <1>1
  <2>2. (q + 1) * Grain = q * Grain + Grain BY <1>1, <2>1
  <2>3. q * Grain \in Int BY <1>1, <2>1
  <2> QED BY <1>1, <2>1, <2>2, <2>3
<1>3. RetryAfter = Min({up, Interval}) BY DEF RetryAfter
<1> HIDE DEF up
<1>4. \E x \in {up, Interval} : \A y \in {up, Interval} : x <= y BY <1>1, <1>2
<1>5. RetryAfter \in {up, Interval} /\ \A y \in {up, Interval} : RetryAfter <= y
  BY <1>3, <1>4 DEF Min
<1> QED BY <1>1, <1>2, <1>5
LEMMA LimitedWait ==
  ASSUME WritesTypeOK, Inv, Limited
  PROVE  lastSend \in Nat /\ Wait \in 1 .. Interval
<1>1. lastSend \in Nat /\ now \in Nat /\ lastSend <= now
  BY DEF Limited, Inv, Typed, Remembers
<1> QED BY <1>1, Clock DEF Limited, Wait

LEMMA WritesTypeStep ==
  ASSUME WritesTypeOK, Inv, [WritesNext]_allVars
  PROVE  WritesTypeOK'
<1>1. ASSUME NEW c \in Calls, Call(c) PROVE WritesTypeOK'
  <2>1. CASE \E tool \in Tools, target \in Targets, valid \in BOOLEAN :
               Refuse(c, tool, target, valid)
    BY <2>1, CheckReasons DEF Refuse, WritesTypeOK, Reasons
  <2>2. CASE \E tool \in Tools, target \in Targets : RateLimit(c, tool, target)
    <3>1. RetryAfter \in 0 .. Interval
      <4>1. Wait \in 1 .. Interval BY <2>2, LimitedWait DEF RateLimit
      <4> QED BY <4>1, RetryAfterIsEnough, Clock
    <3> QED BY <2>2, <3>1 DEF RateLimit, WritesTypeOK, Reasons
  <2>3. CASE \E tool \in Tools, target \in Targets : Issue(c, tool, target)
    BY <2>3 DEF Issue, Count, WritesTypeOK
  <2>4. CASE Acknowledged(c) \/ Unknown(c) \/ Cancelled(c) \/ Settles(c)
    BY <2>4 DEF Acknowledged, Unknown, Cancelled, Settles, WritesTypeOK
  <2> QED BY <1>1, <2>1, <2>2, <2>3, <2>4 DEF Call
<1>2. CASE Tick
  BY <1>2, Clock DEF Tick, WritesTypeOK
<1>3. CASE Synchronise
  BY <1>3 DEF Synchronise, Fails, WritesTypeOK
<1>4. CASE UNCHANGED allVars
  BY <1>4 DEF allVars, writeVars, WritesTypeOK
<1> QED BY <1>1, <1>2, <1>3, <1>4 DEF WritesNext

\* The variables of the write tools keep their types; retry_after_s is never
\* negative, and never above the interval.
THEOREM WritesTypeCorrect == WritesSpec => []WritesTypeOK
<1>1. ASSUME WritesInit PROVE WritesTypeOK
  <2>1. 0 \in 0 .. MaxTime /\ 0 \in 0 .. Interval BY Clock
  <2> QED BY <1>1, <2>1 DEF WritesInit, WritesTypeOK
<1>2. WritesTypeOK /\ Inv /\ [WritesNext]_allVars => WritesTypeOK' BY WritesTypeStep
<1> QED BY <1>1, <1>2, InvAlways, PTL DEF WritesSpec

\* A call refused by the rate limiter after the last send was told to wait until the
\* limiter lets go.
Waits ==
  \A c \in Calls : outcome[c] = "rate_limited" =>
    /\ lastSend \in Nat /\ at[c] <= now
    /\ lastSend <= at[c] =>
         at[c] < lastSend + Interval /\ lastSend + Interval <= at[c] + retry[c]

LEMMA WaitsStep ==
  ASSUME WritesTypeOK, Inv, Waits, [WritesNext]_allVars
  PROVE  Waits'
<1>1. /\ now \in Nat /\ lastSend \in Nat \cup {Never} /\ Never \notin Nat
      /\ Interval \in Nat \ {0} /\ retry \in [Calls -> Nat] /\ at \in [Calls -> Nat]
  BY Clock DEF WritesTypeOK
<1>2. ASSUME UNCHANGED <<lastSend, at, retry>>, now' \in Nat, now <= now',
             \A c \in Calls : outcome'[c] = "rate_limited" => outcome[c] = "rate_limited"
      PROVE  Waits'
  BY <1>1, <1>2 DEF Waits
<1>3. ASSUME NEW c \in Calls, Call(c) PROVE Waits'
  <2>1. CASE \E tool \in Tools, target \in Targets, valid \in BOOLEAN :
               Refuse(c, tool, target, valid)
    <3>1. PICK tool \in Tools, target \in Targets, valid \in BOOLEAN :
            Refuse(c, tool, target, valid)
      BY <2>1
    <3>2. Check(tool, target, valid) # "rate_limited"
      BY DEF Check, Prepare, ShutterWrite, HeatingWrite
    <3> QED BY <1>1, <1>2, <3>1, <3>2 DEF Refuse, WritesTypeOK
  <2>2. CASE \E tool \in Tools, target \in Targets : RateLimit(c, tool, target)
    <3>1. /\ Limited /\ UNCHANGED <<now, lastSend>>
          /\ outcome' = [outcome EXCEPT ![c] = "rate_limited"]
          /\ at' = [at EXCEPT ![c] = now] /\ retry' = [retry EXCEPT ![c] = RetryAfter]
      BY <2>2 DEF RateLimit
    <3>2. lastSend \in Nat /\ Wait \in 1 .. Interval BY <3>1, LimitedWait
    <3>3. RetryAfter \in Wait .. Interval BY <3>2, RetryAfterIsEnough
    <3>4. at'[c] = now /\ retry'[c] = RetryAfter BY <1>1, <3>1
    <3>5. at'[c] < lastSend + Interval /\ lastSend + Interval <= at'[c] + retry'[c]
      <4>1. Wait = Interval - (now - lastSend) BY DEF Wait
      <4> HIDE DEF Wait
      <4> QED BY <1>1, <3>2, <3>3, <3>4, <4>1
    <3>6. \A d \in Calls \ {c} :
            outcome'[d] = outcome[d] /\ at'[d] = at[d] /\ retry'[d] = retry[d]
      BY <1>1, <3>1 DEF WritesTypeOK
    <3> QED BY <1>1, <3>1, <3>2, <3>4, <3>5, <3>6 DEF Waits
  <2>3. CASE \E tool \in Tools, target \in Targets : Issue(c, tool, target)
    <3>1. /\ ~Limited /\ lastSend' = now /\ UNCHANGED <<now, retry>>
          /\ at' = [at EXCEPT ![c] = now]
          /\ outcome'[c] # "rate_limited"
          /\ \A d \in Calls \ {c} : outcome'[d] = outcome[d]
      BY <2>3 DEF Issue, Count, WritesTypeOK
    <3>2. \A d \in Calls \ {c} : at'[d] = at[d] BY <1>1, <3>1
    <3>3. lastSend \in Nat => lastSend + Interval <= now
      BY <1>1, <3>1 DEF Limited, Wait
    <3>4. ASSUME NEW d \in Calls, outcome'[d] = "rate_limited"
          PROVE  at'[d] < now
      <4>1. /\ d # c /\ lastSend \in Nat /\ at[d] <= now
            /\ lastSend <= at[d] => at[d] < lastSend + Interval
        BY <3>1, <3>4 DEF Waits
      <4>2. lastSend <= now /\ at[d] \in Nat BY <1>1, <3>3, <4>1
      <4> QED BY <1>1, <3>2, <3>3, <4>1, <4>2
    <3>5. \A d \in Calls : at'[d] \in Nat BY <1>1, <3>1
    <3> QED BY <1>1, <3>1, <3>4, <3>5 DEF Waits
  <2>4. CASE Acknowledged(c) \/ Unknown(c) \/ Cancelled(c) \/ Settles(c)
    BY <1>1, <1>2, <2>4 DEF Acknowledged, Unknown, Cancelled, Settles, WritesTypeOK
  <2> QED BY <1>3, <2>1, <2>2, <2>3, <2>4 DEF Call
<1>4. CASE Tick
  BY <1>1, <1>2, <1>4 DEF Tick
<1>5. CASE Synchronise
  BY <1>1, <1>2, <1>5 DEF Synchronise, Fails
<1>6. CASE UNCHANGED allVars
  BY <1>1, <1>2, <1>6 DEF allVars, writeVars
<1> QED BY <1>3, <1>4, <1>5, <1>6 DEF WritesNext

\* Whatever the rate and the precision of retry_after_s, a caller that waits that
\* long is not refused by the rate limiter again, unless another write was sent.
THEOREM WaitingIsEnough == WritesSpec => []RetryIsEnough
<1>1. WritesInit => Waits BY DEF WritesInit, Waits
<1>2. WritesTypeOK /\ Inv /\ Waits /\ [WritesNext]_allVars => Waits' BY WaitsStep
<1>3. WritesTypeOK /\ Waits => RetryIsEnough
  <2> SUFFICES ASSUME WritesTypeOK, Waits, NEW c \in Calls, outcome[c] = "rate_limited",
                      lastSend <= at[c], now >= at[c] + retry[c]
               PROVE  ~Limited
    BY DEF RetryIsEnough
  <2>1. lastSend \in Nat /\ lastSend + Interval <= at[c] + retry[c] BY DEF Waits
  <2>2. now \in Nat /\ at[c] \in Nat /\ retry[c] \in Nat /\ Interval \in Nat
    BY Clock DEF WritesTypeOK
  <2> QED BY <2>1, <2>2 DEF Limited, Wait
<1> QED BY <1>1, <1>2, <1>3, WritesTypeCorrect, InvAlways, PTL DEF WritesSpec
\* Until the Tydom's config changes, it is the config on its way to the client, and
\* the one the cache was given once the routine has had it.
ConfigFollowed ==
  ~drifted /\ conn \in {"up", "ending"} =>
    /\ \A n \in 1 .. Len(Stream) : Stream[n].kind = "config" => Stream[n].body = config
    /\ step \in {"devices", "areas", "refresh", "waiting"} => usages = config

LEMMA ConfigFollowedStep ==
  ASSUME TypeOK, Linked, ConfigFollowed, Synchronise, ~drifted', conn' \in {"up", "ending"}
  PROVE  /\ \A n \in 1 .. Len(Stream') :
              Stream'[n].kind = "config" => Stream'[n].body = config'
         /\ step' \in {"devices", "areas", "refresh", "waiting"} => usages' = config'
<1> DEFINE Goal ==
      /\ \A n \in 1 .. Len(Stream') :
           Stream'[n].kind = "config" => Stream'[n].body = config'
      /\ step' \in {"devices", "areas", "refresh", "waiting"} => usages' = config'
<1> USE DEF tydomVars, linkVars, feedVars, cacheVars
<1>1. /\ ready \in Seq(Message) /\ inbox \in Seq(Message) /\ Stream \in Seq(Message)
      /\ conn \in {"down", "up", "ending", "stopped"}
  BY StreamTypes DEF TypeOK
<1>2. Next /\ (conn # "down" => ~drifted /\ config' = config)
  BY DEF Synchronise
<1>3. CASE conn = "down"
  <2>1. Connect
    BY <1>2, <1>3 DEF Next, Routine, Change, Feed, ChangeConfig, Reply, Read, Lose, CancelTasks,
       HandlePush, HandlerFails, GotConfig, GotDevices, GotAreas, GotRefresh, Resume,
       RequestFails, BackoffEnds, Linked, linkVars
  <2>2. inbox' = <<>> /\ ready' = <<>> /\ step' = "config"
    BY <2>1 DEF Connect, Linked, Ask
  <2>3. Len(Stream') = 0 BY <2>2, ConcatEmptySeq, EmptySeq DEF Stream
  <2> QED BY <2>2, <2>3
<1>4. CASE conn = "stopped"
  BY <1>2, <1>4 DEF Next, Routine, Change, Feed, ChangeConfig, Reply, Connect, Read, Lose,
     CancelTasks, HandlePush, HandlerFails, GotConfig, GotDevices, GotAreas, GotRefresh,
     Resume, RequestFails, BackoffEnds, Linked, linkVars
<1> SUFFICES ASSUME conn \in {"up", "ending"} PROVE Goal
  BY <1>1, <1>3, <1>4
<1>5. /\ config' = config
      /\ \A n \in 1 .. Len(Stream) : Stream[n].kind = "config" => Stream[n].body = config
      /\ step \in {"devices", "areas", "refresh", "waiting"} => usages = config
  BY <1>2 DEF ConfigFollowed
<1>6. ASSUME NEW k \in {1, 2}, Within(Stream', Stream, k)
      PROVE  \A n \in 1 .. Len(Stream') :
               Stream'[n].kind = "config" => Stream'[n].body = config'
  <2>1. PICK h \in [1 .. Len(Stream') -> k .. Len(Stream)] :
          \A n \in 1 .. Len(Stream') : Stream'[n] = Stream[h[n]]
    BY <1>6 DEF Within
  <2>2. \A n \in 1 .. Len(Stream') : h[n] \in 1 .. Len(Stream)
    BY <1>1, <1>6, <2>1, LenProperties
  <2> QED BY <1>5, <2>1, <2>2
<1>7. ASSUME NEW m \in Message, Send(m), ready' = ready, UNCHANGED <<step, usages>>,
             m.kind = "config" => m.body = config
      PROVE  Goal
  <2>1. inbox' \in Seq(Message) /\ Longer(Stream', Stream, m)
    BY <1>1, <1>7, AppendSecondPart DEF Send, Stream
  <2>2. \A n \in 1 .. Len(Stream') : n = Len(Stream) + 1 \/ n \in 1 .. Len(Stream)
    BY <1>1, <2>1, LenProperties DEF Longer
  <2> QED BY <1>5, <1>7, <2>1, <2>2 DEF Longer
<1>8. ASSUME ready # <<>>, Took, inbox' \in {inbox, <<>>}
      PROVE  /\ \A n \in 1 .. Len(Stream') :
                  Stream'[n].kind = "config" => Stream'[n].body = config'
             /\ Oldest.kind = "config" => Oldest.body = config
  BY <1>5, <1>6, <1>8, TookStep
<1>9. CASE \E i \in Ids, f \in Fields : Change(i, f)
  <2>1. PICK i \in Ids, f \in Fields : Change(i, f) BY <1>9
  <2>2. UNCHANGED <<ready, step, usages>> BY <2>1 DEF Change
  <2>3. CASE UNCHANGED inbox BY <1>5, <2>2, <2>3 DEF Stream
  <2>4. CASE Send(PushOf(i, f, source'[i][f]))
    <3> DEFINE m == PushOf(i, f, source'[i][f])
    <3>0. source \in Data BY DEF TypeOK
    <3>1. source'[i][f] \in Values BY <2>1, <3>0 DEF Change, Data, Values
    <3>2. m \in Message /\ m.kind = "push" BY <3>1 DEF Message, Push, PushOf
    <3>3. Send(m) BY <2>4
    <3> HIDE DEF m
    <3> QED BY <1>7, <2>2, <3>2, <3>3
  <2> QED BY <2>1, <2>3, <2>4 DEF Change
<1>20. CASE \E i \in Ids, f \in Fields : Feed(i, f)
  <2>1. PICK i \in Ids, f \in Fields : Feed(i, f) BY <1>20
  <2> DEFINE m == PushOf(i, f, source[i][f])
  <2>2. m \in Message /\ m.kind = "push"
    BY DEF TypeOK, Data, Message, Push, PushOf
  <2>3. Send(m) /\ UNCHANGED <<ready, step, usages>> BY <2>1 DEF Feed
  <2> HIDE DEF m
  <2> QED BY <1>7, <2>2, <2>3
<1>10. CASE Reply
  <2> DEFINE m == AnswerTo(asked)
  <2>1. m \in Message /\ (m.kind = "config" => m.body = config)
    BY <1>10 DEF Reply, TypeOK, AnswerTo, Gets, Message, Answer
  <2>2. Send(m) /\ UNCHANGED <<ready, step, usages>> BY <1>10 DEF Reply
  <2> HIDE DEF m
  <2> QED BY <1>7, <2>1, <2>2
<1>11. CASE Read
  <2>1. UNCHANGED <<step, usages>> BY <1>11 DEF Read
  <2>2. Within(Stream', Stream, 1) BY <1>1, <1>11, ReadStepMoves, CutIsWithin, WithinItself
  <2> QED BY <1>5, <1>6, <2>1, <2>2
<1>12. CASE Lose
  <2>1. UNCHANGED <<ready, step, usages>> /\ inbox' = <<>> BY <1>12 DEF Lose
  <2>2. Within(Stream', Stream, 1) BY <1>1, <2>1, FirstPartWithin DEF Stream
  <2> QED BY <1>5, <1>6, <2>1, <2>2
<1>13. CASE HandlePush \/ HandlerFails
  BY <1>5, <1>8, <1>13 DEF HandlePush, HandlerFails
<1>14. CASE GotConfig
  <2>1. usages' = config BY <1>8, <1>14 DEF GotConfig, Resume, ApplyConfig
  <2> QED BY <1>5, <1>8, <1>14, <2>1 DEF GotConfig, Resume
<1>15. CASE GotDevices \/ GotAreas \/ GotRefresh
  <2>1. usages' = usages /\ step \in {"devices", "areas", "refresh"}
    BY <1>15 DEF GotDevices, GotAreas, GotRefresh, Resume
  <2> QED BY <1>5, <1>8, <1>15, <2>1 DEF GotDevices, GotAreas, GotRefresh, Resume
<1>16. CASE RequestFails
  <2>1. usages' = usages /\ (step' = "backoff" \/ step = "refresh") BY <1>16 DEF RequestFails
  <2>2. Within(Stream', Stream, 1) BY <1>1, <1>16, FailureCuts, CutOfAnswersIsWithin
  <2> QED BY <1>5, <1>6, <2>1, <2>2
<1>17. CASE BackoffEnds
  <2>1. step' = "config" /\ UNCHANGED <<inbox, ready>> BY <1>17 DEF BackoffEnds, Ask
  <2> QED BY <1>5, <2>1 DEF Stream
<1>18. CASE ChangeConfig
  BY <1>5, <1>18 DEF ChangeConfig, Stream
<1>19. CASE Connect \/ CancelTasks
  BY <1>19 DEF Connect, CancelTasks
<1> QED BY <1>2, <1>9, <1>10, <1>11, <1>12, <1>13, <1>14, <1>15, <1>16, <1>17, <1>18, <1>19,
           <1>20
        DEF Next, Routine

LEMMA ConfigFollowedAlways == WritesSpec => []ConfigFollowed
<1>1. WritesInit => ConfigFollowed BY DEF WritesInit, Init, ConfigFollowed
<1>2. ASSUME TypeOK, Linked, ConfigFollowed, [WritesNext]_allVars PROVE ConfigFollowed'
  <2>1. CASE Synchronise BY <1>2, <2>1, ConfigFollowedStep DEF ConfigFollowed
  <2>2. ASSUME UNCHANGED <<vars, drifted>> PROVE ConfigFollowed'
    BY <1>2, <2>2 DEF ConfigFollowed, Stream, vars, tydomVars, linkVars, feedVars, cacheVars
  <2>3. CASE \E c \in Calls : Call(c)
    BY <2>2, <2>3
       DEF Call, Refuse, RateLimit, Issue, Acknowledged, Unknown, Cancelled, Settles
  <2> QED BY <1>2, <2>1, <2>2, <2>3 DEF WritesNext, Tick, allVars
<1>3. WritesSpec => []TypeOK /\ []Linked
  BY WritesKeepSync, TypeCorrect, LinkedAlways, PTL
<1> QED BY <1>1, <1>2, <1>3, PTL DEF WritesSpec

\* No write goes to a target of another usage than its tool's, unless the Tydom's
\* config changed since the client connected, whatever it was on earlier
\* connections: Writes._write checks the cache, which the connection's end marks.
THEOREM TargetsAreRight == WritesSpec => RightUsage
<1>1. ASSUME TypeOK, Linked, ConfigFollowed, NEW c \in Calls, NEW tool \in Tools,
             NEW target \in Targets, Issue(c, tool, target), ~drifted
      PROVE  config[target] \in UsagesOf(tool, target)
  <2>1. Fresh /\ Prepare(tool, target, TRUE) = "ok" BY <1>1 DEF Issue, Check
  <2>2. usages = config
    BY <1>1, <2>1 DEF Fresh, TypeOK, Linked, ConfigFollowed
  <2>3. usages[target] \in UsagesOf(tool, target)
    BY <2>1, TargetsDisjoint
       DEF Prepare, ShutterWrite, HeatingWrite, Zones, UsagesOf, Tools, Targets, Ids
  <2> QED BY <2>2, <2>3
<1>2. TypeOK /\ Linked /\ ConfigFollowed =>
        [\A c \in Calls, tool \in Tools, target \in Targets :
           Issue(c, tool, target) /\ ~drifted =>
             config[target] \in UsagesOf(tool, target)]_allVars
  BY <1>1
<1>3. WritesSpec => []TypeOK /\ []Linked
  BY WritesKeepSync, TypeCorrect, LinkedAlways, PTL
<1> QED BY <1>2, <1>3, ConfigFollowedAlways, PTL DEF RightUsage

-----------------------------------------------------------------------------
\* The write tools read the cache and send, and change neither the cache nor the
\* routine that keeps it: each of their steps is one of CacheSync or leaves it alone.
THEOREM WritesImplementCacheSync == WritesSpec => Spec
<1>1. WritesInit => Init
  BY DEF WritesInit
<1>2. [WritesNext]_allVars => [Next]_vars
  <2> SUFFICES ASSUME [WritesNext]_allVars PROVE [Next]_vars
    OBVIOUS
  <2>1. ASSUME NEW c \in Calls, Call(c) PROVE UNCHANGED vars
    BY <2>1 DEF Call, Refuse, RateLimit, Issue, Acknowledged, Unknown, Cancelled, Settles
  <2>2. CASE Tick
    BY <2>2 DEF Tick
  <2>3. CASE Synchronise
    BY <2>3 DEF Synchronise
  <2>4. CASE UNCHANGED allVars
    BY <2>4 DEF allVars
  <2> QED
    BY <2>1, <2>2, <2>3, <2>4 DEF WritesNext
<1> QED
  BY <1>1, <1>2, PTL DEF WritesSpec, Spec

\* With write tools running, what get_state calls fresh is still no older than the
\* connection and, but for the meters that are not fed, is what the Tydom
\* holds, up to the pushes on their way, and no cached value goes back.
THEOREM FreshWithWrites == WritesSpec => []FreshMeansCurrent /\ NeverGoesBack
BY WritesImplementCacheSync, FreshIsCurrent, ValuesNeverGoBack, PTL
=============================================================================

------------------------------- MODULE Writes -------------------------------
(***************************************************************************)
(* The write tools (Writes, tydomio/mcp_server/writes.py) over the cache   *)
(* of module CacheSync and the client's send: each call is checked against *)
(* the cache, counted by the rate limiter and sent, in one step of the     *)
(* event loop, and then waits for its response.                            *)
(*                                                                         *)
(* Time is in ticks, Grain of them to a millisecond, as the interval 1/rate*)
(* need not be a whole number of milliseconds.                             *)
(***************************************************************************)
EXTENDS CacheSync

CONSTANTS
  Calls,          \* calls of the write tools
  ShutterUsages,  \* the usages set_shutter writes
  HeatingUsages,  \* the usages of the endpoints set_heating writes
  HeatingAreaUsages, \* the usages of the areas it writes
  Interval,       \* 1 / rate
  Grain,          \* ticks in a millisecond, the precision of retry_after_s
  MaxTime,        \* bound on the clock
  Never           \* no send

ASSUME UsagesApart ==
  /\ ShutterUsages \cup HeatingUsages \cup HeatingAreaUsages \subseteq Usages
  /\ ShutterUsages \cap (HeatingUsages \cup HeatingAreaUsages) = {}
ASSUME Clock ==
  {Interval, Grain} \subseteq Nat \ {0} /\ MaxTime \in Nat /\ Never \notin Nat

VARIABLES
  now,      \* the monotonic clock
  lastSend, \* Writes._last_send
  outcome,  \* how each call ended: an outcome, or the reason nothing was sent
  command,  \* what became of its command
  at,       \* when each call was counted, or refused by the rate limiter
  retry,    \* the retry_after_s it was given
  drifted   \* whether the Tydom's config changed since the client connected

writeVars == <<now, lastSend, outcome, command, at, retry>>
allVars == <<vars, writeVars, drifted>>

Tools == {"set_shutter", "set_heating"}
Reasons == {"invalid_input", "not_synced", "unknown_target", "wrong_usage", "invalid_write",
            "rate_limited"}

WritesTypeOK ==
  /\ now \in 0 .. MaxTime /\ lastSend \in 0 .. MaxTime \cup {Never}
  /\ outcome \in [Calls -> Reasons \cup {"none", "in_flight", "acknowledged", "unknown",
                                         "cancelled"}]
  /\ command \in [Calls -> {"none", "sent", "taken", "lost"}]
  /\ at \in [Calls -> 0 .. MaxTime] /\ retry \in [Calls -> 0 .. Interval]
  /\ drifted \in BOOLEAN

WritesInit ==
  /\ Init
  /\ now = 0 /\ lastSend = Never /\ drifted = FALSE
  /\ outcome = [c \in Calls |-> "none"] /\ command = [c \in Calls |-> "none"]
  /\ at = [c \in Calls |-> 0] /\ retry = [c \in Calls |-> 0]

-----------------------------------------------------------------------------
(* The checks, in their order                                              *)

\* Steps 2 to 4 of set_shutter: endpoints and groups of a shutter usage.
ShutterWrite(target, valid) ==
  IF usages[target] = Unset THEN "unknown_target"
  ELSE IF usages[target] \notin ShutterUsages THEN "wrong_usage"
  ELSE IF valid THEN "ok" ELSE "invalid_write"

Zones(target) == IF target \in Areas THEN HeatingAreaUsages ELSE HeatingUsages

\* Steps 2 to 4 of set_heating: no group, "one call stays one zone".
HeatingWrite(target, valid) ==
  IF target \in Groups THEN "wrong_usage"
  ELSE IF usages[target] = Unset THEN "unknown_target"
  ELSE IF usages[target] \notin Zones(target) THEN "wrong_usage"
  ELSE IF valid THEN "ok" ELSE "invalid_write"

Prepare(tool, target, valid) ==
  IF tool = "set_shutter" THEN ShutterWrite(target, valid) ELSE HeatingWrite(target, valid)

\* _write's validation of the arguments, then steps 1 to 4
Check(tool, target, valid) ==
  IF tool = "set_shutter" /\ target \in Areas THEN "invalid_input"
  ELSE IF ~Fresh THEN "not_synced"
  ELSE Prepare(tool, target, valid)

Wait == Interval - (now - lastSend)
Limited == lastSend # Never /\ Wait > 0

\* Mutants: rounded down to the millisecond; not capped.
RetryAfterDown == (Wait \div Grain) * Grain
RetryAfterUncapped == ((Wait + Grain - 1) \div Grain) * Grain

\* "rounded up to the millisecond, never above the interval"
RetryAfter == Min({((Wait + Grain - 1) \div Grain) * Grain, Interval})

-----------------------------------------------------------------------------
(* Writes._write                                                           *)

Refuse(c, tool, target, valid) ==
  /\ outcome[c] = "none"
  /\ Check(tool, target, valid) # "ok"
  /\ outcome' = [outcome EXCEPT ![c] = Check(tool, target, valid)]
  /\ UNCHANGED <<vars, now, lastSend, command, at, retry, drifted>>

RateLimit(c, tool, target) ==
  /\ outcome[c] = "none"
  /\ Check(tool, target, TRUE) = "ok" /\ Limited
  /\ outcome' = [outcome EXCEPT ![c] = "rate_limited"]
  /\ at' = [at EXCEPT ![c] = now] /\ retry' = [retry EXCEPT ![c] = RetryAfter]
  /\ UNCHANGED <<vars, now, lastSend, command, drifted>>

Count == lastSend' = now

\* Checked, counted and sent with no await: to a websocket that is open, or
\* closing, or to none.
Issue(c, tool, target) ==
  /\ outcome[c] = "none"
  /\ Check(tool, target, TRUE) = "ok" /\ ~Limited
  /\ Count
  /\ at' = [at EXCEPT ![c] = now]
  /\ \/ conn \in {"up", "ending"} /\ command' = [command EXCEPT ![c] = "sent"]
     \/ conn # "up" /\ command' = [command EXCEPT ![c] = "lost"]
  /\ outcome' = [outcome EXCEPT ![c] = IF conn \in {"up", "ending"} THEN "in_flight"
                                       ELSE "unknown"]
  /\ UNCHANGED <<vars, now, retry, drifted>>

Acknowledged(c) ==
  /\ outcome[c] = "in_flight" /\ command[c] = "taken" /\ conn = "up"
  /\ outcome' = [outcome EXCEPT ![c] = "acknowledged"]
  /\ UNCHANGED <<vars, now, lastSend, command, at, retry, drifted>>

\* Mutants: a write not acknowledged is sent again; it is not counted.
UnknownResent(c) ==
  /\ outcome[c] = "in_flight"
  /\ outcome' = [outcome EXCEPT ![c] = "unknown"]
  /\ command' = [command EXCEPT ![c] = "sent"]
  /\ UNCHANGED <<vars, now, lastSend, at, retry, drifted>>
UnknownGivesBack(c) ==
  /\ outcome[c] = "in_flight"
  /\ outcome' = [outcome EXCEPT ![c] = "unknown"]
  /\ lastSend' = Never
  /\ UNCHANGED <<vars, now, command, at, retry, drifted>>

\* A CommunicationError: a timeout, a closed connection, a response that is not an Ok.
Unknown(c) ==
  /\ outcome[c] = "in_flight"
  /\ outcome' = [outcome EXCEPT ![c] = "unknown"]
  /\ UNCHANGED <<vars, now, lastSend, command, at, retry, drifted>>

Cancelled(c) ==
  /\ outcome[c] = "in_flight"
  /\ outcome' = [outcome EXCEPT ![c] = "cancelled"]
  /\ UNCHANGED <<vars, now, lastSend, command, at, retry, drifted>>

-----------------------------------------------------------------------------
(* The clock, the Tydom and the cache                                      *)

Tick ==
  /\ now < MaxTime /\ now' = now + 1
  /\ UNCHANGED <<vars, lastSend, outcome, command, at, retry, drifted>>

\* The Tydom takes the command or never receives it, even once nobody waits.
Settles(c) ==
  /\ command[c] = "sent"
  /\ \E e \in {"taken", "lost"} : command' = [command EXCEPT ![c] = e]
  /\ UNCHANGED <<vars, now, lastSend, outcome, at, retry, drifted>>

\* The pending requests fail when the client disconnects; when it ends for good
\* the server's task group cancels the calls.
Fails == [c \in Calls |->
  IF outcome[c] = "in_flight" /\ conn' = "down" THEN "unknown"
  ELSE IF outcome[c] = "in_flight" /\ conn' = "stopped" THEN "cancelled"
  ELSE outcome[c]]

Synchronise ==
  /\ Next
  /\ outcome' = Fails
  /\ drifted' = (conn # "down" /\ conn' # "down" /\ (drifted \/ config' # config))
  /\ UNCHANGED <<now, lastSend, command, at, retry>>

Call(c) ==
  \/ \E tool \in Tools, target \in Targets :
       \/ \E valid \in BOOLEAN : Refuse(c, tool, target, valid)
       \/ RateLimit(c, tool, target) \/ Issue(c, tool, target)
  \/ Acknowledged(c) \/ Unknown(c) \/ Cancelled(c) \/ Settles(c)

WritesNext == (\E c \in Calls : Call(c)) \/ Tick \/ Synchronise

WritesSpec == WritesInit /\ [][WritesNext]_allVars
=============================================================================

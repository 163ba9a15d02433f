---------------------------- MODULE WritesProps ----------------------------
(***************************************************************************)
(* What the write tools promise: docs/threats/mcp.md, "Wrong target",      *)
(* "Repeated writes and write loops" and "The rate limit delays a STOP".   *)
(***************************************************************************)
EXTENDS Writes

Sent == {c \in Calls : command[c] # "none"}

\* "One write is sent per 1 / rate s, every target and command of both tools
\* counted together, unknown outcomes and cancelled calls included".
RateKept == \A c, d \in Sent : c = d \/ at[c] >= at[d] + Interval
                                     \/ at[d] >= at[c] + Interval

\* A caller refused by the rate limiter that waits retry_after_s is not refused by
\* it again, unless another write was sent meanwhile: the rounding to the
\* millisecond never falls short.
RetryIsEnough ==
  \A c \in Calls :
    outcome[c] = "rate_limited" /\ lastSend <= at[c]
        /\ now >= at[c] + retry[c]
      => ~Limited

\* "SHUTTER_USAGES", "HEATING_USAGES" without the areas' and "HEATING_AREA_USAGES".
UsagesOf(tool, target) ==
  CASE tool = "set_shutter" -> ShutterUsages
    [] tool = "set_heating" /\ target \in Endpoints -> HeatingUsages
    [] tool = "set_heating" /\ target \in Areas -> HeatingAreaUsages
    [] OTHER -> {}

\* A write goes to a target that the Tydom's config gives a usage that its tool
\* writes for such a target, a heating write to no group, whatever changed while the client was
\* disconnected: only a config changed "while connected" is out of date.
RightUsage ==
  [][\A c \in Calls, tool \in Tools, target \in Targets :
       Issue(c, tool, target) /\ ~drifted =>
         config[target] \in UsagesOf(tool, target)]_allVars

\* The reasons nothing was sent are one outcome to the abstract specification.
Reported == [c \in Calls |-> IF outcome[c] \in Reasons THEN "not_sent" ELSE outcome[c]]

Once == INSTANCE WriteOnce WITH report <- Reported, effect <- command

\* "Each write tool calls the client's send once and never again": a call changes
\* the home at most once, and what it reports of it is true, across timeouts, lost
\* connections, cancellations and commands that arrive late.
SendsOnce == Once!Spec
=============================================================================

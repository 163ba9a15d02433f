----------------------------- MODULE WriteOnce -----------------------------
(***************************************************************************)
(* What the write tools promise (docs/threats/mcp.md, M5 and M6): a call   *)
(* is refused and changes nothing, or its one command goes out once; what  *)
(* it says of the command is true, and nothing is ever sent again.         *)
(***************************************************************************)
CONSTANT Calls \* calls of the write tools

VARIABLES
  report, \* what each call has answered, "none" before it begins
  effect  \* what became of its command

vars == <<report, effect>>

Init ==
  /\ report = [c \in Calls |-> "none"]
  /\ effect = [c \in Calls |-> "none"]

Refuse(c) ==
  /\ report[c] = "none"
  /\ report' = [report EXCEPT ![c] = "not_sent"]
  /\ UNCHANGED effect

\* The command may be lost at once.
Issue(c) ==
  /\ report[c] = "none" /\ effect[c] = "none"
  /\ report' = [report EXCEPT ![c] = "in_flight"]
  /\ \E e \in {"sent", "lost"} : effect' = [effect EXCEPT ![c] = e]

\* The Tydom takes the command, or never receives it, whatever the call says meanwhile.
Settle(c) ==
  /\ effect[c] = "sent"
  /\ \E e \in {"taken", "lost"} : effect' = [effect EXCEPT ![c] = e]
  /\ UNCHANGED report

Acknowledge(c) ==
  /\ report[c] = "in_flight" /\ effect[c] = "taken"
  /\ report' = [report EXCEPT ![c] = "acknowledged"]
  /\ UNCHANGED effect

\* Calls that end together, as when the connection is lost, do not know.
GiveUp(ended) ==
  /\ \A c \in ended : report[c] = "in_flight"
  /\ \E r \in {"unknown", "cancelled"} :
       report' = [c \in Calls |-> IF c \in ended THEN r ELSE report[c]]
  /\ UNCHANGED effect

Next ==
  \/ \E c \in Calls : Refuse(c) \/ Issue(c) \/ Settle(c) \/ Acknowledge(c)
  \/ \E ended \in SUBSET Calls : GiveUp(ended)

Spec == Init /\ [][Next]_vars

-----------------------------------------------------------------------------
\* A call that says nothing was sent has sent nothing, and never will; one that
\* says acknowledged has been taken by the Tydom.
Honest ==
  \A c \in Calls : /\ report[c] \in {"none", "not_sent"} => effect[c] = "none"
                   /\ report[c] = "acknowledged" => effect[c] = "taken"
=============================================================================

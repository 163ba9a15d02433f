---------------------------- MODULE ServerProofs ----------------------------
(***************************************************************************)
(* What the exit status of tydomio-mcp says, for any number of tool calls, *)
(* routines and transaction ids.                                           *)
(***************************************************************************)
EXTENDS Server, ClientProofs

ExitInv ==
  /\ stdio \in {"leaving", "returned"} => stdin = "closed"
  /\ stdio \in {"cancelled", "ended"} => run = "failed"
  /\ stdio \in StdioEnded => NoToolCall
  /\ exit # "running" => run \in Final /\ stdio \in StdioEnded
  /\ ExitTells

\* A run_websocket that has failed is not heard of again.
LEMMA FailedForGood == Next /\ run = "failed" => run' = "failed"
<1> SUFFICES ASSUME Next, run = "failed" PROVE run' = "failed"
  OBVIOUS
<1> USE DEF runVars
<1>1. ASSUME NEW c \in Callers, Send(c) PROVE run' = run
  BY <1>1 DEF Send, Refuse, NotConnected, Begin, SendCompletes, SendFails, TimeOut,
       CancelCall, Resume, ResumeAnswered, ResumeAs, End, EndHaving
<1>2. ASSUME Connection PROVE run' = run
  BY <1>2 DEF Connection, StartHandler, ReadMessage, ReadEnds, ReaderStops, RoutineRaises
<1>3. ASSUME RunWebsocket PROVE run' = run
  BY <1>3 DEF RunWebsocket, Authorize, PauseEnds, Opens, OpenFails, Abort, GroupEnds,
       Closes, Disconnected, DisconnectFails, Cancel, CancelEscapes, Final
<1>4. ASSUME Tydom PROVE run' = run
  BY <1>4 DEF Tydom, TydomAnswers, TydomSends, TydomForgets, LinkCloses
<1> QED
  BY <1>1, <1>2, <1>3, <1>4 DEF Next

LEMMA ExitStep == ExitInv /\ [ServerNext]_allVars => ExitInv'
<1> SUFFICES ASSUME ExitInv, [ServerNext]_allVars PROVE ExitInv'
  OBVIOUS
<1> USE DEF ExitInv, ExitTells, StdioEnded, NoToolCall, EXIT_STOPPED, EXIT_FATAL
<1>1. CASE ClientStep
  <2>1. exit = "running" /\ exit' = exit /\ stdin' = stdin /\ stdio' = stdio
    BY <1>1 DEF ClientStep, serverVars
  <2>2. run = "failed" => run' = "failed"
    BY <1>1, FailedForGood DEF ClientStep
  <2>3. ASSUME stdio \in StdioEnded, NEW c \in Outer PROVE call'[c] \notin InFlight
    BY <1>1, <2>3 DEF ClientStep
  <2> QED
    BY <2>1, <2>2, <2>3
<1>2. CASE StdinSends
  BY <1>2 DEF StdinSends, vars, runVars, sendVars
<1>3. CASE StdinRead
  BY <1>3 DEF StdinRead, vars, runVars, sendVars
<1>4. CASE StdioBreaks
  BY <1>4 DEF StdioBreaks, vars, runVars, sendVars
<1>5. CASE StdioEnds
  BY <1>5 DEF StdioEnds, vars, runVars, sendVars
<1>6. CASE CancelWebsocket
  BY <1>6 DEF CancelWebsocket, Cancel, serverVars, sendVars
<1>7. CASE CancelStdio
  BY <1>7 DEF CancelStdio, vars, runVars, sendVars
<1>8. CASE Exit
  <2>1. run' = run /\ call' = call /\ stdin' = stdin /\ stdio' = stdio
    BY <1>8 DEF Exit, vars, runVars, sendVars
  <2>2. exit' = EXIT_STOPPED => stdin = "closed" /\ run \in {"returned", "cancelled"}
    BY <1>8 DEF Exit, Final
  <2>3. exit' = EXIT_FATAL => run = "failed" \/ stdio = "failed"
    BY <1>8 DEF Exit
  <2> QED
    BY <1>8, <2>1, <2>2, <2>3 DEF Exit
<1>9. CASE UNCHANGED allVars
  BY <1>9 DEF allVars, serverVars, vars, runVars, sendVars
<1> QED
  BY <1>1, <1>2, <1>3, <1>4, <1>5, <1>6, <1>7, <1>8, <1>9 DEF ServerNext

\* Exit status 0 means that stdin ended and the client ended without error, 1
\* that one of them failed; no tool call outlives the process.
THEOREM StatusIsTrue == ServerSpec => []ExitTells
<1>1. ServerInit => ExitInv
  BY DEF ServerInit, Init, ExitInv, ExitTells, StdioEnded
<1>2. ExitInv => ExitTells
  BY DEF ExitInv
<1> QED
  BY <1>1, <1>2, ExitStep, PTL DEF ServerSpec

-----------------------------------------------------------------------------
\* The server only steers the client: each of its steps is one of the client's, a
\* cancellation included, or leaves the client alone.
LEMMA ServerStep == [ServerNext]_allVars => [Next]_vars
<1> SUFFICES ASSUME [ServerNext]_allVars PROVE [Next]_vars
  OBVIOUS
<1>1. CASE ClientStep
  BY <1>1 DEF ClientStep
<1>2. CASE StdinSends \/ StdinRead \/ StdioBreaks \/ StdioEnds \/ CancelStdio \/ Exit
  BY <1>2 DEF StdinSends, StdinRead, StdioBreaks, StdioEnds, CancelStdio, Exit
<1>3. CASE CancelWebsocket
  BY <1>3 DEF CancelWebsocket, Next, RunWebsocket
<1>4. CASE UNCHANGED allVars
  BY <1>4 DEF allVars
<1> QED
  BY <1>1, <1>2, <1>3, <1>4 DEF ServerNext

\* The process of the server is an implementation of the client, fairness
\* included: whatever stdin, the SDK and the group do to it, run_websocket and the
\* sends behave as module Client says.
THEOREM ServerImplementsClient == ServerSpec => FairSpec
<1>1. ServerInit => Init
  BY DEF ServerInit
<1> QED
  BY <1>1, ServerStep, PTL DEF ServerSpec, FairSpec, Spec

\* In the server, a send waits only while it is in progress, on a connection, with
\* its future to be found by the response.
THEOREM ServerKeepsTheSends ==
  ServerSpec => [](Reachable /\ InProgressOnly /\ NobodyWaitsDisconnected)
BY ServerImplementsClient, AlwaysReachable, OnlyInProgress, NoneWaitsDisconnected, PTL DEF FairSpec

\* In the server, a tool call is given the response to its own request or none.
THEOREM ServerAnswersItsOwn == ~Resend => (ServerSpec => []OwnResponse)
<1> SUFFICES ASSUME ~Resend PROVE ServerSpec => []OwnResponse
  OBVIOUS
<1>1. Spec => []OwnResponse
  BY OwnAnswer
<1> QED
  BY <1>1, ServerImplementsClient, PTL DEF FairSpec
=============================================================================

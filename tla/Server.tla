------------------------------- MODULE Server -------------------------------
(***************************************************************************)
(* The process of tydomio-mcp (tydomio/mcp_server/server.py): _serve runs  *)
(* the client of module Client and the MCP server over stdio in one task   *)
(* group, until stdin ends or one of them fails.                           *)
(*                                                                         *)
(* The SDK reads stdin in a thread that a cancellation waits for: the      *)
(* stdio task ends only once a line, or the end of stdin, was read.        *)
(***************************************************************************)
EXTENDS Client

VARIABLES
  stdin, \* quiet, a line to read, or closed
  stdio, \* the task of _run_stdio
  exit   \* the exit status, or "running"

serverVars == <<stdin, stdio, exit>>
allVars == <<vars, serverVars>>

\* "leaving" is a task that stdin's end makes return; "cancelled" and "broken"
\* ones wait for the thread that reads stdin.
Tasks == {"serving", "leaving", "cancelled", "broken", "returned", "ended", "failed"}
StdioEnded == {"returned", "ended", "failed"}
EXIT_STOPPED == "0"
EXIT_FATAL == "1"

ServerInit == Init /\ stdin = "quiet" /\ stdio = "serving" /\ exit = "running"

-----------------------------------------------------------------------------
(* stdin and the SDK                                                       *)

StdinSends ==
  /\ stdin = "quiet" /\ exit = "running" /\ stdin' \in {"line", "closed"}
  /\ UNCHANGED <<vars, stdio, exit>>

\* The thread returns a line, which may be a tool call, or the end of stdin.
StdinRead ==
  /\ stdio = "serving" /\ stdin # "quiet"
  /\ \/ stdin = "line" /\ stdin' = "quiet" /\ UNCHANGED stdio
     \/ stdin = "closed" /\ stdio' = "leaving" /\ UNCHANGED stdin
  /\ UNCHANGED <<vars, exit>>

\* The MCP client no longer reads stdout.
StdioBreaks ==
  /\ stdio = "serving" /\ stdio' = "broken"
  /\ UNCHANGED <<vars, stdin, exit>>

NoToolCall == \A c \in Outer : call[c] \notin InFlight

\* The stdio task ends, once its tool calls have ended and its thread has read.
StdioEnds ==
  /\ NoToolCall
  /\ stdin # "quiet"
  /\ \/ stdio = "leaving" /\ stdio' = "returned"
     \/ stdio = "cancelled" /\ stdio' = "ended"
     \/ stdio = "broken" /\ stdio' = "failed"
  /\ UNCHANGED <<vars, stdin, exit>>

-----------------------------------------------------------------------------
(* _serve and run                                                          *)

\* Tool calls are begun by the stdio task; only _serve cancels run_websocket.
ClientStep ==
  /\ exit = "running"
  /\ Next
  /\ cancelling' => cancelling
  /\ stdio # "serving" => \A c \in Outer : call[c] \in InFlight \/ call'[c] = call[c]
  /\ UNCHANGED serverVars

\* Mutant: run_websocket is only awaited.
AwaitWebsocket == stdio = "failed" /\ Cancel /\ UNCHANGED serverVars

\* websocket.cancel() once stdio has returned, or the group's once it has failed.
CancelWebsocket == stdio \in {"returned", "failed"} /\ Cancel /\ UNCHANGED serverVars

CancelOnlyLeaving == \* mutant: a failed client does not stop a server in use
  /\ run = "failed" /\ stdio = "leaving"
  /\ stdio' = "cancelled"
  /\ UNCHANGED <<vars, stdin, exit>>

\* The group cancels the stdio task when run_websocket fails.
CancelStdio ==
  /\ run = "failed" /\ stdio \in {"serving", "leaving"}
  /\ stdio' = "cancelled"
  /\ UNCHANGED <<vars, stdin, exit>>

\* Mutant: the exit status only tells whether stdin ended.
ExitByStdin ==
  /\ exit = "running" /\ run \in Final /\ stdio \in StdioEnded
  /\ exit' = IF stdio = "returned" THEN EXIT_STOPPED ELSE EXIT_FATAL
  /\ UNCHANGED <<vars, stdin, stdio>>

\* The group ends with its tasks; it raises if one of them failed.
Exit ==
  /\ exit = "running" /\ run \in Final /\ stdio \in StdioEnded
  /\ exit' = IF run = "failed" \/ stdio = "failed" THEN EXIT_FATAL ELSE EXIT_STOPPED
  /\ UNCHANGED <<vars, stdin, stdio>>

ServerNext ==
  \/ ClientStep \/ StdinSends \/ StdinRead \/ StdioBreaks \/ StdioEnds
  \/ CancelWebsocket \/ CancelStdio \/ Exit

\* As module Client's, and the tasks of the group run.
ServerSpec ==
  /\ ServerInit /\ [][ServerNext]_allVars
  /\ Fairness
  /\ WF_allVars(StdinRead) /\ WF_allVars(StdioEnds) /\ WF_allVars(CancelWebsocket)
  /\ WF_allVars(CancelStdio) /\ WF_allVars(Exit)

-----------------------------------------------------------------------------
\* "0" only if the client ended without error, "1" only if one side failed
\* ("Serve until stdin ends: 0; 1 on a fatal error"), whichever side ended first;
\* nothing that awaited a response is left behind.
ExitTells ==
  exit # "running" =>
    /\ exit = EXIT_STOPPED => stdin = "closed" /\ run \in {"returned", "cancelled"}
    /\ exit = EXIT_FATAL => run = "failed" \/ stdio = "failed"
    /\ \A c \in Outer : call[c] \notin InFlight

\* The process ends after its stdin, in whatever state the connection is.
EndsWithStdin == stdin = "closed" ~> exit # "running"

\* After a fatal error "the process exits at the next line or at stdin close"
\* (the comment of _serve): it does not go on answering from a cache nobody updates.
FatalEndsAtNextLine ==
  <>(run = "failed") /\ []<>(stdin = "line") => <>(exit = EXIT_FATAL)
=============================================================================

---------------------------- MODULE ClientProps ----------------------------
(***************************************************************************)
(* What the client promises: send's docstring, PendingRequests' docstrings *)
(* and the comments of run_websocket and _disconnect.                      *)
(***************************************************************************)
EXTENDS Client

\* Every entry of _futures belongs to a send in progress with that transaction
\* id: "the request is removed from the in-progress list whenever the method
\* ends" (send's docstring), whatever ends it and in whatever order.
InProgressOnly ==
  \A t \in Tids : futures[t] # None =>
    call[futures[t]] \in InFlight /\ tid[futures[t]] = t

\* A send whose future is still pending owns its transaction id, so that a
\* response can reach it and a lost connection can fail it: no other send's
\* abandon, and no late response, may take its entry away.
Reachable ==
  \A c \in Callers : future[c] = "pending" => futures[tid[c]] = c

\* From _disconnect on, until the next connection; a fatal error goes elsewhere.
Gone == {"disconnecting", "exiting", "pausing", "authorizing", "authPause", "opening",
         "returned", "cancelled"}

\* Once _disconnect has flushed the pending requests, no send waits for a
\* response until the next connection: nobody waits for a timeout on a
\* connection that is gone.
NobodyWaitsDisconnected ==
  run \in Gone => \A c \in Callers : call[c] = "waiting" => future[c] # "pending"

\* wait_unit_connected returns only while a websocket has been opened and not
\* yet disconnected, or after a fatal error.
ConnectedHasWebsocket ==
  connected => websocket /\ run \in {"connected", "unwinding", "closing", "failed"}

\* A send is given the response to the very request it sent, never one to a
\* request that ended before it (a late response) or to another caller's.
OwnResponse == \A c \in Callers : future[c] # "misanswered"

\* "A handler for a push read before this response starts before the caller
\* resumes, one for a push read after it starts after" (send's docstring).
PushOrder ==
  [][\A c \in Callers :
       call[c] = "waiting" /\ future[c] = "answered" /\ call'[c] # "waiting"
         => owed[c] = 0]_vars

\* "When the connection is lost, the pending write fails with CommunicationError"
\* (docs/threats/writes.md:79), also when a fatal error ends run_websocket.
PendingFailsWhenLost ==
  run \in Final => \A c \in Callers : call[c] = "waiting" => future[c] # "pending"

\* test_read_loop_keeps_reading_after_malformed_message (tests/test_client.py:662):
\* a message that cannot be parsed does not stop the reader.
KeepsReadingAfterMalformed ==
  [][reading /\ inbox # <<>> /\ Message.kind \in {"malformed", "poison"} /\ ~reading'
       => run' = "unwinding"]_vars

\* Every send ends, with a response, an error or its cancellation.
SendsEnd == \A c \in Callers : call[c] \in InFlight ~> call[c] \notin InFlight

\* A Tydom that falls silent without closing the connection is found out by the
\* ping: a connection does not last without answered pings.
SilenceIsNoticed ==
  run = "connected" ~> (run # "connected" \/ \E c \in Breaking : call[c] = "answered")

\* A connection lost, or not opened, is opened again unless run_websocket is
\* cancelled or a fatal error ends it.
Reconnects == run = "disconnecting" ~> run \in {"connected", "exiting", "cancelled", "failed"}

\* A cancelled run_websocket ends: no task of the connection keeps the task
\* group waiting, and no except clause swallows the cancellation.
CancellationEnds == cancelling ~> run \in Final
=============================================================================

------------------------------- MODULE Fetch -------------------------------
(***************************************************************************)
(* The fetching of a capture (tydomio/capture/fetch.py): Fetcher, the      *)
(* on-connection routine that makes one pass over the endpoints on each    *)
(* connection, and run_capture, which waits for the pass, the client and   *)
(* the deadline, whichever ends first.                                     *)
(*                                                                         *)
(* run_websocket is seen from outside: away or up, failed or ended.  Time  *)
(* passes only when no callback or timer is due, as in asyncio's loop.     *)
(***************************************************************************)
EXTENDS Naturals

CONSTANTS
  N,              \* number of endpoints: ENDPOINTS is 1..N, in table order
  RequestTimeout, \* seconds given to each GET
  ConnectBudget,  \* seconds given to the authorization and the opening
  Margin          \* seconds added for the digest exchange

ASSUME NAssumption == N \in Nat \ {0}
ASSUME DelaysAreNat ==
  RequestTimeout \in Nat \ {0} /\ ConnectBudget \in Nat /\ Margin \in Nat \ {0}

VARIABLES
  results,   \* Fetcher._results: the outcome recorded for each endpoint
  connected, \* Fetcher.connected
  done,      \* Fetcher.done
  pos,       \* the endpoint whose response the pass awaits, 0 without a pass
  sentAt,    \* when its GET was sent
  client,    \* run_websocket, as the capture sees it
  run,       \* where run_capture is, or how it ended
  now,       \* seconds since the start
  first,     \* when the first pass started
  lost       \* whether a connection has been lost

fetchVars == <<results, connected, done, pos, sentAt, client, run, now, first, lost>>

Endpoints == 1..N
Answers == {"ok", "http-error", "not-json"}
Outcome == Answers \cup {"timeout", "communication-error"}

DeadlineWithoutConnecting == N * RequestTimeout + Margin \* mutant

Deadline == ConnectBudget + N * RequestTimeout + Margin

FetchTypeOK ==
  /\ results \in [Endpoints -> Outcome \cup {"none"}]
  /\ connected \in BOOLEAN /\ done \in BOOLEAN /\ lost \in BOOLEAN
  /\ pos \in 0..N /\ now \in Nat /\ sentAt \in Nat /\ first \in Nat
  /\ client \in {"away", "up", "failed", "ended"}
  /\ run \in {"waiting", "stopping", "stopped", "never", "raised", "captured"}

FetchInit ==
  /\ results = [i \in Endpoints |-> "none"] /\ connected = FALSE /\ done = FALSE
  /\ pos = 0 /\ sentAt = 0 /\ client = "away" /\ run = "waiting"
  /\ now = 0 /\ first = 0 /\ lost = FALSE

-----------------------------------------------------------------------------
(* Fetcher                                                                 *)

RecordedOnceOk(outcome) == outcome = "ok" \* mutant: anything else is asked again

\* A communication error is asked again on the next connection.
Recorded(outcome) == outcome \notin {"none", "communication-error"}

\* The loop over the table, from the endpoint given up to the next GET.
Proceed(from, res) ==
  \E i \in from..(N + 1) :
    /\ \A k \in from..(i - 1) : Recorded(res[k])
    /\ i <= N => ~Recorded(res[i])
    /\ pos' = IF i <= N THEN i ELSE 0
    /\ done' = (done \/ i = N + 1)
    /\ sentAt' = IF i <= N THEN now ELSE 0

\* The websocket opens and the routine starts its pass.
PassStarts ==
  /\ client = "away" /\ run = "waiting"
  /\ client' = "up"
  /\ connected' = TRUE /\ first' = IF connected THEN first ELSE now
  /\ Proceed(1, results)
  /\ UNCHANGED <<results, run, now, lost>>

\* A response was read: its status wins over its content.
Answered ==
  /\ pos # 0
  /\ \E answer \in Answers : results' = [results EXCEPT ![pos] = answer]
  /\ Proceed(pos + 1, results')
  /\ UNCHANGED <<connected, client, run, now, first, lost>>

\* A CommunicationError caused by a TimeoutError is an outcome like another.
TimedOut ==
  /\ pos # 0 /\ now = sentAt + RequestTimeout
  /\ results' = [results EXCEPT ![pos] = "timeout"]
  /\ Proceed(pos + 1, results')
  /\ UNCHANGED <<connected, client, run, now, first, lost>>

Drops == client' = "away" /\ lost' = TRUE /\ UNCHANGED <<connected, run, now, first>>

\* Mutant: the pass goes on after a lost connection.
SendFailsQuietly ==
  /\ pos # 0 /\ now = sentAt
  /\ results' = [results EXCEPT ![pos] = "communication-error"]
  /\ Proceed(pos + 1, results')
  /\ UNCHANGED <<connected, client, run, now, first, lost>>

\* The websocket found closed while sending: the pass raises, done unset.
SendFails ==
  /\ pos # 0 /\ now = sentAt
  /\ results' = [results EXCEPT ![pos] = "communication-error"]
  /\ pos' = 0 /\ sentAt' = 0 /\ UNCHANGED done
  /\ Drops

\* The reader or the ping finds the connection lost: the pass is cancelled and
\* records nothing.
ConnectionLost ==
  /\ client = "up"
  /\ pos' = 0 /\ sentAt' = 0 /\ UNCHANGED <<results, done>>
  /\ Drops

-----------------------------------------------------------------------------
(* run_capture                                                             *)

\* An error that is not a CommunicationError ends run_websocket.
ClientFails ==
  /\ client \in {"away", "up"}
  /\ client' = "failed" /\ pos' = 0 /\ sentAt' = 0
  /\ UNCHANGED <<results, connected, done, run, now, first, lost>>

\* Mutant: asyncio.wait has no timeout.
WaitForever ==
  /\ run = "waiting"
  /\ client = "failed" \/ done
  /\ run' = IF client = "failed" THEN "stopped" ELSE "stopping"
  /\ UNCHANGED <<results, connected, done, pos, sentAt, client, now, first, lost>>

\* asyncio.wait: the client wins over the pass when both have ended.
WaitReturns ==
  /\ run = "waiting"
  /\ client = "failed" \/ done \/ now >= Deadline
  /\ run' = IF client = "failed" THEN "stopped" ELSE "stopping"
  /\ UNCHANGED <<results, connected, done, pos, sentAt, client, now, first, lost>>

\* The cancellation reaches run_websocket, which returns or is cancelled.
ClientEnds ==
  /\ run = "stopping" /\ client \in {"away", "up"}
  /\ client' = "ended" /\ pos' = 0 /\ sentAt' = 0
  /\ UNCHANGED <<results, connected, done, run, now, first, lost>>

\* Only the cancellation of run_task is suppressed.
Collects ==
  /\ run = "stopping" /\ client \in {"failed", "ended"}
  /\ run' = IF client = "failed" THEN "raised"
            ELSE IF connected THEN "captured" ELSE "never"
  /\ UNCHANGED <<results, connected, done, pos, sentAt, client, now, first, lost>>

\* Nothing is due: neither the wait nor, in Tick, a request has timed out.
Idle == run = "waiting" /\ ~done /\ client # "failed" /\ now < Deadline

Tick ==
  /\ Idle
  /\ pos # 0 => now < sentAt + RequestTimeout
  /\ now' = now + 1
  /\ UNCHANGED <<results, connected, done, pos, sentAt, client, run, first, lost>>

Collected(i) == IF results[i] = "none" THEN "not-fetched" ELSE results[i]

FetchNext ==
  \/ PassStarts \/ Answered \/ TimedOut \/ SendFails \/ ConnectionLost
  \/ ClientFails \/ WaitReturns \/ ClientEnds \/ Collects \/ Tick
=============================================================================

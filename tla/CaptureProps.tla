---------------------------- MODULE CaptureProps ----------------------------
(***************************************************************************)
(* What a capture promises: the docstrings of Fetcher.__call__,            *)
(* run_capture, main and write_capture, and the comment of DEADLINE.       *)
(***************************************************************************)
EXTENDS Capture

Settled == Answers \cup {"timeout"}

\* An endpoint that was answered, or timed out, is never asked again nor its
\* outcome replaced, however many connections the capture goes through.
FinalStays ==
  [][\A i \in Endpoints : results[i] \in Settled => results'[i] = results[i]]_vars

\* The passes together go through the table in order: an endpoint has an outcome
\* only if all the ones before it are settled ("resumed on each connection"),
\* and done is set only once none is left to ask again.
InOrder ==
  /\ \A i, k \in Endpoints : i < k /\ results[k] # "none" => results[i] \in Settled
  /\ done => \A i \in Endpoints : results[i] \in Settled

\* A client connected within its budget, and never disconnected, has the time of
\* every request before the deadline, even if all of them time out.
DeadlineSuffices ==
  run = "captured" /\ first <= ConnectBudget /\ ~lost =>
    \A i \in Endpoints : Collected(i) # "not-fetched"

\* A whole manifest is the sign of a whole capture, even after a crash between
\* two files, unless the removal of the directory was under way, or could not be
\* finished ("the manifest last").
ManifestMeansComplete ==
  Manifest \in whole /\ pc \notin {"removing", "aborting", "abandoned"} /\ kept = {} =>
    Documents \subseteq whole

\* "0 complete, 1 partial, 2 nothing written": the exit status tells what is on
\* the disk, whatever failed before it and whenever. The one exception is a removal
\* that fails, whose errors are ignored: it leaves the very files it failed for.
ExitTells ==
  pc = "exited" =>
    /\ status = NothingWritten => files = kept
    /\ status # NothingWritten => Documents \subseteq whole /\ kept = {}
    /\ status = Complete => \A i \in Endpoints : results[i] = "ok" /\ i \in whole

\* No file ever holds a secret, the manifest and the documents of refused endpoints
\* included, not even while the capture is being written.
NoSecretWritten == files \cap tainted = {}

\* A capture ends although the Tydom is silent, the connection keeps being lost
\* or a file cannot be written.
CaptureEnds == <>(pc \in Ended)
=============================================================================

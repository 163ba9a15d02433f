----------------------------- MODULE WireProps -----------------------------
(***************************************************************************)
(* What the rest of the client expects of protocol.py.                     *)
(***************************************************************************)
EXTENDS Wire

Sound ==
  /\ damage.is = "none" /\ message.prefix # "foreign" /\ message.head = "sound"
  /\ message.encoding # "gzip" /\ message.start \notin {"bad_status", "bad_request"}

\* A sound message is read as it was meant, whatever its framing, its prefix and
\* the bytes of its content, line ends and size lines included.
ReadAsSent ==
  phase = "read" /\ Sound =>
    /\ content = Payload
    /\ kind = "answer" => message.ok /\ message.transac = "number"
    /\ message.start = "status" /\ message.transac = "number" /\ message.ok =>
         kind = IF \/ asked = "ping" /\ Payload = <<>>
                   \/ asked = message.origin /\ message.meaning = asked /\ Payload # <<>>
                THEN "answer" ELSE "error"
    /\ \A url \in {"devices", "areas"} :
         kind = url <=> message.start = url /\ message.meaning = url /\ Payload # <<>>

\* A body cut short anywhere, with a byte too many, or with a byte lost from a chunk
\* or from the end of one, is refused by the decoder: a part of a content is never
\* taken for the whole.  A byte lost from a size is not promised to be noticed: what
\* is left may be another size, the end of another chunk away.
DamageIsNoticed == phase = "typing" => damage.is \in {"none", "size"}

\* Reading a message ends, whatever the sizes say: every step goes on to a later phase
\* or to a later place of the body, never past its end.
Rank == [head |-> 1, chunks |-> 2, typing |-> 3, read |-> 4]
ReadingAdvances ==
  [][\/ Rank[phase'] > Rank[phase]
     \/ phase' = phase /\ position' \in (position + 1)..(Len(body) + 1)]_vars
=============================================================================

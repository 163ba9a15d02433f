------------------------------- MODULE Publish -------------------------------
(***************************************************************************)
(* What becomes of a capture: its bodies are anonymized before anything is *)
(* written, then python -m tydomio.capture.catalog reads the documents and *)
(* merges them into the catalog file (tydomio/capture/cli.py, catalog.py). *)
(* One capture after another, of one Tydom after another.                  *)
(***************************************************************************)
EXTENDS Catalog

CONSTANTS
  Boxes,       \* the first captures, as fetched
  LaterBoxes,  \* the captures after it
  MaxCaptures  \* bound on the captures

ASSUME BoxesAreCaptures ==
  \A one \in Boxes \cup LaterBoxes :
    /\ one.leaves \in Seq([url : STRING, path : Seq(STRING \X Nat),
                           value : [type : {"null", "bool", "int", "float", "str"}, text : STRING]])
    /\ \A m, n \in DOMAIN one.leaves :
         one.leaves[m].url = one.leaves[n].url /\ one.leaves[m].path = one.leaves[n].path => m = n
    /\ \A leaf \in Range(one.leaves) : leaf.value.type = "null" => leaf.value = Null

\* They are listed endpoint by endpoint in the order of the policy; a step to a list
\* item has no other key.
ASSUME BoxesAreListed ==
  \A one \in Boxes \cup LaterBoxes :
    /\ \A m, n \in DOMAIN one.leaves : m <= n =>
         \E i, j \in 1..Len(Order) :
           i <= j /\ one.leaves[m].url = Order[i] /\ one.leaves[n].url = Order[j]
    /\ \A leaf \in Range(one.leaves) : \A step \in Range(leaf.path) : step[2] # 0 => step[1] = Item

VARIABLES
  box,       \* the capture fetched, which nobody else sees
  captures,  \* how many there were
  phase,     \* fetched, published, then how the catalog tool exited
  capture,   \* the anonymized capture
  file,      \* the catalog file
  merged     \* the captures merged so far, as they were fetched

vars == <<box, captures, phase, capture, file, merged>>

Phases == {"fetched", "published", "written", "conflict", "invalid"}

Init ==
  /\ box \in Boxes /\ captures = 1 /\ phase = "fetched"
  /\ capture = Null
  /\ file = NoEntries /\ merged = {}

\* _capture: the documents are made of the anonymized bodies.
Publishes ==
  /\ phase = "fetched"
  /\ capture' = Anonymized(box)
  /\ phase' = "published"
  /\ UNCHANGED <<box, captures, file, merged>>

Exits(how) ==
  /\ phase = "published" /\ phase' = how
  /\ UNCHANGED <<box, captures, capture>>

Invalid == Exits("invalid") /\ ~Shaped(capture) /\ UNCHANGED <<file, merged>>

\* A conflict within the capture, or with the file.
AnyConflict ==
  LET found == Extract(capture)
  IN found.conflicts # {} \/ Conflicts(file, found.catalog) # {}
Refuses == Exits("conflict") /\ Shaped(capture) /\ AnyConflict /\ UNCHANGED <<file, merged>>

Writes ==
  /\ Exits("written") /\ Shaped(capture) /\ ~AnyConflict
  /\ file' = Merge(file, Extract(capture).catalog)
  /\ merged' = merged \cup {box}

\* The next capture is made.
Fetches ==
  /\ phase \notin {"fetched", "published"} /\ captures < MaxCaptures
  /\ box' \in LaterBoxes
  /\ captures' = captures + 1 /\ phase' = "fetched" /\ capture' = Null
  /\ UNCHANGED <<file, merged>>

Next == Publishes \/ Invalid \/ Refuses \/ Writes \/ Fetches

Spec == Init /\ [][Next]_vars
=============================================================================

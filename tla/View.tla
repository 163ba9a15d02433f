-------------------------------- MODULE View --------------------------------
(***************************************************************************)
(* What get_state answers (tydomio/mcp_server/view.py): an operator on the *)
(* state of the cache, since it never awaits.  Every usage has a model;    *)
(* names, validities and groups are left out.                              *)
(***************************************************************************)
EXTENDS CacheSync

CONSTANT Unreadable  \* values the Tydom may send that a usage's model refuses

ASSUME UnreadableAreSent == Unreadable \subseteq Values \ BadVersions

\* Entity({}) when nothing is cached.
EntityOf(i) == IF entities[i] = Unset THEN NewEntity(usages[i]) ELSE entities[i]

\* _typed_state: the fields present, or none of them when one cannot be read.
Readable(fields) == \A f \in Fields : fields[f] \notin Unreadable
TypedState(fields) == [f \in {g \in Fields : fields[g] # Unset} |-> fields[f]]

\* _item
ItemOf(i) ==
  LET entity == EntityOf(i)
  IN IF entity.invalid \/ ~Readable(entity.fields)
     THEN [kind |-> usages[i], error |-> "invalid_state"]
     ELSE [kind |-> usages[i], state |-> TypedState(entity.fields)]

\* get_state without ids: an item for every endpoint and area of the cached config.
GetState ==
  [connection |-> marked, synced |-> synced,
   items |-> [i \in {j \in Ids : usages[j] # Unset} |-> ItemOf(i)]]
=============================================================================

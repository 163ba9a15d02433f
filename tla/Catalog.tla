------------------------------- MODULE Catalog -------------------------------
(***************************************************************************)
(* The catalog of the fields and commands of each usage, extracted from a  *)
(* capture and merged into a file (tydomio/capture/catalog.py).            *)
(*                                                                         *)
(* A catalog is a function from <<usage, "field" or "command", name>> to   *)
(* an entry: its attributes, and the enum values of a field.  Captures are *)
(* those of module Anonymize; the ids in them are ints, and the body of an *)
(* http-error is never of the shape the catalog expects.                   *)
(***************************************************************************)
EXTENDS Anonymize

AreaUsage == "@area"
Config == "/configs/file"
Devices == <<"/devices/meta", "/devices/cmeta">>
Areas == <<"/areas/meta", "/areas/cmeta">>

Keys(prefix, key) == Append(prefix, <<key, 0>>)
Text(capture, url, path) == Get(capture, url, path).text

-----------------------------------------------------------------------------
(* The shapes of the documents                                             *)

DescriptorTypes ==
  ({"name", "type"} \X {{"str"}}) \cup ({"permission", "validity", "unit"} \X {{"str", "null"}})
  \cup ({"min", "max", "step"} \X {{"int", "float", "null"}}) \cup {<<"size", {"int", "null"}>>}

\* The types of the values of an object, given the keys that lead to it.
Types(generic) ==
  LET list == IF Len(generic) > 1 THEN generic[Len(generic) - 1] ELSE Item
      ids == IF generic = <<"endpoints", Item>> THEN {"id_device", "id_endpoint"} ELSE {"id"}
      others == IF generic = <<"endpoints", Item>> THEN {<<"last_usage", {"str"}>>} ELSE {}
  IN CASE generic = <<>> \/ Last(generic) # Item -> {}
       [] generic = <<Item>> \/ list = "endpoints" -> (ids \X {{"int"}}) \cup others
       [] list \in {"metadata", "parameters"} -> DescriptorTypes
       [] list = "cmetadata" -> {"name", "permission"} \X {{"str"}}
       [] OTHER -> {}

Objects(capture, url) ==
  UNION {{SubSeq(leaf.path, 1, n - 1) : n \in Dicts(leaf.path)} :
           leaf \in {l \in Range(capture.leaves) : l.url = url}}

\* model_validate of the five documents.
Shaped(capture) ==
  \A url \in {Config, Devices[1], Devices[2], Areas[1], Areas[2]} :
    /\ url \in capture.ok
    /\ \A object \in Objects(capture, url) : \A typed \in Types(Generic(object)) :
         Get(capture, url, Keys(object, typed[1])).type \in typed[2]

-----------------------------------------------------------------------------
(* _entries                                                                *)

\* The usage of each (device id, endpoint id) of the config, the last one winning.
UsagesOf(capture, device, endpoint) ==
  LET found == {n \in DOMAIN capture.leaves :
                  LET leaf == capture.leaves[n]
                  IN /\ leaf.url = Config /\ Generic(leaf.path) = <<"endpoints", Item, "last_usage">>
                     /\ Text(capture, Config, Keys(Front(leaf.path), "id_device")) = device
                     /\ Text(capture, Config, Keys(Front(leaf.path), "id_endpoint")) = endpoint}
  IN IF found = {} THEN {} ELSE {capture.leaves[Max(found)].value.text}

Attributes == {"type", "permission", "validity", "unit", "min", "max", "step", "size"}
DescriptorAt(capture, url, path) ==
  [attributes |-> [attribute \in Attributes |-> Text(capture, url, Keys(path, attribute))],
   enum |-> EnumValues(capture, url, path)]

\* The parameters of a command, each as its item in the list of them.
Parameters(capture, url, path) ==
  {Last(Front(leaf.path)) : leaf \in {l \in Range(capture.leaves) :
     /\ l.url = url /\ Front(Front(l.path)) = Keys(path, "parameters")
     /\ Last(Front(l.path))[1] = Item /\ Last(l.path) = <<"name", 0>>}}

\* A command has its permission and its parameters, which are not merged.
CommandAt(capture, url, path) ==
  LET at(item) == Append(Keys(path, "parameters"), item)
  IN [attributes |->
        <<Text(capture, url, Keys(path, "permission")),
          [item \in Parameters(capture, url, path) |->
             <<Text(capture, url, Keys(at(item), "name")), DescriptorAt(capture, url, at(item))>>]>>,
      enum |-> {}]

\* The entry of one field or command, given the leaf with its name, as a catalog.
Entry(capture, leaf, usage) ==
  LET path == Front(leaf.path)
      field == path[Len(path) - 1][1] = "metadata"
  IN [at \in {<<usage, IF field THEN "field" ELSE "command", leaf.value.text>>} |->
        IF field THEN DescriptorAt(capture, leaf.url, path)
        ELSE CommandAt(capture, leaf.url, path)]

NoEntries == [at \in {} |-> at]

\* The keys to a field or a command.
EntryPaths(url) ==
  {(IF url \in Range(Areas) THEN <<Item>> ELSE EndpointOf) \o <<list, Item>> :
     list \in {"metadata", "cmetadata"}}

\* What each leaf adds: the name of a field or a command its entry, when the endpoint is
\* in the config; any other leaf nothing.  The order of the leaves is that of _entries.
Entries(capture) ==
  LET area(leaf) == leaf.url \in Range(Areas)
      named(leaf) ==
        /\ leaf.url \in Range(Devices) \cup Range(Areas)
        /\ Generic(leaf.path) \in {Append(path, "name") : path \in EntryPaths(leaf.url)}
      id(leaf, depth) == Text(capture, leaf.url, Keys(SubSeq(leaf.path, 1, depth), "id"))
      usages(leaf) == IF area(leaf) THEN {AreaUsage} ELSE UsagesOf(capture, id(leaf, 1), id(leaf, 3))
      entry(leaf) == IF named(leaf) /\ usages(leaf) # {}
                     THEN Entry(capture, leaf, CHOOSE usage \in usages(leaf) : TRUE) ELSE NoEntries
  IN [n \in DOMAIN capture.leaves |-> entry(capture.leaves[n])]

-----------------------------------------------------------------------------
(* merge and extract                                                       *)

\* Mutant of MergeField: the enum values known already are enough.
MergeFieldKnownOnly(known, found) == known
\* Mutant of Conflicts: an enum value that is new is taken for a conflict.
ConflictsOnEnums(known, found) ==
  {at \in DOMAIN known \cap DOMAIN found : known[at] # found[at]}

\* Enum values are unioned; any other attribute that differs is a conflict, and the
\* known one stays.
MergeField(known, found) == [known EXCEPT !.enum = @ \cup found.enum]

Conflicts(known, found) ==
  {at \in DOMAIN known \cap DOMAIN found : known[at].attributes # found[at].attributes}

Merge(known, found) ==
  [at \in DOMAIN known \cup DOMAIN found |->
     IF at \notin DOMAIN known THEN found[at]
     ELSE IF at \notin DOMAIN found THEN known[at] ELSE MergeField(known[at], found[at])]

\* One entry after another, with the conflicts met on the way.
MergeAll(entries) ==
  LET so[n \in 0..Len(entries)] ==
        IF n = 0 THEN [catalog |-> NoEntries, conflicts |-> {}]
        ELSE LET known == so[n - 1]
             IN [catalog |-> Merge(known.catalog, entries[n]),
                 conflicts |-> known.conflicts \cup Conflicts(known.catalog, entries[n])]
  IN so[Len(entries)]

Extract(capture) == MergeAll(Entries(capture))

=============================================================================

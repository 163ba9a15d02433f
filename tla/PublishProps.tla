---------------------------- MODULE PublishProps ----------------------------
(***************************************************************************)
(* What docs/extending-usages.md promises of a capture and of the catalog  *)
(* (lines 25 to 53): the ids, the names and every value the rules do not   *)
(* know stay out of the documents, which can still be worked with.         *)
(***************************************************************************)
EXTENDS Publish

CONSTANT Renaming  \* the ids, names and keys of another Tydom, in place of those of this one

-----------------------------------------------------------------------------
(* Another capture that differs in what must stay secret                   *)

\* The descriptors of a data leaf, by its ids and name, each as the leaf with its name.
Describing(docs, leaf) ==
  {m \in DOMAIN docs.leaves :
     LET name == docs.leaves[m]
     IN /\ name.url = DescriptorSources[leaf.url].meta /\ Generic(name.path) = NamePath(leaf.url)
        /\ name.value.type = "str"
        /\ name.value.text = Text(docs, leaf.url, Keys(Front(leaf.path), "name"))
        /\ \A n \in 1..(Len(leaf.path) - 3) : leaf.path[n][1] = Item =>
             Text(docs, leaf.url, Keys(SubSeq(leaf.path, 1, n), "id"))
               = Text(docs, name.url, Keys(SubSeq(name.path, 1, n), "id"))}
Lists(docs, leaf, m) ==
  leaf.value \in EnumValues(docs, DescriptorSources[leaf.url].meta, Front(docs.leaves[m].path))

RulesAt(url) == {Rules[url][n] : n \in 1..Len(Rules[url])}
PathsAt(url) == {rule.path : rule \in RulesAt(url)} \cup Opaque(url)

\* All rules for this path, and there is one, are of this action.
IsRule(url, path, action) ==
  /\ path \in {rule.path : rule \in RulesAt(url)}
  /\ \A rule \in RulesAt(url) : rule.path = path => rule.action = action

DataPath(url) ==
  [n \in DOMAIN NamePath(url) |->
     CASE NamePath(url)[n] = "metadata" -> "data" [] NamePath(url)[n] = "name" -> "value"
       [] OTHER -> NamePath(url)[n]]

\* What the table of rules says of the data and of their descriptors: only values of the
\* data are taken from descriptors, and the ids and names that lead to one are handled as such.
ASSUME DataHaveRules ==
  /\ \A url \in Range(Order) : \A rule \in RulesAt(url) :
       rule.action = "value" => url \in DOMAIN DescriptorSources /\ rule.path = DataPath(url)
  /\ \A data \in DOMAIN DescriptorSources :
       LET meta == DescriptorSources[data].meta
           at == NamePath(data)
           descriptor == Front(at)
       IN /\ {data, meta} \subseteq Range(Order)
          /\ \A rule \in RulesAt(data) \cup RulesAt(meta) :
               rule.path \in Seq({key \in STRING : ~IsWildcard(key) /\ key # AnyKey})
          /\ at \in Seq(STRING) /\ DataPath(data) \in Seq(STRING)
          /\ Len(at) > 3 /\ at[Len(at) - 2] = "metadata" /\ at[Len(at)] = "name"
          /\ \A n \in 1..(Len(at) - 3) : at[n] = Item => n + 1 # Len(at) /\ at[n + 1] # Item
          /\ \A n \in 1..(Len(at) - 1) : at[n] # Item =>
               /\ n \in 2..(Len(at) - 2) /\ at[n - 1] = Item
               /\ IsRule(data, Append(SubSeq(DataPath(data), 1, n - 1), "id"), "id")
               /\ IsRule(meta, Append(SubSeq(at, 1, n - 1), "id"), "id")
          /\ IsRule(data, DataPath(data), "value")
          /\ IsRule(data, Append(Front(DataPath(data)), "name"), "word")
          /\ IsRule(meta, at, "word") /\ IsRule(meta, Append(descriptor, "min"), "number")
          /\ IsRule(meta, descriptor \o <<"enum_values", Item>>, "enum")
  /\ ~Fits("Eva!", "enum")

\* Two texts that no pattern of the policy tells apart, as a key or as a value.
Indistinct(one, other) ==
  /\ \A url \in Range(Order) : \A path \in PathsAt(url) : \A n \in 1..Len(path) :
       SegmentMatches(path[n], one) <=> SegmentMatches(path[n], other)
  /\ one \in OddKeys <=> other \in OddKeys
  /\ \A keep \in Keeps : Fits(one, keep) <=> Fits(other, keep)

\* They are renamed one for one, and as the policy sees them alike.
ASSUME RenamingIsBlind ==
  /\ \A text \in DOMAIN Renaming : Renaming[text] \in DOMAIN Renaming /\ Indistinct(text, Renaming[text])
  /\ \A one, other \in DOMAIN Renaming : Renaming[one] = Renaming[other] => one = other
  /\ {Null.text, Empty.text, Item} \cap DOMAIN Renaming = {}

Renamed(text) == IF text \in DOMAIN Renaming THEN Renaming[text] ELSE text

Replaced(value) ==
  Value(value.type, CASE value.type = "null" -> "None" [] value.type = "bool" -> "True"
                      [] value.type = "str" -> "Eva!" [] OTHER -> "9")

Matching(segment, key) ==
  IF Item \in {segment, key} THEN segment = key ELSE SegmentMatches(segment, key)
\* The rules, and the opaque subtrees, that a path is at or on the way to, by its first keys.
Along(keys, path, depth) ==
  \A n \in 1..depth : n <= Len(keys) /\ Matching(keys[n], path[n][1])
RulesOf(one, url) == IF url \in one.ok THEN 1..Len(Rules[url]) ELSE {}
OpaqueOf(one, url) == IF url \in one.ok THEN Opaque(url) ELSE {}

PublicKey(one, leaf, depth) ==
  LET key == leaf.path[depth][1]
  IN \/ key = Item
     \/ \E n \in RulesOf(one, leaf.url) :
          LET keys == Rules[leaf.url][n].path
          IN Along(keys, leaf.path, depth) /\ keys[depth] # AnyKey
     \/ /\ key \notin OddKeys
        /\ ~\E opaque \in OpaqueOf(one, leaf.url) :
              Len(opaque) \in 1..(depth - 1) /\ Along(opaque, leaf.path, Len(opaque))

\* The first rule for the place of a leaf, if any.
RuleOf(one, leaf) ==
  LET found == {n \in RulesOf(one, leaf.url) :
                  LET keys == Rules[leaf.url][n].path
                  IN Len(keys) = Len(leaf.path) /\ Along(keys, leaf.path, Len(keys))}
  IN IF found = {} THEN {} ELSE {Rules[leaf.url][Min(found)]}

\* A value that is null, or passes the rule for its place, stays.
Passing(one, leaf) ==
  \/ leaf.value = Null
  \/ \E rule \in RuleOf(one, leaf) : rule.action \in Keeps /\ Passes(leaf.value, rule.action)

PublicValue(leaf) ==
  \/ Passing(box, leaf)
  \/ \E rule \in RuleOf(box, leaf) :
       \/ rule.action = "id" /\ leaf.value = Empty
       \/ rule.action = "value" /\ leaf.value.type = "bool"
       \/ /\ rule.action = "value" /\ leaf.value.type = "str"
          /\ Fits(leaf.value.text, "enum")
          /\ \E m \in Describing(box, leaf) : Lists(box, leaf, m)
Numberable(leaf) == \E rule \in RuleOf(box, leaf) : rule.action \in Keeps \cup Kinds \cup {"id"}

Other(leaf) ==
  [url |-> leaf.url,
   path |-> [n \in DOMAIN leaf.path |->
               IF PublicKey(box, leaf, n) THEN leaf.path[n]
               ELSE <<Renamed(leaf.path[n][1]), leaf.path[n][2]>>],
   value |-> IF PublicValue(leaf) THEN leaf.value
             ELSE IF Numberable(leaf) THEN Value(leaf.value.type, Renamed(leaf.value.text))
             ELSE Replaced(leaf.value)]
OtherBox == [ok |-> box.ok, leaves |-> [n \in DOMAIN box.leaves |-> Other(box.leaves[n])]]

\* Data are named by strings; another name is redacted, yet found by its text.
DataAreNamed(one) ==
  \A leaf \in Range(one.leaves) :
    leaf.url \in DOMAIN DescriptorSources /\ leaf.path # <<>> /\ Last(leaf.path) = <<"name", 0>> =>
      leaf.value = Null \/ leaf.value.type = "str"

\* Two captures that differ in their secrets alone are published as the same
\* documents, reports included: "Ids are renumbered, names [...] replaced, and any
\* value its rules do not know is redacted."  Ids and names may be recognized as
\* equal; of a redacted value, nothing but its type is.
Blind == phase = "published" /\ DataAreNamed(box) => Anonymized(OtherBox) = capture

-----------------------------------------------------------------------------
(* What is published can be worked with                                    *)

\* What the catalog reads of a capture, ids and lists apart: the usages, and what
\* there is of each field and command.
IsRead(leaf) ==
  LET keys == Generic(leaf.path)
  IN \/ leaf.url = Config /\ keys = <<"endpoints", Item, "last_usage">>
     \/ /\ leaf.url \in Range(Devices) \cup Range(Areas)
        /\ \E path \in EntryPaths(leaf.url) :
             Len(path) <= Len(keys) /\ \A n \in DOMAIN path : keys[n] = path[n]

Legible(one) == \A leaf \in Range(one.leaves) : IsRead(leaf) => Passing(one, leaf)

CatalogKeys ==
  Attributes \cup {"name", "enum_values", "metadata", "cmetadata", "parameters",
                  "endpoints", "last_usage", "id", "id_device", "id_endpoint"}

\* What the table of rules says of what the catalog reads: its keys are kept, and the
\* ids that lead from a device to its usage are handled as such.
ASSUME CatalogHasRules ==
  /\ CatalogKeys \cap OddKeys = {}
  /\ \A i, j \in 1..Len(Order) : Order[i] = Order[j] => i = j
  /\ \A url \in {Config} \cup Range(Devices) \cup Range(Areas) : Opaque(url) = {}
  /\ \A url \in {Config} \cup Range(Devices) :
       /\ url \in Range(Order)
       /\ \A rule \in RulesAt(url) :
            rule.path \in Seq({key \in STRING : ~IsWildcard(key) /\ key # AnyKey})
  /\ \A key \in {"id_device", "id_endpoint"} : IsRule(Config, <<"endpoints", Item, key>>, "id")
  /\ \A url \in Range(Devices) : \A path \in {<<Item, "id">>, Append(EndpointOf, "id")} :
       IsRule(url, path, "id")

\* Numbers have different texts, none is that of no id, and a numbered key is none that
\* the catalog reads.
TextsDiffer(numbers) ==
  /\ \A m, n \in numbers : ToString(m) = ToString(n) => m = n
  /\ \A n \in numbers : ToString(n) \notin {Null.text, Empty.text}
  /\ \A n \in numbers : "<key-" \o ToString(n) \o ">" \notin CatalogKeys \cup {Item}
ASSUME SmallTextsDiffer == TextsDiffer(0..99)

\* What can be told from a list item, or from no id, by str(): an object may have the key
\* "[]", and an id may be the text "None", which is also that of a missing one.
Unambiguous(one) ==
  \A leaf \in Range(one.leaves) :
    /\ \A step \in Range(leaf.path) : step[1] = Item => step[2] # 0
    /\ leaf.path # <<>> /\ Last(leaf.path) = <<"id", 0>> /\ leaf.value.text \in {Null.text, Empty.text} =>
         leaf.value \in {Null, Empty}

\* A value is the min of its descriptor, in its own type, or among its enum values; the
\* descriptor is given by the leaf with its name.
IsAsDescribed(docs, leaf, m) ==
  LET minimum == Get(docs, DescriptorSources[leaf.url].meta, Keys(Front(docs.leaves[m].path), "min"))
  IN CASE leaf.value.type = "str" ->
            Lists(docs, leaf, m) \/ leaf.value.text \in {"<redacted>", "<not-in-enum>"}
       [] leaf.value.type \in {"int", "float"} /\ minimum # Null ->
            leaf.value.text \in {minimum.text, Truncated(minimum.text)}
       [] OTHER -> TRUE
\* What its first descriptor, if any, says of it.
FitsIn(docs, leaf) ==
  LET found == Describing(docs, leaf)
  IN found # {} => IsAsDescribed(docs, leaf, Min(found))

\* Every value of the published data is the min of its published descriptor, or is
\* among its published enum values, when both are found by their new ids and name:
\* renumbering keeps what the documents say of each other, where nothing was refused.
ValuesFit ==
  phase = "published" /\ Unambiguous(box) /\ capture.unclassified = {} =>
    \A n \in DOMAIN capture.leaves :
      LET leaf == capture.leaves[n]
      IN leaf.url \in DOMAIN DescriptorSources /\ Generic(leaf.path) = DataPath(leaf.url) =>
           FitsIn(capture, leaf)

\* Anonymization changes nothing that the catalog reads: the published documents have
\* the fields and commands of the capture, of the same usages, in the same order.
EntriesKept ==
  phase = "published" /\ Shaped(capture) /\ Legible(box) => Entries(capture) = Entries(box)

EntriesOf(S) == UNION {Range(Entries(one)) : one \in S}

\* The catalog file is what the merged captures, read before their anonymization,
\* say together: each field and command of each usage with the attributes all of
\* them give it, and the enum values any of them gives it, in whatever order they
\* came and whatever was refused in between.
CatalogIsUnion ==
  (\A one \in merged : Legible(one)) =>
    LET entries == EntriesOf(merged)
    IN /\ DOMAIN file = UNION {DOMAIN entry : entry \in entries}
       /\ \A at \in DOMAIN file :
            LET said == {entry[at] : entry \in {e \in entries : at \in DOMAIN e}}
            IN /\ \A one \in said : file[at].attributes = one.attributes
               /\ file[at].enum = UNION {one.enum : one \in said}

\* A capture is refused only for a field or a command that it describes otherwise
\* than itself or than a capture merged before, its enum values apart when it is a
\* field: "a field already in the catalog is described differently by your box".
RefusedForAReason ==
  phase = "conflict" /\ (\A one \in merged \cup {box} : Legible(one)) =>
    \E one \in EntriesOf({box}), other \in EntriesOf(merged \cup {box}) :
      \E at \in DOMAIN one \cap DOMAIN other : one[at].attributes # other[at].attributes
=============================================================================

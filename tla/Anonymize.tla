------------------------------ MODULE Anonymize ------------------------------
(***************************************************************************)
(* The anonymization of the captured bodies in one pass                    *)
(* (tydomio/capture/anonymize.py).                                         *)
(*                                                                         *)
(* A capture is the endpoints answered with status 200 and the leaves of   *)
(* every body in the order of the walk.  The path of a leaf is its keys,   *)
(* <<key, 0>>, and its list items, <<"[]", n>>; an object or a list with   *)
(* nothing in it has no leaf.  A value is its JSON type and its text, as   *)
(* str() gives it; the number of an int and of a float is one text.        *)
(***************************************************************************)
EXTENDS Policy

Value(type, text) == [type |-> type, text |-> text]
Null == Value("null", "None")
Empty == Value("str", "")

Generic(path) == [n \in DOMAIN path |-> path[n][1]]

\* dict.get at a path.
Get(capture, url, path) ==
  LET at == SelectInSeq(capture.leaves, LAMBDA leaf : leaf.url = url /\ leaf.path = path)
  IN IF at = 0 THEN Null ELSE capture.leaves[at].value

\* dict.setdefault(x, len(dict) + 1): a dict is the sequence of its keys.
Numbered(known, x) == IF Contains(known, x) THEN known ELSE Append(known, x)
\* Mutant of NumberOf: the number of the last key.
NumberOfLast(known, x) == ToString(Len(known))
NumberOf(known, x) == ToString(SelectInSeq(known, LAMBDA y : y = x))

-----------------------------------------------------------------------------
(* _Position: the rules that may still match, and the keys on the way      *)

\* Whether a rule's path, followed up to here, goes on through the key.
Follows(path, depth, key) ==
  /\ depth < Len(path)
  /\ LET segment == path[depth + 1]
     IN IF Item \in {key, segment} THEN segment = key ELSE SegmentMatches(segment, key)

\* A key named by a rule, or matched by a "*suffix" segment, is declared.
Declared(at, key) ==
  \E n \in at.rules :
    LET path == Rules[at.url][n].path
        depth == Len(at.path)
    IN /\ depth < Len(path) /\ path[depth + 1] \notin {AnyKey, Item}
       /\ SegmentMatches(path[depth + 1], key)

\* Mutant of KeyKept: an identifier is kept in an opaque subtree too.
KeyKeptIfIdentifier(at, key) == key = Item \/ Declared(at, key) \/ key \notin OddKeys
KeyKept(at, key) == key = Item \/ Declared(at, key) \/ (~at.opaque /\ key \notin OddKeys)

\* _key
OutKey(at, key) ==
  IF KeyKept(at, key) THEN key ELSE "<key-" \o NumberOf(Numbered(at.keys, key), key) \o ">"

\* One level down: _key, then child.
Child(at, step) ==
  LET key == step[1]
      depth == Len(at.path)
      kept == KeyKept(at, key)
      keys == IF kept THEN at.keys ELSE Numbered(at.keys, key)
      path == Append(at.path, <<OutKey(at, key), step[2]>>)
      hidden == {opaque \in at.hidden : Follows(opaque, depth, key)}
  IN [url |-> at.url, path |-> path, keys |-> keys,
      rules |-> {n \in at.rules : Follows(Rules[at.url][n].path, depth, key)},
      hidden |-> hidden,
      opaque |-> at.opaque \/ \E opaque \in hidden : Len(opaque) = depth + 1,
      renamed |-> IF kept THEN at.renamed ELSE at.renamed \cup {<<at.url, Generic(path)>>}]

\* The root of a body; the body of an http-error has no rules.
Root(capture, state, url) ==
  LET ok == url \in capture.ok
  IN [url |-> url, path |-> <<>>, keys |-> state.keys, renamed |-> state.renamed,
      rules |-> IF ok THEN 1..Len(Rules[url]) ELSE {}, hidden |-> IF ok THEN Opaque(url) ELSE {},
      opaque |-> FALSE]

\* The position of a leaf, key after key.
Position(capture, state, leaf) ==
  LET so[n \in 0..Len(leaf.path)] ==
        IF n = 0 THEN Root(capture, state, leaf.url) ELSE Child(so[n - 1], leaf.path[n])
  IN so[Len(leaf.path)]

CompleteRules(at) == {n \in at.rules : Len(Rules[at.url][n].path) = Len(at.path)}

-----------------------------------------------------------------------------
(* _leaf and its actions                                                   *)

Placeholder(value) ==
  CASE value.type = "bool" -> Value("bool", "False")
    [] value.type \in {"int", "float"} -> Value(value.type, "0")
    [] value.type = "str" -> Value("str", "<redacted>")
    [] value.type = "null" -> Null

Write(state, at, value) ==
  [state EXCEPT !.leaves = Append(@, [url |-> at.url, path |-> at.path, value |-> value])]

\* _unknown_leaf
Redact(state, at, value, reason) ==
  [Write(state, at, Placeholder(value)) EXCEPT
     !.unclassified = @ \cup {[url |-> at.url, path |-> Generic(at.path),
                              type |-> value.type, reason |-> reason]}]

\* An id keeps its type; the same text has the same number everywhere.
Id(state, at, value) ==
  LET ids == Numbered(state.ids, value.text)
  IN IF value \in {Null, Empty} THEN Write(state, at, value)
     ELSE IF value.type \notin {"int", "str"} THEN Redact(state, at, value, "keep-constraint")
     ELSE [Write(state, at, Value(value.type, NumberOf(ids, value.text))) EXCEPT !.ids = ids]

\* Equal names of a kind become equal tokens.
Name(state, at, value, kind) ==
  LET names == Numbered(state.names[kind], value.text)
      token == "<name:" \o kind \o ":" \o NumberOf(names, value.text) \o ">"
  IN IF value = Null THEN Write(state, at, value)
     ELSE IF value.type # "str" THEN Redact(state, at, value, "keep-constraint")
     ELSE [Write(state, at, Value("str", token)) EXCEPT !.names[kind] = names]

-----------------------------------------------------------------------------
(* _value and _index_descriptors                                           *)

\* The objects on the way to a leaf, each by the depth of its key.
Dicts(path) == {n \in DOMAIN path : path[n][2] = 0}

\* Mutant of DescriptorKey: descriptors are found by name alone.
DescriptorKeyNameOnly(capture, leaf) ==
  <<Get(capture, leaf.url, Append(Front(leaf.path), <<"name", 0>>)).text>>
\* The ids of the levels, then the name, as str() gives them.
DescriptorKey(capture, leaf) ==
  [n \in Dicts(leaf.path) |->
     Get(capture, leaf.url,
         Append(SubSeq(leaf.path, 1, n - 1), <<IF n = Len(leaf.path) THEN "name" ELSE "id", 0>>)).text]

\* The keys to the names of the descriptors of a data endpoint.
NamePath(url) ==
  LET levels == DescriptorSources[url].levels
  IN <<Item>> \o FlattenSeq([n \in DOMAIN levels |-> <<levels[n], Item>>])
     \o <<"metadata", Item, "name">>

\* The descriptors of a meta body, each as the leaf with its name.
Index(capture, url) ==
  {n \in DOMAIN capture.leaves :
     LET leaf == capture.leaves[n]
     IN /\ DescriptorSources[url].meta \in capture.ok
        /\ leaf.url = DescriptorSources[url].meta /\ leaf.value.type = "str"
        /\ Generic(leaf.path) = NamePath(url)
        /\ Dicts(leaf.path) = {d \in DOMAIN leaf.path : leaf.path[d][1] # Item}}

\* The first descriptor with the ids and the name of a data leaf, if any.
DescriptorsOf(capture, leaf) ==
  LET named == {n \in Index(capture, leaf.url) :
                  DescriptorKey(capture, capture.leaves[n]) = DescriptorKey(capture, leaf)}
  IN IF named = {} THEN {} ELSE {Front(capture.leaves[Min(named)].path)}

EnumValues(capture, url, descriptor) ==
  {leaf.value : leaf \in {l \in Range(capture.leaves) :
     l.url = url /\ Front(l.path) = Append(descriptor, <<"enum_values", 0>>)
     /\ Last(l.path)[1] = Item}}

Truncated(text) == IF text = "2.5" THEN "2" ELSE text

\* A number becomes the min of its descriptor in its own type; a string stays when
\* its descriptor lists it.
DataValue(capture, leaf) ==
  LET value == leaf.value
      meta == DescriptorSources[leaf.url].meta
      found == DescriptorsOf(capture, leaf)
      minimum == IF found = {} THEN Null
                 ELSE Get(capture, meta, Append(CHOOSE d \in found : TRUE, <<"min", 0>>))
      enum == UNION {EnumValues(capture, meta, d) : d \in found}
  IN CASE value.type \in {"null", "bool"} -> value
       [] value.type \in {"int", "float"} ->
            IF minimum.type \notin {"int", "float"} THEN Placeholder(value)
            ELSE Value(value.type,
                       IF value.type = "int" THEN Truncated(minimum.text) ELSE minimum.text)
       [] value.type = "str" ->
            IF enum = {} THEN Placeholder(value)
            ELSE IF value \in enum /\ Passes(value, "enum") THEN value
            ELSE Value("str", "<not-in-enum>")

-----------------------------------------------------------------------------
(* The whole capture                                                       *)

\* The value of a leaf, at its position, by the first rule whose path ends there.
Leaf(capture, state, at, leaf) ==
  LET value == leaf.value
      action == Rules[at.url][Min(CompleteRules(at))].action
  IN IF CompleteRules(at) = {} THEN Redact(state, at, value, "no-rule")
     ELSE CASE action \in Keeps -> IF Passes(value, action) THEN Write(state, at, value)
                                   ELSE Redact(state, at, value, "keep-constraint")
            [] action = "id" -> Id(state, at, value)
            [] action \in Kinds -> Name(state, at, value, action)
            [] action = "value" -> Write(state, at, DataValue(capture, leaf))
            [] OTHER -> Write(state, at, Placeholder(value))

\* The keys on the way, then the leaf.
Arrive(capture, state, at, leaf) ==
  Leaf(capture, [state EXCEPT !.keys = at.keys, !.renamed = at.renamed], at, leaf)
Node(capture, state, leaf) == Arrive(capture, state, Position(capture, state, leaf), leaf)

\* The body of one endpoint, leaf after leaf.
Endpoint(capture, state, url) ==
  LET last(n) == Max({0} \cup {m \in 1..n : capture.leaves[m].url = url})
      so[n \in 0..Len(capture.leaves)] ==
        IF n = 0 THEN state ELSE Node(capture, so[last(n - 1)], capture.leaves[n])
  IN so[last(Len(capture.leaves))]

\* What the anonymizer returns of its state.
Result(capture, state) ==
  [ok |-> capture.ok, leaves |-> state.leaves,
   unclassified |-> state.unclassified, renamed |-> state.renamed]

\* Endpoint by endpoint in the order of the policy, so that the numbers are the
\* same for the same capture.
Anonymized(capture) ==
  LET start == [ids |-> <<>>, keys |-> <<>>, names |-> [kind \in Kinds |-> <<>>],
                leaves |-> <<>>, unclassified |-> {}, renamed |-> {}]
      so[n \in 0..Len(Order)] ==
        IF n = 0 THEN start ELSE Endpoint(capture, so[n - 1], Order[n])
  IN Result(capture, so[Len(Order)])
=============================================================================

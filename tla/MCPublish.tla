------------------------------ MODULE MCPublish ------------------------------
EXTENDS PublishProps

Key(key) == <<key, 0>>
At(n) == <<Item, n>>
L(url, path, value) == [url |-> url, path |-> path, value |-> value]
Whole(text) == Value("int", text)
Str(text) == Value("str", text)

-----------------------------------------------------------------------------
(* One leaf at, beside, below or above the path of each rule, and another  *)

Values == {Null, Value("bool", "True"), Whole("7"), Value("float", "2.5")}
  \cup {Str(text) : text \in {"on", "a-b", "a+b", "a b", "%", "fortycharacters", "Ana!", "7", ""}}

Concrete(path, n, key) ==
  [m \in DOMAIN path |->
     CASE path[m] = Item -> At(n) [] path[m] = AnyKey -> Key(key)
       [] IsWildcard(path[m]) -> Key("x" \o SubSeq(path[m], 2, Len(path[m])))
       [] OTHER -> Key(path[m])]
Around(path, n, key) ==
  LET at == Concrete(path, n, key)
  IN <<at, Append(Front(at), Key(key)), Append(at, Key(key)), Front(at)>>

OneEndpoint ==
  UNION {LET first == Around(Rules[url][r].path, 1, "Paul")[where]
             second == Around(Rules[url][r].path, 2, "2 rue")[where]
             rest == IF first = second THEN <<>> ELSE <<L(url, second, Str("8"))>>
         IN {[ok |-> {url}, leaves |-> <<L(url, first, value)>> \o rest] : value \in Values}
            \cup {[ok |-> {}, leaves |-> <<L(url, first, Str("Ana!"))>> \o rest]} :
           <<url, r, where>> \in
             {<<u, n, w>> \in Range(Order) \X (1..60) \X (1..4) : n \in DOMAIN Rules[u]}}

MCRenaming ==
  LET pairs == {<<"7", "8">>, <<"Ana!", "Eva!">>, <<"2 rue", "3 rue">>, <<"Paul", "Jeanne">>}
  IN [text \in UNION {{p[1], p[2]} : p \in pairs} |->
        CHOOSE other \in UNION {{p[1], p[2]} : p \in pairs} :
          <<text, other>> \in pairs \/ <<other, text>> \in pairs]

-----------------------------------------------------------------------------
(* The documents the catalog reads, and the data                           *)

Numeric(min) == [type |-> "numeric", min |-> min, enum |-> <<>>]
Listing(enum) == [type |-> "string", min |-> Null, enum |-> enum]
Level == {Numeric(Whole("0")), Numeric(Value("float", "2.5")), Listing(<<"on">>), Listing(<<"off">>)}
Plain == {Numeric(Null), Listing(<<>>)}
Pairs == {<<"7", "7">>, <<"8", "7">>, <<"7", "8">>}
Fixed == <<<<"7", "7">>, <<"8", "7">>>>

Described(url, at, name, level) ==
  <<L(url, Keys(at, "name"), Str(name)), L(url, Keys(at, "type"), Str(level.type))>>
  \o (IF level.min = Null THEN <<>> ELSE <<L(url, Keys(at, "min"), level.min)>>)
  \o [n \in DOMAIN level.enum |-> L(url, at \o <<Key("enum_values"), At(n)>>, Str(level.enum[n]))]
Ids(url, n, pair) ==
  <<L(url, <<At(n), Key("id")>>, Whole(pair[1])),
    L(url, <<At(n), Key("endpoints"), At(1), Key("id")>>, Whole(pair[2]))>>
Under1(n, list) == <<At(n), Key("endpoints"), At(1), Key(list), At(1)>>

Captured(leaves) ==
  [ok |-> {Config, Devices[1], Devices[2], Areas[1], Areas[2]}, leaves |-> leaves]
Configured(usages) ==
  FlattenSeq([n \in DOMAIN usages |->
    <<L(Config, <<Key("endpoints"), At(n), Key("id_device")>>, Whole(Fixed[n][1])),
      L(Config, <<Key("endpoints"), At(n), Key("id_endpoint")>>, Whole(Fixed[n][2])),
      L(Config, <<Key("endpoints"), At(n), Key("last_usage")>>, Str(usages[n]))>>])

\* Two devices with a field each, one of them described in full.
Fields(ids, levels, name) ==
  FlattenSeq([n \in 1..2 |->
    Ids(Devices[1], n, ids[n]) \o Described(Devices[1], Under1(n, "metadata"), name, levels[n])])
WithUsages(ids, usages, levels) == Captured(Configured(usages) \o Fields(ids, levels, "level"))

\* A value of such a field, the config not answered.
WithData(ids, levels, name, of, value) ==
  [ok |-> {Devices[1], "/devices/data"},
   leaves |-> Fields(ids, levels, name) \o Ids("/devices/data", 1, of)
     \o <<L("/devices/data", Keys(Under1(1, "data"), "name"), Str(name)),
          L("/devices/data", Keys(Under1(1, "data"), "value"), value)>>]

\* A device with a command.
WithCommand(usage, name, level) ==
  Captured(Configured(<<usage>>) \o Ids(Devices[2], 1, <<"7", "7">>)
     \o <<L(Devices[2], Keys(Under1(1, "cmetadata"), "name"), Str(name)),
          L(Devices[2], Keys(Under1(1, "cmetadata"), "permission"), Str("w"))>>
     \o Described(Devices[2], Under1(1, "cmetadata") \o <<Key("parameters"), At(1)>>, "to", level))

\* Two areas with a field each.
WithAreas(name, levels) ==
  Captured(FlattenSeq([n \in 1..2 |->
    <<L(Areas[1], <<At(n), Key("id")>>, Whole("7"))>>
    \o Described(Areas[1], <<At(n), Key("metadata"), At(1)>>, name, levels[n])]))

MCLaterBoxes ==
  {WithUsages(Fixed, <<"shutter", usage>>, <<level, plain>>) :
     usage \in {"shutter", "light"}, level \in Level, plain \in Plain}
  \cup {WithCommand(usage, "go", level) : usage \in {"shutter", "light"}, level \in {Listing(<<"on">>), Listing(<<"off">>)}}
  \cup {WithAreas("level", <<one, Listing(<<"on">>)>>) : one \in Level}
MCBoxes ==
  MCLaterBoxes
  \cup {WithData(ids, levels, "level", of, value) :
          ids \in Pairs \X Pairs, levels \in (Level \X Plain) \cup (Plain \X Level), of \in Pairs \ {<<"8", "7">>},
          value \in {Value("bool", "True"), Whole("7"), Value("float", "7"), Str("on")}}
  \cup {WithData(Fixed, <<one, other>>, "Ana!", of, Str("on")) : one \in Level, other \in Plain, of \in Pairs}
  \cup {WithUsages(<<first, second>>, <<"shutter", "light">>, levels) : first \in Pairs \ {<<"7", "8">>},
          second \in Pairs, levels \in (Level \X Plain) \cup (Plain \X Level)}
  \cup {WithCommand("shutter", name, level) : name \in {"go", "Ana!"}, level \in Level}
  \cup {WithAreas(name, <<one, other>>) : name \in {"level", "Ana!"}, one \in Level, other \in Level}
  \cup OneEndpoint
=============================================================================

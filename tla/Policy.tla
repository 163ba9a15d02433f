------------------------------- MODULE Policy -------------------------------
(***************************************************************************)
(* The anonymization rules of each endpoint, and how a rule's path matches *)
(* (tydomio/capture/policy.py).  A path is written as parse_path returns   *)
(* it: a sequence of keys, "[]" for a list item, "*" for any key and       *)
(* "*suffix" for any key that ends with suffix.                            *)
(*                                                                         *)
(* An action is the name of a keep constraint, "id", "redact", "value", or *)
(* the kind of the name it replaces.                                       *)
(***************************************************************************)
EXTENDS Naturals, Sequences, SequencesExt, TLC

Item == "[]"
AnyKey == "*"

IsWildcard(segment) == segment # "" /\ SubSeq(segment, 1, 1) = AnyKey

EndsWith(key, suffix) ==
  /\ Len(key) > Len(suffix)
  /\ SubSeq(key, Len(key) - Len(suffix) + 1, Len(key)) = suffix

SegmentMatches(segment, key) ==
  IF IsWildcard(segment) THEN EndsWith(key, SubSeq(segment, 2, Len(segment))) ELSE segment = key

-----------------------------------------------------------------------------
(* Keep constraints                                                        *)

\* The patterns that the odd texts of the instance match; other texts match all.
Odd ==
  "a-b" :> {"version", "protocol", "enum", "unit", "product"} @@
  "a+b" :> {"tutorial"} @@ "a b" :> {"product"} @@ "%" :> {"unit"} @@
  "fortycharacters" :> {"word", "tutorial", "enum"} @@
  "<redacted>" :> {} @@ "<not-in-enum>" :> {} @@ "" :> {} @@ "Ana!" :> {} @@ "Eva!" :> {}
\* The keys of the instance that are no identifiers.
OddKeys == {"2 rue", "3 rue", "config.json", "x.dat", ".json"}
Fits(text, pattern) == text \in DOMAIN Odd => pattern \in Odd[text]

Keeps == {"word", "short_word", "version", "protocol", "enum", "unit", "product", "tutorial",
          "bool", "int", "number"}
Kinds == {"endpoint", "scenario", "group", "area", "moment", "zigbee"}

\* Type and pattern; a bool is no int.
Passes(value, keep) ==
  CASE keep \in {"bool", "int"} -> value.type = keep
    [] keep = "number" -> value.type \in {"int", "float"}
    [] OTHER -> value.type = "str" /\ Fits(value.text, keep)

-----------------------------------------------------------------------------
(* Rules                                                                   *)

Under(prefix, action, keys) ==
  [n \in DOMAIN keys |-> [path |-> Append(prefix, keys[n]), action |-> action]]

Descriptor(prefix) ==
  Under(prefix, "word", <<"name", "type", "permission", "validity">>)
  \o Under(prefix, "unit", <<"unit">>) \o Under(prefix, "bool", <<"shared">>)
  \o Under(prefix, "number", <<"min", "max", "step">>) \o Under(prefix, "int", <<"size">>)
  \o Under(Append(prefix, "enum_values"), "enum", <<Item>>)

Protocols(prefix) ==
  Under(prefix, "protocol", <<"protocol", "status", "installStatus">>)
  \o Under(prefix, "bool", <<"available", "installed", "ready">>)

Cmeta(prefix) ==
  Under(prefix, "word", <<"name", "permission">>) \o Descriptor(prefix \o <<"parameters", Item>>)

Data(prefix) == Under(prefix, "word", <<"name", "validity">>) \o Under(prefix, "value", <<"value">>)

EndpointOf == <<Item, "endpoints", Item>>
DeviceIds ==
  Under(<<Item>>, "id", <<"id">>) \o Under(EndpointOf, "id", <<"id">>)
  \o Under(EndpointOf, "int", <<"error">>)
  \o Under(EndpointOf \o <<"link">>, "word", <<"type", "subtype">>)
  \o Under(EndpointOf \o <<"link">>, "id", <<"id">>)
AreaIds == Under(<<Item>>, "id", <<"id">>) \o Under(<<Item>>, "int", <<"error">>)

ConfigsFile ==
  Under(<<>>, "version", <<"version", "version_application", "os">>)
  \o Under(<<>>, "bool", <<"old_tycam">>)
  \o Under(<<"endpoints", Item>>, "word", <<"picto", "first_usage", "last_usage", "skill">>)
  \o Under(<<"endpoints", Item>>, "bool", <<"anticipation_start">>)
  \o Under(<<"endpoints", Item, "widget_behavior">>, "tutorial", <<"tutorial_id">>)
  \o Under(<<"scenarios", Item>>, "word", <<"picto", "type">>)
  \o Under(<<"groups", Item>>, "word", <<"picto", "usage">>)
  \o Under(<<"groups", Item>>, "bool", <<"group_all", "is_group_user">>)
  \o Under(<<"areas", Item>>, "word", <<"picto", "first_usage", "last_usage">>)
  \o Under(<<"areas", Item>>, "bool", <<"anticipation_start">>)
  \o Under(<<"moments", Item>>, "int", <<"color">>)
  \o Under(<<"zigbee_networks", Item>>, "bool", <<"is_connected">>)
  \o Under(<<"zigbee_networks", Item>>, "word", <<"type">>)
  \o Under(<<"endpoints", Item>>, "id", <<"id_device", "id_endpoint", "space_id">>)
  \o Under(<<"scenarios", Item>>, "id", <<"id", "rule_id">>)
  \o Under(<<"groups", Item>>, "id", <<"id">>) \o Under(<<"areas", Item>>, "id", <<"id">>)
  \o Under(<<"moments", Item>>, "id", <<"id", "rule_id">>)
  \o Under(<<"endpoints", Item>>, "endpoint", <<"name">>)
  \o Under(<<"scenarios", Item>>, "scenario", <<"name">>)
  \o Under(<<"groups", Item>>, "group", <<"name">>) \o Under(<<"areas", Item>>, "area", <<"name">>)
  \o Under(<<"moments", Item>>, "moment", <<"name">>)
  \o Under(<<"zigbee_networks", Item>>, "zigbee", <<"name">>)
  \o Under(<<>>, "redact", <<"date", "id_catalog">>)
  \o Under(<<"zigbee_networks", Item>>, "redact", <<"extended_pan_id">>)

Info ==
  Under(<<>>, "product", <<"productName">>)
  \o Under(<<>>, "bool", <<"apiMode", "bddEmpty", "pltRegistered", "updateAvailable", "passwordEmpty">>)
  \o Under(<<>>, "int", <<"bddStatus", "*.json", "*.dat">>)
  \o Under(<<"local_claim">>, "short_word", <<"status">>)
  \o Under(<<"clock">>, "short_word", <<"source", "summerOffset">>)
  \o Protocols(<<"protocols", Item>>)
  \o Under(<<>>, "version",
       <<"config", "mainReference", "keyReference", "zigbeeReference", "bootReference", "javaVersion",
         "bootVersion", "oryxVersion", "*VersionSW", "*VersionHW", "*VersionStack">>)
  \o Under(<<"weather", AnyKey>>, "id", <<"devId", "epId">>)
  \o Under(<<>>, "redact", <<"mac", "mainId", "urlMediation">>)
  \o Under(<<"maintenance">>, "redact", <<"id">>) \o Under(<<"geoloc">>, "redact", <<AnyKey>>)
  \o Under(<<"clock">>, "redact", <<"clock", "timezone">>)
  \o Under(<<"local_claim">>, "redact", <<"lastAccess">>)
  \o Under(<<"moments", "suspend">>, "redact", <<"to">>)

\* The endpoints in the order of POLICY, which is the order of fetch.ENDPOINTS.
Order == <<"/configs/file", "/devices/meta", "/devices/cmeta", "/devices/data", "/areas/meta",
           "/areas/cmeta", "/areas/data", "/groups/file", "/scenarios/file", "/moments/file",
           "/protocols", "/info">>

Rules ==
  "/configs/file" :> ConfigsFile @@
  "/devices/meta" :> DeviceIds \o Descriptor(EndpointOf \o <<"metadata", Item>>) @@
  "/devices/cmeta" :> DeviceIds \o Cmeta(EndpointOf \o <<"cmetadata", Item>>) @@
  "/devices/data" :> DeviceIds \o Data(EndpointOf \o <<"data", Item>>) @@
  "/areas/meta" :> AreaIds \o Descriptor(<<Item, "metadata", Item>>) @@
  "/areas/cmeta" :> AreaIds \o Cmeta(<<Item, "cmetadata", Item>>) @@
  "/areas/data" :> AreaIds \o Data(<<Item, "data", Item>>) @@
  "/groups/file" :>
    (Under(<<"groups", Item>>, "id", <<"id">>)
     \o Under(<<"groups", Item, "devices", Item>>, "id", <<"id">>)
     \o Under(<<"groups", Item, "devices", Item, "endpoints", Item>>, "id", <<"id">>)
     \o Under(<<"groups", Item, "areas", Item>>, "id", <<"id">>)) @@
  "/scenarios/file" :>
    (Under(<<"scn", Item>>, "id", <<"id">>) \o Under(<<"scn", Item, "grpAct", Item>>, "id", <<"id">>)
     \o Under(<<"scn", Item, "grpAct", Item, "state", Item>>, "word", <<"name">>)
     \o Under(<<"scn", Item, "grpAct", Item, "state", Item>>, "enum", <<"value">>)) @@
  "/moments/file" :>
    (Under(<<"prog", Item>>, "id", <<"id">>) \o Under(<<"event", Item>>, "id", <<"progId">>)
     \o Under(<<"rdv", Item>>, "id", <<"id">>) \o Under(<<"mom", Item>>, "id", <<"id">>)) @@
  "/protocols" :> Protocols(<<Item>>) @@
  "/info" :> Info

\* The subtrees whose keys are all renamed.
Opaque(url) ==
  CASE url = "/info" -> {<<"geoloc">>, <<"weather">>}
    [] url = "/moments/file" -> {<<"prog", Item>>, <<"rdv", Item>>, <<"mom", Item>>, <<"event", Item>>}
    [] OTHER -> {}

\* Where the descriptors of the data are, and the keys between the levels of ids.
DescriptorSources ==
  "/devices/data" :> [meta |-> "/devices/meta", levels |-> <<"endpoints">>] @@
  "/areas/data" :> [meta |-> "/areas/meta", levels |-> <<>>]
=============================================================================

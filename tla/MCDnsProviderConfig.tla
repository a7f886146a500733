------------------------ MODULE MCDnsProviderConfig -------------------------
(***************************************************************************)
(* Small configurations of a DNS provider for TLC.                         *)
(***************************************************************************)
EXTENDS RecordNames

CONSTANTS net, org,            \* zones
          www, api,            \* hosts of net
          top, nested,         \* two more: all of net, and part of its name twice
          home,                \* host of org
          zone_id, api_token   \* cloudflare's overridable settings

MCOverridable == <<zone_id, api_token>>

\* A zone as the config file writes it, and as the secrets file's sample does.
Configured(k, own, in, out) ==
  [key |-> k, zone_name |-> k, own |-> own, includes |-> in, excludes |-> out,
   malformed |-> FALSE]
Override(k, own) ==
  [key |-> k, zone_name |-> Missing, own |-> own, includes |-> {},
   excludes |-> {}, malformed |-> FALSE]
Malformed(entry) == [entry EXCEPT !.malformed = TRUE]

MCLabels == [h \in Host |->
  CASE h = www    -> <<"www", "example", "net">>
    [] h = api    -> <<"api", "example", "net">>
    [] h = top    -> <<"*", "example", "net">>
    [] h = nested -> <<"example", "www", "example", "net">>
    [] h = home   -> <<"*", "home", "example", "org">>]
MCZoneLabels == [n \in Zone |->
  <<"example", IF n = net THEN "net" ELSE "org">>]

NetOf(own) == Configured(net, own, {www, api, top, nested}, {api})
OrgOf(own) == Configured(org, own, {home, api}, {})

MCConfigZones ==
  {Missing, <<>>}
  \cup {<<NetOf(a)>> : a \in SUBSET Prop}
  \cup {<<NetOf(a), OrgOf(b)>> : a, b \in SUBSET Prop}
NoSecretsZones == {Missing}
MCSecretsZones == {Missing, <<Override(net, {api_token})>>,
                   <<NetOf({api_token}), OrgOf({})>>,
                   <<NetOf({api_token}), Malformed(OrgOf({}))>>}
\* Keys that are labels, not zone names, and patterns that do not compile.
LabelledZones ==
  MCConfigZones
  \cup {<<[NetOf({}) EXCEPT !.key = org]>>, <<Malformed(NetOf({}))>>,
        <<NetOf({}), Malformed(OrgOf({zone_id}))>>}
\* The library accepts everything, or refuses one value.
NoRefusal == {{}}
OneRefusal ==
  {{}} \cup {{r} : r \in Zone \X Prop \X {"config", "secrets", "zone"}}
=============================================================================

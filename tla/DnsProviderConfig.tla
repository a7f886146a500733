-------------------------- MODULE DnsProviderConfig --------------------------
(***************************************************************************)
(* How a DNS provider gets its zones: BaseDnsProvider.init_config merges   *)
(* the provider's entries of dns-provider-config.yaml and                  *)
(* dns-provider-secrets.yaml and copies the common settings into each zone *)
(* that does not override them, and compiles the zones' patterns;          *)
(* post_config_init builds an API client for each zone;                    *)
(* ensure_cname_for_acme_dns looks a name's zone and client up.  An        *)
(* exception on the way leaves the constructor of the provider.            *)
(*                                                                         *)
(* The files are inputs: maps of the samples' shape, from which settings,  *)
(* zones and the whole entry of the provider may be missing.  The value of *)
(* a setting is told by where it was written, and the patterns of a zone   *)
(* are the hosts that they match, unless one of them does not compile.     *)
(***************************************************************************)
EXTENDS Integers, Sequences

CONSTANTS
  Zone,         \* names of DNS zones
  Prop,         \* the settings that a zone may override
  overridable,  \* get_overridable_prop_names(): Prop in some order
  Host,
  Missing,      \* the key is not in the file
  ConfigZones,  \* what "zones" of the config file may be
  SecretsZones, \* what "zones" of the secrets file may be
  Refusals      \* what the library of the clients may refuse

\* A zone's entry: its key, its zone_name, the settings written in it, the
\* hosts that its includes and excludes match, and whether re refuses one of
\* these patterns.  A dict keeps its order.
ZoneEntry == [key : Zone, zone_name : Zone \cup {Missing}, own : SUBSET Prop,
              includes : SUBSET Host, excludes : SUBSET Host,
              malformed : BOOLEAN]

ASSUME DnsProviderConfigAssumption ==
  /\ overridable \in Seq(Prop)
  /\ overridable # <<>>
  /\ \A p \in Prop : \E i \in DOMAIN overridable : overridable[i] = p
  /\ Missing \notin Zone \cup {"config", "secrets", "zone"} \cup Seq(ZoneEntry)
  /\ ConfigZones \subseteq {Missing} \cup Seq(ZoneEntry)
  /\ SecretsZones \subseteq {Missing} \cup Seq(ZoneEntry)
  /\ \A zs \in (ConfigZones \cup SecretsZones) \ {Missing} :
       \A i, j \in DOMAIN zs : zs[i].key = zs[j].key => i = j
  /\ \A R \in Refusals : R \subseteq Zone \X Prop \X {"config", "secrets", "zone"}

VARIABLES
  config,        \* the provider's entry of the config file
  secrets,       \* the provider's entry of the secrets file, if it has one
  refused,       \* the settings of zones whose values no client accepts
  pc,
  common,        \* the provider's settings after the merge
  zones,         \* zone_configs: the entries
  value,         \* and the overridable settings of each
  z, p,          \* the loops' positions
  zone_clients   \* the zones a client was built for

vars == <<config, secrets, refused, pc, common, zones, value, z, p, zone_clients>>

Origin == {"config", "secrets", "zone", Missing}

Init ==
  /\ config \in [enabled : BOOLEAN, common : SUBSET Prop, zones : ConfigZones]
  /\ secrets \in [present : BOOLEAN, common : SUBSET Prop, zones : SecretsZones]
  /\ refused \in Refusals
  /\ pc = "load"
  /\ common = [q \in Prop |-> Missing]
  /\ zones = <<>>
  /\ value = <<>>
  /\ z = 1
  /\ p = 1
  /\ zone_clients = {}

files == <<config, secrets, refused>>
merged == <<common, zones>>

\* The provider has no entry, or one with "enabled: false".
NotEnabled ==
  /\ pc = "load"
  /\ ~config.enabled
  /\ pc' = "disabled"
  /\ UNCHANGED <<files, merged, value, z, p, zone_clients>>

\* Mutant: the config file is merged over the secrets.
MergeConfig ==
  LET new == IF secrets.zones = Missing THEN config.zones ELSE secrets.zones
  IN /\ pc = "load"
     /\ config.enabled
     /\ IF ~secrets.present \/ new = Missing
        THEN /\ pc' = "failed"
             /\ UNCHANGED <<merged, value>>
        ELSE /\ pc' = IF new = <<>> THEN "compile" ELSE "copy"
             /\ common' = [q \in Prop |->
                             IF q \in config.common THEN "config"
                             ELSE IF q \in secrets.common THEN "secrets"
                             ELSE Missing]
             /\ zones' = new
             /\ value' = [i \in DOMAIN new |->
                            [q \in Prop |-> IF q \in new[i].own THEN "zone"
                                                                ELSE Missing]]
     /\ UNCHANGED <<files, z, p, zone_clients>>

\* dict.update: each top-level key of the secrets replaces the config's, and
\* "zones" is such a key.  A provider without secrets raises KeyError, and so
\* does one without zones.
MergeSecrets ==
  LET new == IF secrets.zones = Missing THEN config.zones ELSE secrets.zones
  IN /\ pc = "load"
     /\ config.enabled
     /\ IF ~secrets.present \/ new = Missing
        THEN /\ pc' = "failed"
             /\ UNCHANGED <<merged, value>>
        ELSE /\ pc' = IF new = <<>> THEN "compile" ELSE "copy"
             /\ common' = [q \in Prop |->
                             IF q \in secrets.common THEN "secrets"
                             ELSE IF q \in config.common THEN "config"
                             ELSE Missing]
             /\ zones' = new
             /\ value' = [i \in DOMAIN new |->
                            [q \in Prop |-> IF q \in new[i].own THEN "zone"
                                                                ELSE Missing]]
     /\ UNCHANGED <<files, z, p, zone_clients>>

\* Mutant: the default is read before the zone's own value is looked for.
CopyEagerly ==
  LET q == overridable[p]
  IN /\ pc = "copy"
     /\ IF common[q] = Missing
        THEN /\ pc' = "failed"
             /\ UNCHANGED <<value, z, p>>
        ELSE /\ value' = [value EXCEPT ![z][q] = IF @ = Missing THEN common[q]
                                                                ELSE @]
             /\ IF p < Len(overridable)
                THEN p' = p + 1 /\ UNCHANGED <<z, pc>>
                ELSE /\ p' = 1
                     /\ IF z < Len(zones)
                        THEN z' = z + 1 /\ UNCHANGED pc
                        ELSE z' = 1 /\ pc' = "compile"
     /\ UNCHANGED <<files, merged, zone_clients>>

\* The next setting of the next zone: copied unless the zone has it.  One that
\* the provider has not either raises KeyError.
CopyProperty ==
  LET q == overridable[p]
  IN /\ pc = "copy"
     /\ IF value[z][q] = Missing /\ common[q] = Missing
        THEN /\ pc' = "failed"
             /\ UNCHANGED <<value, z, p>>
        ELSE /\ value' = [value EXCEPT ![z][q] = IF @ = Missing THEN common[q]
                                                                ELSE @]
             /\ IF p < Len(overridable)
                THEN p' = p + 1 /\ UNCHANGED <<z, pc>>
                ELSE /\ p' = 1
                     /\ IF z < Len(zones)
                        THEN z' = z + 1 /\ UNCHANGED pc
                        ELSE z' = 1 /\ pc' = "compile"
     /\ UNCHANGED <<files, merged, zone_clients>>

\* re_compile_patterns: one pattern that does not compile raises re.error.
CompilePatterns ==
  /\ pc = "compile"
  /\ pc' = IF \E i \in DOMAIN zones : zones[i].malformed THEN "failed"
           ELSE IF zones = <<>> THEN "ready"
           ELSE "clients"
  /\ UNCHANGED <<files, merged, value, z, p, zone_clients>>

\* The library raises on a value of zone i: a tenant that cannot be one, a
\* client_secret that is empty.
Refused(i) == \E q \in Prop : <<zones[i].key, q, value[i][q]>> \in refused

\* Mutant: a zone that overrides nothing is left to a common client.
BuildOwnClient ==
  /\ pc = "clients"
  /\ IF Refused(z)
     THEN pc' = "failed" /\ UNCHANGED <<z, zone_clients>>
     ELSE /\ zone_clients' = IF zones[z].own = {} THEN zone_clients
                             ELSE zone_clients \cup {zones[z].key}
          /\ IF z < Len(zones) THEN z' = z + 1 /\ UNCHANGED pc
                               ELSE pc' = "ready" /\ UNCHANGED z
  /\ UNCHANGED <<files, merged, value, p>>

\* post_config_init: the client of the next zone, stored under its key.
BuildClient ==
  /\ pc = "clients"
  /\ IF Refused(z)
     THEN pc' = "failed" /\ UNCHANGED <<z, zone_clients>>
     ELSE /\ zone_clients' = zone_clients \cup {zones[z].key}
          /\ IF z < Len(zones) THEN z' = z + 1 /\ UNCHANGED pc
                               ELSE pc' = "ready" /\ UNCHANGED z
  /\ UNCHANGED <<files, merged, value, p>>

Next ==
  NotEnabled \/ MergeSecrets \/ CopyProperty \/ CompilePatterns \/ BuildClient
Spec == Init /\ [][Next]_vars

-----------------------------------------------------------------------------
(* Looking up a name.                                                      *)

\* The positions of the zones that take h; find_config returns the first.
Matching(zs, h) ==
  {i \in DOMAIN zs : h \in zs[i].includes /\ h \notin zs[i].excludes}
find_config(zs, h) == CHOOSE i \in Matching(zs, h) :
                        \A j \in Matching(zs, h) : i <= j

\* get_zone_config found a zone, and zone_clients has a client under its
\* zone_name: only then does a provider call its API for h.
Manages(h) ==
  /\ pc = "ready"
  /\ Matching(zones, h) # {}
  /\ zones[find_config(zones, h)].zone_name \in zone_clients

-----------------------------------------------------------------------------
(* Properties.                                                             *)

\* Every variable has its type.
TypeOK ==
  /\ config \in [enabled : BOOLEAN, common : SUBSET Prop, zones : ConfigZones]
  /\ secrets \in [present : BOOLEAN, common : SUBSET Prop, zones : SecretsZones]
  /\ refused \in Refusals
  /\ pc \in {"load", "copy", "compile", "clients", "ready", "disabled", "failed"}
  /\ common \in [Prop -> Origin]
  /\ zones \in Seq(ZoneEntry)
  /\ value \in Seq([Prop -> Origin])
  /\ Len(value) = Len(zones)
  /\ zone_clients \subseteq Zone
  /\ z \in 1..Len(zones) \/ z = 1
  /\ p \in 1..Len(overridable)

\* The provider's own zones, those of the secrets file if it has any.
OwnZones == IF secrets.zones = Missing THEN config.zones ELSE secrets.zones

\* What a zone's setting should be: the zone's own, else the secrets', else the
\* config's.
Effective(entry, q) ==
  IF q \in entry.own THEN "zone"
  ELSE IF q \in secrets.common THEN "secrets"
  ELSE IF q \in config.common THEN "config"
  ELSE Missing

\* Whatever the order of the loops and whatever is missing where: an enabled
\* provider has, for each of its zones and each setting that its clients need,
\* the value of the most specific place that gives one.
EffectiveValues ==
  pc \in {"compile", "clients", "ready"} =>
    \A i \in DOMAIN zones, q \in Prop :
      /\ value[i][q] = Effective(OwnZones[i], q)
      /\ value[i][q] # Missing

\* What no order of the constructor's loops can make up for: no secrets, no
\* zones, a pattern that does not compile, or a zone with a setting that is
\* nowhere, or whose value, taken from the most specific place, is refused.
Unusable ==
  \/ ~secrets.present
  \/ OwnZones = Missing
  \/ \E i \in DOMAIN OwnZones : OwnZones[i].malformed
  \/ \E i \in DOMAIN OwnZones, q \in Prop :
       LET e == Effective(OwnZones[i], q)
       IN e = Missing \/ <<OwnZones[i].key, q, e>> \in refused

\* The constructor of an enabled provider raises, and takes the whole
\* RegistrarService with it, exactly if the files are unusable: a missing or
\* refused value that some zone or file overrides does no harm, and nothing
\* unusable gets past the loops.
FailsExactlyIfUnusable ==
  /\ pc = "failed" => Unusable
  /\ pc = "ready" => ~Unusable

\* Clients are stored by a zone's key and looked up by its zone_name.  If the
\* two agree in every zone, as in the samples, then no name whose zone was found
\* is without a client, whatever was overridden.
ZonesHaveClients ==
  pc = "ready" /\ (\A i \in DOMAIN zones : zones[i].zone_name = zones[i].key) =>
    \A h \in Host : Matching(zones, h) # {} => Manages(h)

\* dns-provider-secrets.yaml:12, "MERGED with the contents of
\* dns-provider-config.yaml", which offers overrides per zone: a name that the
\* config file gives to a zone is managed.  It is not if the secrets file
\* overrides a setting of some zone.
SecretsAreMerged ==
  pc = "ready" /\ config.zones # Missing =>
    \A h \in Host : Matching(config.zones, h) # {} => Manages(h)
=============================================================================

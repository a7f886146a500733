------------------------------ MODULE RecordNames ------------------------------
(***************************************************************************)
(* How the record of a host is named in its zone:                          *)
(* get_relative_recordset_name, for the zones that module                  *)
(* DnsProviderConfig finds.  A name is the sequence of its labels; a name  *)
(* of a zone is taken to begin and end between labels.                     *)
(***************************************************************************)
EXTENDS DnsProviderConfig, FiniteSetsExt

CONSTANTS
  labels,       \* the labels of each host
  zone_labels   \* the labels of each zone's name

Blank == ""
Star == "*"
Challenge == "_acme-challenge"

\* What Kubernetes admits as the host of an Ingress: no empty label, and "*"
\* as the first label only.  The name of a zone is no wildcard.
ASSUME NamesAssumption ==
  /\ labels \in [Host -> Seq(STRING)]
  /\ zone_labels \in [Zone -> Seq(STRING) \ {<<>>}]
  /\ \A h \in Host : \A i \in DOMAIN labels[h] :
       /\ labels[h][i] # Blank
       /\ labels[h][i] = Star => i = 1
  /\ \A n \in Zone : \A i \in DOMAIN zone_labels[n] : zone_labels[n][i] # Star

OccursAt(name, zone, i) ==
  /\ i + Len(zone) - 1 <= Len(name)
  /\ SubSeq(name, i, i + Len(zone) - 1) = zone

\* name.replace(zone, ''): each occurrence, from the left, leaves a Blank.
replace(name, zone) ==
  LET from[i \in 1..(Len(name) + Len(zone))] ==
        CASE i > Len(name)          -> <<>>
          [] OccursAt(name, zone, i) -> <<Blank>> \o from[i + Len(zone)]
          [] OTHER                  -> <<name[i]>> \o from[i + 1]
  IN from[1]

\* strip('.') takes the Blanks at both ends, and no others.
strip(name) ==
  LET kept == {i \in DOMAIN name : name[i] # Blank}
  IN IF kept = {} THEN <<>> ELSE SubSeq(name, Min(kept), Max(kept))

\* Mutant: the "*" is kept.
get_wildcard_recordset_name(name, zone) ==
  <<Challenge>> \o strip(replace(name, zone))

get_relative_recordset_name(name, zone) ==
  LET rest == replace(name, zone)
      hostname == strip([i \in DOMAIN rest |-> IF rest[i] = Star THEN Blank
                                                               ELSE rest[i]])
  IN <<Challenge>> \o hostname

-----------------------------------------------------------------------------
(* The property.                                                           *)

Plain(name) == IF name[1] = Star THEN Tail(name) ELSE name

\* If the host is in the zone that was found for it, and the zone's name
\* occurs in it once: the record that the provider is asked to create is the
\* one that an ACME server looks up, _acme-challenge in front of the host
\* without "*.".  A host and its wildcard share it, other hosts do not.
RecordNamesHost ==
  \A h \in Host : Manages(h) =>
    LET name == labels[h]
        zone == zone_labels[zones[find_config(zones, h)].zone_name]
    IN {i \in DOMAIN name : OccursAt(name, zone, i)}
         = {Len(name) - Len(zone) + 1}
       => get_relative_recordset_name(name, zone) \o zone
            = <<Challenge>> \o Plain(name)
=============================================================================

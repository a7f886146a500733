----------------------- MODULE DnsProviderConfigProofs -----------------------
(***************************************************************************)
(* Proofs about modules DnsProviderConfig and RecordNames, for any files,  *)
(* zones, settings and names.                                              *)
(***************************************************************************)
EXTENDS RecordNames, SequenceTheorems, WellFoundedInduction, TLAPS

-----------------------------------------------------------------------------
(* The inductive invariant: what the loops have done so far.               *)

MergedCommon ==
  [q \in Prop |-> IF q \in secrets.common THEN "secrets"
                  ELSE IF q \in config.common THEN "config"
                  ELSE Missing]

\* The merge took the right zones and the right common settings.
MergeInv ==
  pc \in {"copy", "compile", "clients", "ready"} =>
    /\ secrets.present
    /\ OwnZones # Missing
    /\ zones = OwnZones
    /\ common = MergedCommon

\* The setting q of zone i has had its turn.
Done(i, q) == \/ i < z
              \/ i = z /\ \E k \in 1..(p - 1) : overridable[k] = q
AsWritten(entry, q) == IF q \in entry.own THEN "zone" ELSE Missing

\* Settings that had their turn are effective, the others as written.
CopyInv ==
  pc = "copy" =>
    /\ z \in DOMAIN zones
    /\ \A i \in DOMAIN zones, q \in Prop :
         IF Done(i, q) THEN /\ value[i][q] = Effective(OwnZones[i], q)
                            /\ value[i][q] # Missing
                       ELSE value[i][q] = AsWritten(OwnZones[i], q)

\* The patterns compile.
CompileInv ==
  pc \in {"clients", "ready"} => \A i \in DOMAIN zones : ~zones[i].malformed

\* The zones before z have a client, which refused nothing.
ClientInv ==
  /\ pc \in {"load", "copy", "compile"} => zone_clients = {}
  /\ pc = "clients" =>
       /\ z \in DOMAIN zones
       /\ \A i \in 1..(z - 1) : zones[i].key \in zone_clients /\ ~Refused(i)
  /\ pc = "ready" =>
       \A i \in DOMAIN zones : zones[i].key \in zone_clients /\ ~Refused(i)

\* The loops start at the first zone.
LoadInv == /\ pc = "load" => z = 1 /\ p = 1
           /\ pc = "compile" => z = 1

Inv == /\ TypeOK
       /\ LoadInv
       /\ MergeInv
       /\ CopyInv
       /\ CompileInv
       /\ ClientInv
       /\ EffectiveValues
       /\ FailsExactlyIfUnusable

LEMMA MissingIsDistinct ==
  /\ Missing # "zone" /\ Missing # "secrets" /\ Missing # "config"
  /\ \A zs \in Seq(ZoneEntry) : zs # Missing
BY DnsProviderConfigAssumption

LEMMA InvInit == Init => Inv
BY DnsProviderConfigAssumption
DEF Init, Inv, TypeOK, LoadInv, MergeInv, CopyInv, CompileInv, ClientInv, EffectiveValues,
    FailsExactlyIfUnusable, Origin

\* The zones that an enabled provider gets are a sequence of entries.
LEMMA OwnZonesType ==
  ASSUME TypeOK, OwnZones # Missing
  PROVE  OwnZones \in Seq(ZoneEntry)
BY DnsProviderConfigAssumption DEF TypeOK, OwnZones

LEMMA MergeStep == Inv /\ MergeSecrets => Inv'
<1> SUFFICES ASSUME Inv, MergeSecrets
             PROVE  Inv'
  OBVIOUS
<1> USE DEF Inv
<1>a. OwnZones' = OwnZones
  BY DEF MergeSecrets, files, OwnZones
<1>b. \A e, q : Effective(e, q)' = Effective(e, q)
  BY DEF MergeSecrets, files, Effective
<1>1. CASE ~secrets.present \/ OwnZones = Missing
  <2>1. pc' = "failed" /\ UNCHANGED <<merged, value, z, p, files, zone_clients>>
    BY <1>1 DEF MergeSecrets, OwnZones, files, merged
  <2>2. TypeOK'
    BY <2>1 DEF TypeOK, merged, files
  <2>3. FailsExactlyIfUnusable'
    <3>1. Unusable'
      BY <1>1, <1>a, <2>1 DEF Unusable, files
    <3> QED BY <2>1, <3>1 DEF FailsExactlyIfUnusable
  <2> QED BY <2>1, <2>2, <2>3
          DEF LoadInv, MergeInv, CopyInv, CompileInv, ClientInv, EffectiveValues
<1>2. CASE secrets.present /\ OwnZones # Missing
  <2>1. /\ pc' = IF OwnZones = <<>> THEN "compile" ELSE "copy"
        /\ common' = MergedCommon
        /\ zones' = OwnZones
        /\ value' = [i \in DOMAIN OwnZones |->
                       [q \in Prop |-> AsWritten(OwnZones[i], q)]]
        /\ UNCHANGED <<files, z, p, zone_clients>>
    BY <1>2 DEF MergeSecrets, OwnZones, MergedCommon, AsWritten
  <2>2. OwnZones \in Seq(ZoneEntry)
    BY <1>2, OwnZonesType
  <2>3. MergedCommon \in [Prop -> Origin]
    BY DEF MergedCommon, Origin
  <2>4. value' \in Seq([Prop -> Origin]) /\ Len(value') = Len(zones')
    BY <2>1, <2>2 DEF AsWritten, Origin
  <2>5. z = 1 /\ p = 1
    BY DEF LoadInv, MergeSecrets
  <2>6. TypeOK'
    BY <2>1, <2>2, <2>3, <2>4, <2>5 DEF TypeOK, files
  <2>7. MergeInv'
    BY <1>2, <1>a, <2>1 DEF MergeInv, MergedCommon, files
  <2>8. CopyInv'
    BY <1>a, <2>1, <2>2, <2>5 DEF CopyInv, Done
  <2>9. ClientInv' /\ CompileInv' /\ LoadInv'
    BY <2>1, <2>5 DEF ClientInv, CompileInv, LoadInv, MergeSecrets
  <2>10. EffectiveValues' /\ FailsExactlyIfUnusable'
    BY <2>1 DEF EffectiveValues, FailsExactlyIfUnusable
  <2> QED BY <2>6, <2>7, <2>8, <2>9, <2>10
<1> QED BY <1>1, <1>2

\* Every setting has a position in the list that the loop walks.
LEMMA SettingsAreListed ==
  /\ overridable \in Seq(Prop)
  /\ Len(overridable) \in Nat \ {0}
  /\ \A q \in Prop : \E k \in 1..Len(overridable) : overridable[k] = q
BY DnsProviderConfigAssumption

\* One turn of the inner loop.
LEMMA CopyStep == Inv /\ CopyProperty => Inv'
<1> SUFFICES ASSUME Inv, CopyProperty
             PROVE  Inv'
  OBVIOUS
<1> USE DEF Inv
<1> DEFINE q == overridable[p]
<1>a. /\ UNCHANGED <<config, secrets, refused, common, zones, zone_clients>>
      /\ OwnZones' = OwnZones
  BY DEF CopyProperty, files, merged, OwnZones
<1>b. \A e, r : Effective(e, r)' = Effective(e, r)
  BY <1>a DEF Effective
<1>c. /\ pc = "copy" /\ z \in DOMAIN zones /\ zones = OwnZones
      /\ OwnZones # Missing /\ common = MergedCommon
      /\ p \in 1..Len(overridable) /\ q \in Prop
      /\ zones \in Seq(ZoneEntry) /\ value \in Seq([Prop -> Origin])
      /\ Len(value) = Len(zones)
  BY SettingsAreListed DEF CopyProperty, CopyInv, MergeInv, TypeOK
<1>1. CASE value[z][q] = Missing /\ common[q] = Missing
  <2>1. pc' = "failed" /\ UNCHANGED <<value, z, p>>
    BY <1>1 DEF CopyProperty
  <2>2. TypeOK'
    BY <1>a, <2>1 DEF TypeOK
  <2>3. Effective(OwnZones[z], q) = Missing
    <3>1. ~(q \in OwnZones[z].own)
      BY <1>1, <1>c, MissingIsDistinct DEF CopyInv, AsWritten, Effective
    <3>2. common[q] = Effective(OwnZones[z], q)
      BY <1>c, <3>1 DEF MergedCommon, Effective
    <3> QED BY <1>1, <3>2
  <2>4. FailsExactlyIfUnusable'
    <3>1. Unusable'
      BY <1>a, <1>b, <1>c, <2>3 DEF Unusable
    <3> QED BY <2>1, <3>1 DEF FailsExactlyIfUnusable
  <2> QED BY <2>1, <2>2, <2>4
          DEF LoadInv, MergeInv, CopyInv, CompileInv, ClientInv, EffectiveValues
<1>2. CASE ~(value[z][q] = Missing /\ common[q] = Missing)
  <2> DEFINE new == IF value[z][q] = Missing THEN common[q] ELSE value[z][q]
  <2>1. value' = [value EXCEPT ![z][q] = new]
    BY <1>2 DEF CopyProperty
  <2>2. /\ value[z] \in [Prop -> Origin]
        /\ new \in Origin
    BY <1>c DEF TypeOK
  <2>3. value' \in Seq([Prop -> Origin]) /\ Len(value') = Len(zones)
    BY <1>c, <2>1, <2>2
  <2>4. \A i \in DOMAIN zones, r \in Prop :
          value'[i][r] = IF i = z /\ r = q THEN new ELSE value[i][r]
    BY <1>c, <2>1, <2>2
  <2>5. new = Effective(OwnZones[z], q) /\ new # Missing
    <3>1. CASE Done(z, q)
      BY <1>2, <1>c, <3>1 DEF CopyInv
    <3>2. CASE ~Done(z, q)
      <4>1. value[z][q] = AsWritten(OwnZones[z], q)
        BY <1>c, <3>2 DEF CopyInv
      <4>2. CASE q \in OwnZones[z].own
        BY <4>1, <4>2, MissingIsDistinct DEF AsWritten, Effective
      <4>3. CASE q \notin OwnZones[z].own
        <5>1. new = common[q]
          BY <4>1, <4>3 DEF AsWritten
        <5>2. common[q] = Effective(OwnZones[z], q)
          BY <1>c, <4>3 DEF MergedCommon, Effective
        <5> QED BY <1>2, <4>1, <4>3, <5>1, <5>2 DEF AsWritten
      <4> QED BY <4>2, <4>3
    <3> QED BY <3>1, <3>2
  \* What is done after this turn is effective, the rest is as written.
  <2>6. \A i \in DOMAIN zones, r \in Prop :
          IF Done(i, r) \/ (i = z /\ r = q)
          THEN value'[i][r] = Effective(OwnZones[i], r) /\ value'[i][r] # Missing
          ELSE value'[i][r] = AsWritten(OwnZones[i], r)
    BY <1>c, <2>4, <2>5 DEF CopyInv
  <2>7. CASE p < Len(overridable)
    <3>1. p' = p + 1 /\ UNCHANGED <<z, pc>>
      BY <1>2, <2>7 DEF CopyProperty
    <3>2. \A i \in DOMAIN zones, r \in Prop :
            Done(i, r)' <=> Done(i, r) \/ (i = z /\ r = q)
      <4>1. 1..(p' - 1) = (1..(p - 1)) \cup {p}
        BY <1>c, <3>1
      <4> QED BY <3>1, <4>1 DEF Done
    <3>3. TypeOK'
      BY <1>a, <1>c, <2>3, <2>7, <3>1 DEF TypeOK
    <3>4. CopyInv'
      BY <1>a, <1>b, <1>c, <2>6, <3>1, <3>2 DEF CopyInv, AsWritten
    <3>5. MergeInv'
      BY <1>a, <3>1 DEF MergeInv, MergedCommon
    <3> QED BY <1>a, <1>c, <3>1, <3>3, <3>4, <3>5
            DEF LoadInv, CompileInv, ClientInv, EffectiveValues, FailsExactlyIfUnusable
  \* After the last setting the whole zone is done.
  <2>8. CASE ~(p < Len(overridable))
    <3>1. p = Len(overridable) /\ p' = 1
      BY <1>2, <1>c, <2>8, SettingsAreListed DEF CopyProperty
    <3>2. \A r \in Prop : Done(z, r) \/ r = q
      <4>1. ASSUME NEW r \in Prop
            PROVE  Done(z, r) \/ r = q
        <5>1. PICK k \in 1..Len(overridable) : overridable[k] = r
          BY SettingsAreListed
        <5>2. k \in 1..(p - 1) \/ k = p
          BY <1>c, <3>1
        <5> QED BY <5>1, <5>2 DEF Done
      <4> QED BY <4>1
    <3>3. \A i \in DOMAIN zones, r \in Prop :
            IF i <= z
            THEN value'[i][r] = Effective(OwnZones[i], r) /\ value'[i][r] # Missing
            ELSE value'[i][r] = AsWritten(OwnZones[i], r)
      <4>1. ASSUME NEW i \in DOMAIN zones, NEW r \in Prop
            PROVE  i <= z <=> Done(i, r) \/ (i = z /\ r = q)
        BY <1>c, <3>2, <4>1 DEF Done
      <4> QED BY <2>6, <4>1
    <3>4. CASE z < Len(zones)
      <4>1. z' = z + 1 /\ UNCHANGED pc
        BY <1>2, <2>8, <3>4 DEF CopyProperty
      <4>2. \A i \in DOMAIN zones, r \in Prop : Done(i, r)' <=> i <= z
        BY <1>c, <3>1, <4>1 DEF Done
      <4>3. TypeOK'
        BY <1>a, <1>c, <2>3, <3>1, <3>4, <4>1, SettingsAreListed DEF TypeOK
      <4>4. CopyInv'
        BY <1>a, <1>b, <1>c, <3>3, <3>4, <4>1, <4>2 DEF CopyInv, AsWritten
      <4>5. MergeInv'
        BY <1>a, <4>1 DEF MergeInv, MergedCommon
      <4> QED BY <1>a, <1>c, <4>1, <4>3, <4>4, <4>5
              DEF LoadInv, CompileInv, ClientInv, EffectiveValues, FailsExactlyIfUnusable
    <3>5. CASE ~(z < Len(zones))
      <4>1. z = Len(zones) /\ z' = 1 /\ pc' = "compile"
        BY <1>2, <1>c, <2>8, <3>5 DEF CopyProperty
      <4>2. TypeOK'
        BY <1>a, <1>c, <2>3, <3>1, <4>1, SettingsAreListed DEF TypeOK
      <4>3. EffectiveValues'
        BY <1>a, <1>b, <1>c, <3>3, <4>1 DEF EffectiveValues
      <4>4. ClientInv'
        BY <1>a, <1>c, <4>1 DEF ClientInv
      <4>5. MergeInv'
        BY <1>a, <1>c, <4>1 DEF MergeInv, MergedCommon
      <4> QED BY <4>1, <4>2, <4>3, <4>4, <4>5
              DEF LoadInv, CopyInv, CompileInv, FailsExactlyIfUnusable
    <3> QED BY <3>4, <3>5
  <2> QED BY <2>7, <2>8
<1> QED BY <1>1, <1>2

\* What is refused when every zone has its settings.
LEMMA UnusableWhenCopied ==
  ASSUME Inv, pc \in {"compile", "clients"}
  PROVE  Unusable <=> \E i \in DOMAIN zones : zones[i].malformed \/ Refused(i)
<1>1. /\ secrets.present /\ OwnZones # Missing /\ zones = OwnZones
      /\ \A i \in DOMAIN zones, q \in Prop :
           value[i][q] = Effective(OwnZones[i], q) /\ value[i][q] # Missing
  BY DEF Inv, MergeInv, EffectiveValues
<1> QED BY <1>1 DEF Unusable, Refused

LEMMA CompileStep == Inv /\ CompilePatterns => Inv'
<1> SUFFICES ASSUME Inv, CompilePatterns
             PROVE  Inv'
  OBVIOUS
<1>a. /\ UNCHANGED <<config, secrets, refused, common, zones, value, z, p, zone_clients>>
      /\ OwnZones' = OwnZones
      /\ pc = "compile" /\ z = 1 /\ zones \in Seq(ZoneEntry)
      /\ zone_clients = {}
  BY DEF CompilePatterns, files, merged, OwnZones, Inv, LoadInv, TypeOK, ClientInv
<1>b. \A e, r : Effective(e, r)' = Effective(e, r)
  BY <1>a DEF Effective
<1>c. pc' \in {"failed", "ready", "clients"}
  BY DEF CompilePatterns
<1>1. TypeOK'
  BY <1>a, <1>c DEF Inv, TypeOK
<1>2. MergeInv' /\ LoadInv' /\ CopyInv'
  BY <1>a, <1>c DEF Inv, MergeInv, MergedCommon, LoadInv, CopyInv
<1>3. EffectiveValues'
  BY <1>a, <1>b, <1>c DEF Inv, EffectiveValues
<1>4. CompileInv' /\ ClientInv'
  BY <1>a DEF CompilePatterns, CompileInv, ClientInv
<1>5. FailsExactlyIfUnusable'
  <2>1. Unusable' <=> Unusable
    BY <1>a, <1>b DEF Unusable
  <2>2. CASE \E i \in DOMAIN zones : zones[i].malformed
    BY <1>a, <2>1, <2>2, UnusableWhenCopied
    DEF CompilePatterns, FailsExactlyIfUnusable
  <2>3. CASE ~\E i \in DOMAIN zones : zones[i].malformed
    <3>1. pc' = IF zones = <<>> THEN "ready" ELSE "clients"
      BY <2>3 DEF CompilePatterns
    <3>2. zones = <<>> => ~Unusable
      BY <1>a, <2>3, UnusableWhenCopied
    <3> QED BY <2>1, <3>1, <3>2 DEF FailsExactlyIfUnusable
  <2> QED BY <2>2, <2>3
<1> QED BY <1>1, <1>2, <1>3, <1>4, <1>5 DEF Inv

LEMMA ClientStep == Inv /\ BuildClient => Inv'
<1> SUFFICES ASSUME Inv, BuildClient
             PROVE  Inv'
  OBVIOUS
<1>a. /\ UNCHANGED <<config, secrets, refused, common, zones, value, p>>
      /\ OwnZones' = OwnZones
  BY DEF BuildClient, files, merged, OwnZones
<1>b. \A e, r : Effective(e, r)' = Effective(e, r)
  BY <1>a DEF Effective
<1>c. /\ pc = "clients" /\ z \in DOMAIN zones /\ zones \in Seq(ZoneEntry)
      /\ zones[z].key \in Zone
      /\ pc' \in {"clients", "ready", "failed"}
  <2>1. pc = "clients" /\ z \in DOMAIN zones /\ zones \in Seq(ZoneEntry)
    BY DEF BuildClient, Inv, ClientInv, TypeOK
  <2>2. zones[z] \in ZoneEntry
    BY <2>1
  <2>3. zones[z].key \in Zone
    BY <2>2 DEF ZoneEntry
  <2> QED BY <2>1, <2>3 DEF BuildClient
<1>1. EffectiveValues' /\ MergeInv' /\ CopyInv' /\ LoadInv'
  BY <1>a, <1>b, <1>c
  DEF Inv, EffectiveValues, MergeInv, MergedCommon, CopyInv, LoadInv
<1>2. CompileInv'
  BY <1>a, <1>c DEF Inv, CompileInv
<1>d. \A i : Refused(i)' <=> Refused(i)
  BY <1>a DEF Refused
<1>e. Unusable' <=> Unusable
  BY <1>a, <1>b DEF Unusable
<1>3. CASE Refused(z)
  <2>1. pc' = "failed" /\ UNCHANGED <<z, zone_clients>>
    BY <1>3 DEF BuildClient
  <2>2. TypeOK' /\ ClientInv'
    BY <1>a, <2>1 DEF Inv, TypeOK, ClientInv
  <2>3. FailsExactlyIfUnusable'
    BY <1>3, <1>c, <1>e, <2>1, UnusableWhenCopied DEF FailsExactlyIfUnusable
  <2> QED BY <1>1, <1>2, <2>2, <2>3 DEF Inv
<1>4. CASE ~Refused(z) /\ z < Len(zones)
  <2>1. /\ z' = z + 1 /\ UNCHANGED pc
        /\ zone_clients' = zone_clients \cup {zones[z].key}
    BY <1>4 DEF BuildClient
  <2>2. TypeOK'
    BY <1>a, <1>c, <1>4, <2>1 DEF Inv, TypeOK
  <2>3. ClientInv'
    BY <1>a, <1>c, <1>d, <1>4, <2>1 DEF Inv, ClientInv
  <2>4. FailsExactlyIfUnusable'
    BY <1>c, <2>1 DEF FailsExactlyIfUnusable
  <2> QED BY <1>1, <1>2, <2>2, <2>3, <2>4 DEF Inv
<1>5. CASE ~Refused(z) /\ ~(z < Len(zones))
  <2>1. /\ z = Len(zones) /\ UNCHANGED z /\ pc' = "ready"
        /\ zone_clients' = zone_clients \cup {zones[z].key}
    BY <1>c, <1>5 DEF BuildClient
  <2>2. TypeOK'
    BY <1>a, <1>c, <2>1 DEF Inv, TypeOK
  <2>3. \A i \in DOMAIN zones : i \in 1..(z - 1) \/ i = z
    BY <1>c, <2>1
  <2>4. ClientInv'
    BY <1>a, <1>c, <1>d, <1>5, <2>1, <2>3 DEF Inv, ClientInv
  <2>5. FailsExactlyIfUnusable'
    <3>1. \A i \in DOMAIN zones : ~zones[i].malformed /\ ~Refused(i)
      BY <1>c, <1>5, <2>3 DEF Inv, ClientInv, CompileInv
    <3> QED BY <1>c, <1>e, <2>1, <3>1, UnusableWhenCopied
            DEF FailsExactlyIfUnusable
  <2> QED BY <1>1, <1>2, <2>2, <2>4, <2>5 DEF Inv
<1> QED BY <1>3, <1>4, <1>5

LEMMA InvStep == Inv /\ [Next]_vars => Inv'
<1>1. Inv /\ NotEnabled => Inv'
  BY DEF Inv, NotEnabled, files, merged, TypeOK, LoadInv, MergeInv, CopyInv,
         CompileInv, ClientInv, EffectiveValues, FailsExactlyIfUnusable
<1>2. Inv /\ UNCHANGED vars => Inv'
  <2> SUFFICES ASSUME Inv, UNCHANGED vars
               PROVE  Inv'
    OBVIOUS
  <2>1. TypeOK' /\ LoadInv' /\ CompileInv'
    BY DEF Inv, vars, TypeOK, LoadInv, CompileInv
  <2>2. MergeInv'
    BY DEF Inv, vars, MergeInv, MergedCommon, OwnZones
  <2>3. CopyInv'
    BY DEF Inv, vars, CopyInv, Done, AsWritten, Effective, OwnZones
  <2>4. ClientInv'
    BY DEF Inv, vars, ClientInv, Refused
  <2>5. EffectiveValues'
    BY DEF Inv, vars, EffectiveValues, Effective, OwnZones
  <2>6. FailsExactlyIfUnusable'
    BY DEF Inv, vars, FailsExactlyIfUnusable, Unusable, Effective, OwnZones
  <2> QED BY <2>1, <2>2, <2>3, <2>4, <2>5, <2>6 DEF Inv
<1> QED BY <1>1, <1>2, MergeStep, CopyStep, CompileStep, ClientStep DEF Next

LEMMA Invariant == Spec => []Inv
BY InvInit, InvStep, PTL DEF Spec

-----------------------------------------------------------------------------
(* The theorems.                                                           *)

\* init_config and post_config_init keep every variable in its type.
THEOREM TypeCorrect == Spec => []TypeOK
<1>1. Inv => TypeOK
  BY DEF Inv
<1> QED BY <1>1, Invariant, PTL

\* Every zone gets every setting from the most specific place that has it.
THEOREM ValuesAreEffective == Spec => []EffectiveValues
<1>1. Inv => EffectiveValues
  BY DEF Inv
<1> QED BY <1>1, Invariant, PTL

\* The constructor raises exactly if the files are unusable: if something is
\* missing, malformed or refused that nothing more specific overrides.
THEOREM FailuresHaveReasons == Spec => []FailsExactlyIfUnusable
<1>1. Inv => FailsExactlyIfUnusable
  BY DEF Inv
<1> QED BY <1>1, Invariant, PTL

\* If keys are zone names, the first zone that matches a name has a client.
THEOREM FoundZonesHaveClients == Spec => []ZonesHaveClients
<1>1. Inv => ZonesHaveClients
  <2> SUFFICES ASSUME Inv, pc = "ready",
                      \A i \in DOMAIN zones : zones[i].zone_name = zones[i].key,
                      NEW h \in Host, Matching(zones, h) # {}
               PROVE  zones[find_config(zones, h)].zone_name \in zone_clients
    BY DEF ZonesHaveClients, Manages
  <2>1. find_config(zones, h) \in DOMAIN zones
    <3>1. Matching(zones, h) \subseteq Nat
      BY DEF Matching, Inv, TypeOK
    <3>2. PICK i \in Matching(zones, h) :
            \A j \in Matching(zones, h) : <<j, i>> \notin OpToRel(<, Nat)
      BY <3>1, WFMin, NatLessThanWellFounded, Zenon
    <3>3. ASSUME NEW j \in Matching(zones, h)
          PROVE  i <= j
      <4>1. ~(j < i)
        BY <3>1, <3>2, Zenon DEF OpToRel
      <4> QED BY <3>1, <4>1
    <3> QED BY <3>3 DEF find_config, Matching
  <2> QED BY <2>1 DEF Inv, ClientInv
<1> QED BY <1>1, Invariant, PTL

\* dns-provider-secrets.yaml:12, "MERGED with the contents of
\* dns-provider-config.yaml", is true of a provider whose secrets have no zones
\* and whose zones are keyed by their names.
THEOREM SecretsWithoutZonesAreMerged ==
  Spec => [](/\ secrets.zones = Missing
             /\ \A i \in DOMAIN zones : zones[i].zone_name = zones[i].key
             => SecretsAreMerged)
<1>1. Inv /\ ZonesHaveClients
      => (/\ secrets.zones = Missing
          /\ \A i \in DOMAIN zones : zones[i].zone_name = zones[i].key
          => SecretsAreMerged)
  BY DEF Inv, MergeInv, ZonesHaveClients, SecretsAreMerged, OwnZones
<1> QED BY <1>1, Invariant, FoundZonesHaveClients, PTL

-----------------------------------------------------------------------------
(* The name of a host's record.  replace is a recursive function: the one  *)
(* that satisfies its equation, f = Scan(name, zone, f).  Two functions    *)
(* that satisfy it are equal, for they would differ last at some position, *)
(* where each is determined by what follows; so a function that is guessed *)
(* and satisfies it is the one.                                            *)

\* The library's \o, closed, for the steps that need no more of it.
Before(x, s) == <<x>> \o s

LEMMA BeforeEmpty == ASSUME NEW x PROVE Before(x, <<>>) = <<x>>
BY DEF Before

LEMMA BeforeLast ==
  ASSUME NEW S, NEW x \in S, NEW y \in S, NEW s \in Seq(S)
  PROVE  Before(x, s \o <<y>>) = Before(x, s) \o <<y>>
<1> DEFINE a == <<x>>
           b == <<y>>
<1>1. a \in Seq(S) /\ b \in Seq(S)
  OBVIOUS
<1>2. a \o (s \o b) = (a \o s) \o b
  <2> HIDE DEF a, b
  <2> QED BY <1>1, ConcatAssociative
<1> QED BY <1>2, Zenon DEF Before

\* The body of replace's function, and the equation it states.
Entry(name, zone, f, i) ==
  CASE i > Len(name)           -> <<>>
    [] OccursAt(name, zone, i) -> Before(Blank, f[i + Len(zone)])
    [] OTHER                   -> Before(name[i], f[i + 1])
Scan(name, zone, f) ==
  [i \in 1..(Len(name) + Len(zone)) |-> Entry(name, zone, f, i)]

\* The three cases of an entry exclude each other.
LEMMA ScanAt ==
  ASSUME NEW name, NEW zone, Len(name) \in Nat, Len(zone) \in Nat, Len(zone) > 0,
         NEW f, NEW i \in 1..(Len(name) + Len(zone))
  PROVE  /\ i > Len(name) => Scan(name, zone, f)[i] = <<>>
         /\ ~(i > Len(name)) /\ OccursAt(name, zone, i) =>
              Scan(name, zone, f)[i] = Before(Blank, f[i + Len(zone)])
         /\ ~(i > Len(name)) /\ ~OccursAt(name, zone, i) =>
              Scan(name, zone, f)[i] = Before(name[i], f[i + 1])
<1>1. Scan(name, zone, f)[i] = Entry(name, zone, f, i)
  BY DEF Scan
<1>2. i > Len(name) => ~OccursAt(name, zone, i)
  BY DEF OccursAt
<1>3. CASE i > Len(name)
  BY <1>1, <1>2, <1>3 DEF Entry
<1>4. CASE ~(i > Len(name)) /\ OccursAt(name, zone, i)
  BY <1>1, <1>4 DEF Entry
<1>5. CASE ~(i > Len(name)) /\ ~OccursAt(name, zone, i)
  BY <1>1, <1>5 DEF Entry
<1> QED BY <1>3, <1>4, <1>5

\* The equation has one solution.
LEMMA ScanUnique ==
  ASSUME NEW S, NEW name \in Seq(S), NEW zone \in Seq(S), zone # <<>>,
         NEW f, NEW g, f = Scan(name, zone, f), g = Scan(name, zone, g)
  PROVE  f = g
<1> DEFINE N == Len(name) + Len(zone)
           D == {i \in 1..N : f[i] # g[i]}
           T == {k \in Nat : N - k \in D}
<1>0. Len(name) \in Nat /\ Len(zone) \in Nat /\ Len(zone) > 0 /\ N \in Nat
  OBVIOUS
<1>1. SUFFICES ASSUME D # {} PROVE FALSE
  BY DEF Scan
<1>2. T \subseteq Nat /\ T # {}
  <2>1. PICK i \in D : TRUE
    BY <1>1
  <2>2. N - i \in T
    BY <2>1, <1>0
  <2> QED BY <2>2
<1>3. PICK k \in T : \A l \in T : <<l, k>> \notin OpToRel(<, Nat)
  <2> HIDE DEF T
  <2> QED BY <1>2, WFMin, NatLessThanWellFounded, Zenon
<1>4. \A l \in T : ~(l < k)
  BY <1>2, <1>3, Zenon DEF OpToRel
<1> DEFINE m == N - k
<1>5. /\ m \in 1..N
      /\ f[m] # g[m]
      /\ \A j \in 1..N : j > m => f[j] = g[j]
  <2>1. m \in D /\ k \in Nat
    BY <1>3
  <2>2. ASSUME NEW j \in 1..N, j > m, f[j] # g[j] PROVE FALSE
    <3>1. N - j \in T /\ N - j < k
      BY <2>1, <2>2, <1>0
    <3> QED BY <3>1, <1>4
  <2> QED BY <2>1, <2>2
<1> HIDE DEF T, D, m
<1>6. /\ f[m] = Scan(name, zone, f)[m]
      /\ g[m] = Scan(name, zone, g)[m]
  OBVIOUS
<1>7. CASE m > Len(name)
  BY <1>5, <1>6, <1>7, <1>0, ScanAt
<1>8. CASE m <= Len(name)
  <2>1. f[m + Len(zone)] = g[m + Len(zone)] /\ f[m + 1] = g[m + 1]
    BY <1>0, <1>5, <1>8
  <2>2. Scan(name, zone, f)[m] = Scan(name, zone, g)[m]
    <3>1. ~(m > Len(name))
      BY <1>0, <1>5, <1>8
    <3>2. Scan(name, zone, f)[m] =
            IF OccursAt(name, zone, m) THEN Before(Blank, f[m + Len(zone)])
            ELSE Before(name[m], f[m + 1])
      BY <1>0, <1>5, <3>1, ScanAt
    <3>3. Scan(name, zone, g)[m] =
            IF OccursAt(name, zone, m) THEN Before(Blank, g[m + Len(zone)])
            ELSE Before(name[m], g[m + 1])
      BY <1>0, <1>5, <3>1, ScanAt
    <3> QED BY <2>1, <3>2, <3>3, Zenon
  <2> QED BY <2>2, <1>5, <1>6, Zenon
<1>9. m > Len(name) \/ m <= Len(name)
  BY <1>0, <1>5
<1> QED BY <1>7, <1>8, <1>9, Zenon

\* Whatever satisfies the equation gives the value of replace.
LEMMA ReplaceIsScan ==
  ASSUME NEW S, NEW name \in Seq(S), NEW zone \in Seq(S), zone # <<>>,
         NEW g, g = Scan(name, zone, g)
  PROVE  replace(name, zone) = g[1]
<1>1. replace(name, zone) = (CHOOSE f : f = Scan(name, zone, f))[1]
  BY DEF replace, Scan, Entry, Before
<1>2. (CHOOSE f : f = Scan(name, zone, f)) = Scan(name, zone, CHOOSE f : f = Scan(name, zone, f))
  OBVIOUS
<1>3. (CHOOSE f : f = Scan(name, zone, f)) = g
  BY <1>2, ScanUnique
<1> QED BY <1>1, <1>3

\* Where the scan is at position i, if the zone is found at m only.
EndsAt(name, zone, m) ==
  [i \in 1..(Len(name) + Len(zone)) |->
     IF i > Len(name) THEN <<>>
     ELSE IF i <= m THEN SubSeq(name, i, m - 1) \o <<Blank>>
     ELSE SubSeq(name, i, Len(name))]

\* The guess satisfies the equation.
LEMMA EndsAtIsScan ==
  ASSUME NEW S, Blank \in S, NEW name \in Seq(S), NEW zone \in Seq(S), zone # <<>>,
         NEW m \in 1..Len(name), m = Len(name) - Len(zone) + 1,
         {i \in DOMAIN name : OccursAt(name, zone, i)} = {m}
  PROVE  EndsAt(name, zone, m) = Scan(name, zone, EndsAt(name, zone, m))
<1> DEFINE g == EndsAt(name, zone, m)
           N == Len(name) + Len(zone)
<1>0. Len(name) \in Nat /\ Len(zone) \in Nat /\ Len(zone) > 0 /\ N \in Nat
  OBVIOUS
<1>1. /\ \A i \in 1..N : i > Len(name) => g[i] = <<>>
      /\ \A i \in 1..N : ~(i > Len(name)) /\ i <= m =>
           g[i] = SubSeq(name, i, m - 1) \o <<Blank>>
      /\ \A i \in 1..N : ~(i > Len(name)) /\ ~(i <= m) =>
           g[i] = SubSeq(name, i, Len(name))
  BY DEF EndsAt
<1>2. \A i \in 1..Len(name) : OccursAt(name, zone, i) <=> i = m
  OBVIOUS
<1> HIDE DEF g
<1>3. ASSUME NEW i \in 1..N PROVE g[i] = Scan(name, zone, g)[i]
  <2>1. CASE i > Len(name)
    BY <1>0, <1>1, <2>1, ScanAt
  <2>2. CASE i = m
    <3>1. /\ m \in 1..N /\ ~(m > Len(name)) /\ m <= m
          /\ m + Len(zone) \in 1..N /\ m + Len(zone) > Len(name)
      BY <1>0
    <3>2. g[m] = SubSeq(name, m, m - 1) \o <<Blank>>
      BY <1>1, <3>1, Zenon
    <3>3. SubSeq(name, m, m - 1) = <<>>
      BY <1>0, SubSeqEmpty
    <3>4. <<Blank>> \in Seq(S)
      OBVIOUS
    <3>5. g[m] = <<Blank>>
      BY <3>2, <3>3, <3>4, ConcatEmptySeq
    <3>6. g[m + Len(zone)] = <<>>
      BY <1>1, <3>1, Zenon
    <3>7. Scan(name, zone, g)[m] = Before(Blank, g[m + Len(zone)])
      <4>1. OccursAt(name, zone, m)
        BY <1>2
      <4> QED BY <1>0, <3>1, <4>1, ScanAt
    <3>8. Scan(name, zone, g)[m] = <<Blank>>
      BY <3>6, <3>7, BeforeEmpty, Zenon
    <3> QED BY <2>2, <3>5, <3>8
  <2>3. CASE i < m
    <3>1. /\ i \in 1..Len(name) /\ m - 1 \in i..Len(name)
          /\ ~(i > Len(name)) /\ i <= m
          /\ i + 1 \in 1..N /\ ~(i + 1 > Len(name)) /\ i + 1 <= m
      BY <1>0, <2>3
    <3>2. Scan(name, zone, g)[i] = Before(name[i], g[i + 1])
      <4>1. ~OccursAt(name, zone, i)
        BY <1>2, <2>3, <3>1
      <4> QED BY <1>0, <3>1, <4>1, ScanAt
    <3>3. g[i + 1] = SubSeq(name, i + 1, m - 1) \o <<Blank>>
      BY <1>1, <3>1, Zenon
    <3>4. g[i] = SubSeq(name, i, m - 1) \o <<Blank>>
      BY <1>1, <3>1, Zenon
    <3>5. SubSeq(name, i, m - 1) = Before(name[i], SubSeq(name, i + 1, m - 1))
      BY <3>1, SubSeqRecursiveFirst, Zenon DEF Before
    <3>6. name[i] \in S
      BY <3>1, ElementOfSeq
    <3>8. SubSeq(name, i + 1, m - 1) \in Seq(S)
      <4>1. \A j \in (i + 1)..(m - 1) : name[j] \in S
        BY <1>0, <2>3, ElementOfSeq
      <4> QED BY <1>0, <4>1, SubSeqProperties
    <3>9. Before(name[i], SubSeq(name, i + 1, m - 1) \o <<Blank>>)
            = Before(name[i], SubSeq(name, i + 1, m - 1)) \o <<Blank>>
      BY <3>6, <3>8, BeforeLast
    <3> QED BY <3>2, <3>3, <3>4, <3>5, <3>9, Zenon
  <2>4. CASE i > m /\ i <= Len(name)
    <3>1. /\ i \in 1..Len(name) /\ Len(name) \in i..Len(name)
          /\ ~(i > Len(name)) /\ ~(i <= m)
          /\ i + 1 \in 1..N
      BY <1>0, <2>4
    <3>2. Scan(name, zone, g)[i] = Before(name[i], g[i + 1])
      <4>1. ~OccursAt(name, zone, i)
        BY <1>2, <2>4, <3>1
      <4> QED BY <1>0, <3>1, <4>1, ScanAt
    <3>3. g[i] = SubSeq(name, i, Len(name))
      BY <1>1, <3>1, Zenon
    <3>4. SubSeq(name, i, Len(name))
            = Before(name[i], SubSeq(name, i + 1, Len(name)))
      BY <3>1, SubSeqRecursiveFirst, Zenon DEF Before
    <3>5. g[i + 1] = SubSeq(name, i + 1, Len(name))
      <4>1. CASE i = Len(name)
        <5>1. g[i + 1] = <<>>
          BY <1>0, <1>1, <4>1
        <5>2. SubSeq(name, i + 1, Len(name)) = <<>>
          BY <1>0, <4>1, SubSeqEmpty
        <5> QED BY <5>1, <5>2
      <4>2. CASE i < Len(name)
        <5>1. ~(i + 1 > Len(name)) /\ ~(i + 1 <= m)
          BY <1>0, <2>4, <4>2
        <5> QED BY <1>1, <3>1, <5>1, Zenon
      <4> QED BY <1>0, <2>4, <4>1, <4>2
    <3> QED BY <3>2, <3>3, <3>4, <3>5, Zenon
  <2> QED BY <1>0, <2>1, <2>2, <2>3, <2>4
<1>4. /\ g = [i \in 1..N |-> g[i]]
      /\ Scan(name, zone, g) = [i \in 1..N |-> Scan(name, zone, g)[i]]
  BY DEF g, EndsAt, Scan
<1> QED BY <1>3, <1>4 DEF g

\* A zone at the end of the name leaves one Blank in its place.
LEMMA ReplaceAtEnd ==
  ASSUME NEW S, Blank \in S, NEW name \in Seq(S), NEW zone \in Seq(S), zone # <<>>,
         NEW m \in 1..Len(name), m = Len(name) - Len(zone) + 1,
         {i \in DOMAIN name : OccursAt(name, zone, i)} = {m}
  PROVE  replace(name, zone) = SubSeq(name, 1, m - 1) \o <<Blank>>
<1>1. replace(name, zone) = EndsAt(name, zone, m)[1]
  BY EndsAtIsScan, ReplaceIsScan
<1>2. 1 \in 1..(Len(name) + Len(zone)) /\ ~(1 > Len(name)) /\ 1 <= m
  OBVIOUS
<1> QED BY <1>1, <1>2 DEF EndsAt

\* strip keeps an interval of labels, if it is one.
LEMMA StripTo ==
  ASSUME NEW r, NEW a \in Int, NEW b \in Int,
         {i \in DOMAIN r : r[i] # Blank} = a..b
  PROVE  strip(r) = SubSeq(r, a, b)
<1> DEFINE kept == {i \in DOMAIN r : r[i] # Blank}
<1>1. CASE b < a
  <2>1. kept = {}
    BY <1>1
  <2>2. strip(r) = <<>>
    BY <2>1 DEF strip
  <2> QED BY <1>1, <2>2, SubSeqEmpty
<1>2. CASE a <= b
  <2>1. kept # {} /\ kept = a..b
    BY <1>2
  <2>2. Min(a..b) = a
    <3>1. a \in a..b /\ \A y \in a..b : a <= y
      BY <1>2
    <3>2. \A x \in a..b : (\A y \in a..b : x <= y) => x = a
      BY <3>1
    <3> QED BY <3>1, <3>2 DEF Min
  <2>3. Max(a..b) = b
    <3>1. b \in a..b /\ \A y \in a..b : b >= y
      BY <1>2
    <3>2. \A x \in a..b : (\A y \in a..b : x >= y) => x = b
      BY <3>1
    <3> QED BY <3>1, <3>2 DEF Max
  <2>4. strip(r) = SubSeq(r, Min(kept), Max(kept))
    BY <2>1, Zenon DEF strip
  <2> QED BY <2>1, <2>2, <2>3, <2>4, Zenon
<1> QED BY <1>1, <1>2

\* Sequences that agree between two positions have the same part there.
LEMMA SameBetween ==
  ASSUME NEW S, NEW s, NEW t, NEW a \in Int, NEW b \in Int,
         \A i \in a..b : s[i] = t[i],
         \A i \in a..b : t[i] \in S
  PROVE  SubSeq(s, a, b) = SubSeq(t, a, b)
<1>0. \A i \in a..b : s[i] \in S
  OBVIOUS
<1>1. /\ SubSeq(s, a, b) \in Seq(S)
      /\ Len(SubSeq(s, a, b)) = IF a <= b THEN b - a + 1 ELSE 0
      /\ \A i \in 1..b - a + 1 : SubSeq(s, a, b)[i] = s[a + i - 1]
  BY <1>0, SubSeqProperties
<1>2. /\ SubSeq(t, a, b) \in Seq(S)
      /\ Len(SubSeq(t, a, b)) = IF a <= b THEN b - a + 1 ELSE 0
      /\ \A i \in 1..b - a + 1 : SubSeq(t, a, b)[i] = t[a + i - 1]
  BY SubSeqProperties
<1>3. \A i \in 1..Len(SubSeq(s, a, b)) : SubSeq(s, a, b)[i] = SubSeq(t, a, b)[i]
  BY <1>1, <1>2
<1>4. Len(SubSeq(s, a, b)) = Len(SubSeq(t, a, b))
  BY <1>1, <1>2
<1> QED BY <1>1, <1>2, <1>3, <1>4, SeqEqual

\* The hostname left of a name when the zone ends it at m.
LEMMA HostnameLeft ==
  ASSUME NEW S, Blank \in S, NEW name \in Seq(S), NEW m \in 1..Len(name),
         \A i \in DOMAIN name : name[i] # Blank /\ (name[i] = Star => i = 1),
         NEW rest, rest = SubSeq(name, 1, m - 1) \o <<Blank>>,
         NEW a, a = IF m > 1 /\ name[1] = Star THEN 2 ELSE 1
  PROVE  strip([i \in DOMAIN rest |-> IF rest[i] = Star THEN Blank ELSE rest[i]])
           = SubSeq(name, a, m - 1)
<1> DEFINE front == SubSeq(name, 1, m - 1)
           r == [i \in DOMAIN rest |-> IF rest[i] = Star THEN Blank ELSE rest[i]]
<1>0. Len(name) \in Nat /\ m \in Nat /\ a \in {1, 2} /\ a - 1 <= m - 1
  OBVIOUS
<1>1. /\ front \in Seq(S)
      /\ Len(front) = m - 1
      /\ \A i \in 1..(m - 1) : front[i] = name[i]
  <2>1. \A i \in 1..(m - 1) : name[i] \in S
    BY <1>0, ElementOfSeq
  <2>2. /\ front \in Seq(S)
        /\ Len(front) = IF 1 <= m - 1 THEN m - 1 - 1 + 1 ELSE 0
        /\ \A i \in 1 .. m - 1 - 1 + 1 : front[i] = name[1 + i - 1]
    BY <1>0, <2>1, SubSeqProperties
  <2> QED BY <1>0, <2>2
<1> HIDE DEF front
<1>2. /\ rest \in Seq(S)
      /\ Len(rest) = m
      /\ \A i \in 1..(m - 1) : rest[i] = name[i]
      /\ rest[m] = Blank
  <2>1. rest = Append(front, Blank)
    BY <1>1, AppendIsConcat DEF front
  <2> QED BY <1>0, <1>1, <2>1, AppendProperties
<1>3. Blank # Star
  BY DEF Blank, Star
<1>4. DOMAIN r = 1..m
  BY <1>2
<1>5. ASSUME NEW i \in 1..(m - 1), i >= a
      PROVE  r[i] = name[i] /\ r[i] # Blank
  <2>1. i \in DOMAIN name /\ name[i] # Star
    BY <1>0, <1>5
  <2> QED BY <1>0, <1>2, <2>1
<1>6. ASSUME NEW i \in 1..m, i < a \/ i = m
      PROVE  r[i] = Blank
  <2>1. CASE i = m
    BY <1>2, <1>3, <2>1
  <2>2. CASE i # m
    <3>1. i = 1 /\ name[1] = Star
      BY <1>0, <1>6, <2>2
    <3> QED BY <1>0, <1>2, <2>2, <3>1
  <2> QED BY <2>1, <2>2
<1> HIDE DEF r
<1>7. {i \in DOMAIN r : r[i] # Blank} = a..(m - 1)
  <2>1. ASSUME NEW i \in DOMAIN r, r[i] # Blank PROVE i \in a..(m - 1)
    BY <1>0, <1>4, <1>6, <2>1
  <2>2. ASSUME NEW i \in a..(m - 1) PROVE i \in DOMAIN r /\ r[i] # Blank
    BY <1>0, <1>4, <1>5
  <2> QED BY <2>1, <2>2
<1>8. strip(r) = SubSeq(r, a, m - 1)
  <2>1. a \in Int /\ m - 1 \in Int
    BY <1>0
  <2> QED BY <1>7, <2>1, StripTo, Zenon
<1>9. SubSeq(r, a, m - 1) = SubSeq(name, a, m - 1)
  <2>1. a \in Int /\ m - 1 \in Int
    BY <1>0
  <2>2. \A i \in a..(m - 1) : name[i] \in S
    BY <1>0, ElementOfSeq
  <2>3. \A i \in a..(m - 1) : r[i] = name[i]
    <3>1. \A i \in a..(m - 1) : i \in 1..(m - 1) /\ i >= a
      BY <1>0
    <3> QED BY <1>5, <3>1, Zenon
  <2> QED BY <2>1, <2>2, <2>3, SameBetween
<1> QED BY <1>8, <1>9 DEF r

\* The zone ends the name, and occurs in it nowhere else.
EndsOnce(name, zone) ==
  {i \in DOMAIN name : OccursAt(name, zone, i)} = {Len(name) - Len(zone) + 1}

\* The name of the record, for any name and zone with proper labels.
LEMMA RecordNamed ==
  ASSUME NEW S, Blank \in S, Challenge \in S,
         NEW name \in Seq(S), NEW zone \in Seq(S), zone # <<>>,
         \A i \in DOMAIN name : name[i] # Blank /\ (name[i] = Star => i = 1),
         \A i \in DOMAIN zone : zone[i] # Star,
         EndsOnce(name, zone)
  PROVE  get_relative_recordset_name(name, zone) \o zone
           = <<Challenge>> \o Plain(name)
<1> DEFINE m == Len(name) - Len(zone) + 1
           a == IF m > 1 /\ name[1] = Star THEN 2 ELSE 1
           rest == replace(name, zone)
           first == <<Challenge>>
           front == SubSeq(name, a, m - 1)
<1>0. Len(name) \in Nat /\ Len(zone) \in Nat /\ Len(zone) > 0
  OBVIOUS
<1>1. /\ m \in 1..Len(name)
      /\ OccursAt(name, zone, m)
      /\ {i \in DOMAIN name : OccursAt(name, zone, i)} = {m}
  BY DEF EndsOnce
<1>2. SubSeq(name, m, Len(name)) = zone
  <2>1. m + Len(zone) - 1 = Len(name)
    BY <1>0
  <2> HIDE DEF m
  <2> QED BY <1>1, <2>1, Zenon DEF OccursAt
<1>3. rest = SubSeq(name, 1, m - 1) \o <<Blank>>
  BY <1>1, ReplaceAtEnd
<1>4. strip([i \in DOMAIN rest |-> IF rest[i] = Star THEN Blank ELSE rest[i]])
        = front
  <2>1. m \in 1..Len(name)
    BY <1>1
  <2>2. a = IF m > 1 /\ name[1] = Star THEN 2 ELSE 1
    OBVIOUS
  <2> HIDE DEF a, m, rest
  <2>3. strip([i \in DOMAIN rest |-> IF rest[i] = Star THEN Blank ELSE rest[i]])
          = SubSeq(name, a, m - 1)
    BY <1>3, <2>1, <2>2, HostnameLeft, Zenon
  <2> QED BY <2>3
<1>5. get_relative_recordset_name(name, zone) = first \o front
  BY <1>4, Zenon DEF get_relative_recordset_name
<1>6. a \in 1..Len(name) + 1 /\ m - 1 \in a - 1..Len(name)
  <2>1. a = 1 \/ (a = 2 /\ m > 1)
    OBVIOUS
  <2>2. m \in 1..Len(name)
    BY <1>1
  <2> HIDE DEF a, m
  <2> QED BY <1>0, <2>1, <2>2
<1>7. front \in Seq(S) /\ first \in Seq(S)
  <2> HIDE DEF a, m
  <2>1. \A i \in a..(m - 1) : name[i] \in S
    BY <1>0, <1>1, <1>6, ElementOfSeq
  <2>2. a \in Int /\ m - 1 \in Int
    BY <1>0, <1>1, <1>6
  <2> QED BY <2>1, <2>2, SubSeqProperties
<1>8. front \o zone = SubSeq(name, a, Len(name))
  <2>1. Len(name) \in m - 1..Len(name) /\ m - 1 + 1 = m
    BY <1>0, <1>1
  <2> HIDE DEF a, m
  <2>2. front \o SubSeq(name, m - 1 + 1, Len(name)) = SubSeq(name, a, Len(name))
    BY <1>6, <2>1, ConcatAdjacentSubSeq
  <2> QED BY <1>2, <2>1, <2>2, Zenon
<1>9. Plain(name) = SubSeq(name, a, Len(name))
  <2>1. CASE name[1] = Star
    <3>1. m > 1
      <4>1. SUFFICES ASSUME m = 1 PROVE FALSE
        BY <1>0, <1>1
      <4>2. zone = name
        BY <1>2, <4>1, SubSeqFull
      <4>3. 1 \in DOMAIN zone
        BY <1>0
      <4> QED BY <2>1, <4>2, <4>3
    <3>2. a = 2 /\ name # <<>>
      BY <1>1, <2>1, <3>1
    <3> QED BY <2>1, <3>2, TailIsSubSeq DEF Plain
  <2>2. CASE name[1] # Star
    <3>1. a = 1
      BY <2>2
    <3> QED BY <2>2, <3>1, SubSeqFull DEF Plain
  <2> QED BY <2>1, <2>2
<1> HIDE DEF a, m, first, front
<1>10. (first \o front) \o zone = first \o (front \o zone)
  BY <1>7, ConcatAssociative
<1> QED BY <1>5, <1>8, <1>9, <1>10, Zenon DEF first

ZoneOf(h) == zone_labels[zones[find_config(zones, h)].zone_name]

\* In every configuration: the record of a managed host is the name that an
\* ACME server looks up.
THEOREM NamesTheHost == Spec => []RecordNamesHost
<1>1. ASSUME TypeOK PROVE RecordNamesHost
  <2> DEFINE S == STRING \cup {Blank, Challenge}
  <2>1. Seq(STRING) \subseteq Seq(S)
    BY SeqMonotonic
  <2> SUFFICES ASSUME NEW h \in Host, Manages(h), EndsOnce(labels[h], ZoneOf(h))
               PROVE  get_relative_recordset_name(labels[h], ZoneOf(h)) \o ZoneOf(h)
                        = <<Challenge>> \o Plain(labels[h])
    BY Zenon DEF RecordNamesHost, ZoneOf, EndsOnce
  <2> DEFINE name == labels[h]
             zone_name == zones[find_config(zones, h)].zone_name
             zone == ZoneOf(h)
  <2>2. zone_name \in Zone
    BY <1>1, Zenon DEF Manages, TypeOK
  <2> HIDE DEF zone_name
  <2>3. /\ name \in Seq(S)
        /\ \A i \in DOMAIN name : name[i] # Blank /\ (name[i] = Star => i = 1)
    BY <2>1, NamesAssumption
  <2>4. /\ zone \in Seq(S)
        /\ zone # <<>>
        /\ \A i \in DOMAIN zone : zone[i] # Star
    <3>1. zone = zone_labels[zone_name]
      BY Zenon DEF ZoneOf, zone_name
    <3> HIDE DEF zone
    <3> QED BY <2>1, <2>2, <3>1, NamesAssumption
  <2>5. Blank \in S /\ Challenge \in S
    OBVIOUS
  <2> HIDE DEF S, name, zone
  <2>6. get_relative_recordset_name(name, zone) \o zone
           = <<Challenge>> \o Plain(name)
    BY <2>3, <2>4, <2>5, RecordNamed DEF name, zone
  <2> QED BY <2>6 DEF name, zone
<1> QED BY <1>1, TypeCorrect, PTL
=============================================================================

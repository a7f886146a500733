--------------------------- MODULE RegistrarProofs ---------------------------
(***************************************************************************)
(* Proofs about the registration pipeline: its type invariant, and the     *)
(* safety properties that hold whatever fails and for any number of        *)
(* workers, names, Ingresses and providers.                                *)
(***************************************************************************)
EXTENDS RegistrarRequirements, TLAPS, FiniteSetTheorems, SequenceTheorems

-----------------------------------------------------------------------------
(* Lemmas about values.                                                    *)

\* AnyHost, the name in a thread's locals before its first pass, is a host.
LEMMA AnyHostType == AnyHost \in Host
<1>1. PICK b \in Base : TRUE
  BY ConstantsAssumption
<1>2. [base |-> b, wild |-> FALSE] \in Host
  BY <1>1 DEF Host
<1> QED BY <1>2 DEF AnyHost

\* Stripping a name gives a name.
LEMMA StrippedType == ASSUME NEW h \in Host PROVE Stripped(h) \in Host
  BY DEF Stripped, Host

\* At most two names write a key: the name itself and its wildcard.
LEMMA WriterNames ==
  ASSUME NEW k \in Host, NEW h \in Host, WritesKey(h, k)
  PROVE  h = k \/ h = [base |-> k.base, wild |-> TRUE]
  BY DEF WritesKey, Stripped, Host

\* Of at most two names of a store one has the greatest account.
LEMMA GreatestOfTwo ==
  ASSUME NEW S \in SUBSET Host, NEW x \in Host, NEW y \in Host,
         S \subseteq {x, y}, S # {},
         NEW st, \A h \in S : st[h].account \in Nat
  PROVE  \E h \in S : \A g \in S : st[g].account <= st[h].account
<1>1. CASE x \in S /\ y \in S /\ st[x].account <= st[y].account
  BY <1>1
<1>2. CASE x \in S /\ y \in S /\ ~(st[x].account <= st[y].account)
  BY <1>2
<1>3. CASE S = {x} \/ S = {y}
  BY <1>3
<1> QED BY <1>1, <1>2, <1>3

\* Of a nonempty set of writers of a key, LastOf is one.  It has the greatest
\* account, which exists because there are at most two writers.
LEMMA LastOfIsWriter ==
  ASSUME NEW st \in [Host -> Registration], NEW k \in Host,
         Writers(st, k) # {}
  PROVE  LastOf(st, Writers(st, k)) \in Writers(st, k)
<1> DEFINE W == Writers(st, k)
           x == [base |-> k.base, wild |-> TRUE]
<1>1. x \in Host
  BY DEF Host
<1>2. W \in SUBSET Host /\ W \subseteq {k, x} /\ W # {}
  BY WriterNames DEF Writers
<1>3. \A h \in W : st[h].account \in Nat
  BY DEF Writers, Registration
<1> HIDE DEF W, x
<1>4. \E h \in W : \A g \in W : st[g].account <= st[h].account
  BY <1>1, <1>2, <1>3, GreatestOfTwo
<1> QED BY <1>4 DEF LastOf, W

\* The data written to the secret: under each key 0, or the account of a name
\* of the store that writes the key.
LEMMA SecretDataType ==
  ASSUME NEW st \in [Host -> Registration]
  PROVE  /\ SecretData(st) \in [Host -> Nat]
         /\ \A k \in Host : SecretData(st)[k] # 0 =>
              \E h \in Host : /\ WritesKey(h, k)
                              /\ st[h].account # 0
                              /\ SecretData(st)[k] = st[h].account
<1>1. ASSUME NEW k \in Host
      PROVE  \/ SecretData(st)[k] = 0
             \/ \E h \in Host : /\ WritesKey(h, k)
                                /\ st[h].account # 0
                                /\ SecretData(st)[k] = st[h].account
  BY LastOfIsWriter DEF SecretData, Writers
<1>2. \A h \in Host : st[h].account \in Nat
  BY DEF Registration
<1>3. \A k \in Host : SecretData(st)[k] \in Nat
  BY <1>1, <1>2
<1> QED BY <1>1, <1>3 DEF SecretData

-----------------------------------------------------------------------------
(* The type invariant.                                                     *)

\* The initial states have the types.
LEMMA TypeInit == Init => TypeOK
<1> SUFFICES ASSUME Init PROVE TypeOK
  OBVIOUS
<1>1. NewRegistrar \in RegistrarLocals
  BY AnyHostType DEF NewRegistrar, WaitingRegistrar, RegistrarLocals
<1>2. NewProcessor \in ProcessorLocals
  BY AnyHostType, ConstantsAssumption DEF NewProcessor, ProcessorLocals
<1>3. EmptyStore \in [Host -> Registration]
  BY DEF EmptyStore, NoRegistration, Registration
<1>4. secret \in [entries : [Host -> Nat], version : Int]
  BY DEF Init, NoMap
<1> QED BY <1>1, <1>2, <1>3, <1>4, ConstantsAssumption DEF Init, TypeOK

\* The types of the registrar threads and of the secret, on their own.
LEMMA RegistrarType ==
  ASSUME TypeOK, NEW w \in Worker
  PROVE  /\ registrar \in [Worker -> RegistrarLocals]
         /\ registrar[w] \in RegistrarLocals
         /\ registrar[w].name \in Host
         /\ registrar[w].version \in Int
  BY DEF TypeOK, RegistrarLocals

LEMMA SecretType ==
  ASSUME TypeOK PROVE secret.entries \in [Host -> Nat] /\ secret.version \in Int
  BY DEF TypeOK

\* The types of the stores on their own.
LEMMA StoreType ==
  ASSUME TypeOK, NEW w \in Worker
  PROVE  /\ registration_store \in [Worker -> [Host -> Registration]]
         /\ registration_store[w] \in [Host -> Registration]
         /\ \A h \in Host : /\ registration_store[w][h] \in Registration
                            /\ registration_store[w][h].account \in Nat
  BY DEF TypeOK, Registration

\* The accounts after one more was created.
LEMMA AppendType ==
  ASSUME TypeOK, NEW w \in Worker
  PROVE  Append(accounts, registrar[w].name) \in Seq(Host)
  BY RegistrarType DEF TypeOK

\* A watcher's notification keeps the queues of watch events well typed.
LEMMA NotifyType ==
  ASSUME TypeOK, NEW t \in DomainNameEventType, NEW s \in IngressSpec,
         Notify(t, s)
  PROVE  watch' \in [Worker -> Seq(WatchEvent)]
<1> DEFINE e == [type |-> t, spec |-> s]
<1>1. e \in WatchEvent
  BY DEF WatchEvent
<1> HIDE DEF e
<1>2. \A v \in Worker : /\ watch[v] \in Seq(WatchEvent)
                        /\ Append(watch[v], e) \in Seq(WatchEvent)
  BY <1>1 DEF TypeOK
<1>3. watch' = [v \in Worker |-> IF up[v] THEN Append(watch[v], e) ELSE watch[v]]
  BY DEF Notify, e
<1> QED BY <1>2, <1>3

\* The bounds are numbers.
LEMMA Bounds == MaxChanges \in Nat /\ MaxCrashes \in Nat
  BY ConstantsAssumption

\* Kubernetes and the life of a worker preserve the types.
LEMMA ApplyIngressType ==
  ASSUME TypeOK, NEW g \in Ingress, NEW s \in IngressSpec, ApplyIngress(g, s)
  PROVE  TypeOK'
<1>1. watch' \in [Worker -> Seq(WatchEvent)]
  BY NotifyType DEF ApplyIngress, DomainNameEventType
<1> QED BY <1>1, Bounds DEF ApplyIngress, TypeOK, worker_vars

LEMMA DeleteIngressType ==
  ASSUME TypeOK, NEW g \in Ingress, DeleteIngress(g)
  PROVE  TypeOK'
<1>1. watch' \in [Worker -> Seq(WatchEvent)]
  BY NotifyType DEF DeleteIngress, DomainNameEventType, TypeOK
<1> QED BY <1>1, Bounds DEF DeleteIngress, TypeOK, worker_vars

LEMMA StartType ==
  ASSUME TypeOK, NEW w \in Worker, Start(w)
  PROVE  TypeOK'
<1>1. PICK s \in Listings :
        watch' = [watch EXCEPT ![w] =
                    [k \in DOMAIN s |-> [type |-> "LOADED",
                                         spec |-> cluster[s[k]]]]]
  BY DEF Start
<1>2. Cardinality(Present) \in Nat
  BY ConstantsAssumption, FS_Subset, FS_CardinalityType DEF Present
<1>3. s \in [1..Cardinality(Present) -> Present]
  BY DEF Listings
<1>4. \A k \in 1..Cardinality(Present) :
        [type |-> "LOADED", spec |-> cluster[s[k]]] \in WatchEvent
  BY <1>3 DEF Present, WatchEvent, DomainNameEventType, TypeOK
<1>5. [k \in DOMAIN s |-> [type |-> "LOADED", spec |-> cluster[s[k]]]]
        \in Seq(WatchEvent)
  BY <1>2, <1>3, <1>4
<1>6. watch' \in [Worker -> Seq(WatchEvent)]
  BY <1>1, <1>5 DEF TypeOK
<1> QED BY <1>6 DEF Start, TypeOK, worker_vars

\* The provider being invoked is a provider.
LEMMA CurrentProviderType ==
  ASSUME TypeOK, NEW w \in Worker, processor[w].i # 0
  PROVE  CurrentProvider(w) \in Provider
  BY ConstantsAssumption DEF TypeOK, CurrentProvider, ProcessorLocals

LEMMA CrashType ==
  ASSUME TypeOK, NEW w \in Worker, Crash(w)
  PROVE  TypeOK'
<1>1. NewRegistrar \in RegistrarLocals
  BY AnyHostType DEF NewRegistrar, WaitingRegistrar, RegistrarLocals
<1>2. NewProcessor \in ProcessorLocals
  BY AnyHostType, ConstantsAssumption DEF NewProcessor, ProcessorLocals
<1>3. EmptyStore \in [Host -> Registration]
  BY DEF EmptyStore, NoRegistration, Registration
<1>4. record' \in [Provider -> [Base -> Nat]]
  <2>1. CASE UNCHANGED record
    BY <2>1 DEF TypeOK
  <2>2. CASE CutReplacement(w)
    BY <2>2, CurrentProviderType DEF CutReplacement, TypeOK, ProcessorLocals, Host
  <2> QED BY <2>1, <2>2 DEF Crash
<1>5. /\ watch' \in [Worker -> Seq(WatchEvent)]
      /\ domain_name_event_queue' \in [Worker -> Seq(DomainNameEvent)]
      /\ acme_dns_registration_queue'
           \in [Worker -> Seq(AcmeDnsRegistrationEvent)]
  BY DEF Crash, TypeOK
<1>6. /\ registrar' \in [Worker -> RegistrarLocals]
      /\ registration_store' \in [Worker -> [Host -> Registration]]
      /\ processor' \in [Worker -> ProcessorLocals]
  BY <1>1, <1>2, <1>3 DEF Crash, TypeOK
<1>7. /\ up' \in [Worker -> BOOLEAN]
      /\ crashes' \in 0..MaxCrashes
  BY Bounds DEF Crash, TypeOK
<1> QED BY <1>4, <1>5, <1>6, <1>7 DEF Crash, TypeOK

\* The watcher thread preserves the types.
LEMMA HandleType ==
  ASSUME TypeOK, NEW w \in Worker, handle_k8s_watch_event(w)
  PROVE  TypeOK'
<1> DEFINE e == Head(watch[w])
           hosts == extract_hosts(e.spec)
           new == [k \in 1..Len(hosts) |-> [type |-> e.type,
                                            domain_name |-> hosts[k]]]
<1>1. e \in WatchEvent
  BY DEF handle_k8s_watch_event, TypeOK
<1>2. hosts \in Seq(Host)
  BY <1>1, ConstantsAssumption DEF extract_hosts, WatchEvent
<1>3. \A k \in 1..Len(hosts) :
        [type |-> e.type, domain_name |-> hosts[k]] \in DomainNameEvent
  BY <1>1, <1>2 DEF DomainNameEvent, WatchEvent
<1>4. new \in Seq(DomainNameEvent)
  <2>1. Len(hosts) \in Nat
    BY <1>2
  <2> HIDE DEF hosts
  <2>2. \A k \in 1..Len(hosts) :
          [type |-> e.type, domain_name |-> hosts[k]] \in DomainNameEvent
    BY <1>3
  <2> QED BY <2>1, <2>2, SeqDef
<1>5. domain_name_event_queue' =
        [domain_name_event_queue EXCEPT ![w] = @ \o new]
  BY DEF handle_k8s_watch_event
<1>6. watch' \in [Worker -> Seq(WatchEvent)]
  BY DEF handle_k8s_watch_event, TypeOK
<1> HIDE DEF new
<1>7. domain_name_event_queue' \in [Worker -> Seq(DomainNameEvent)]
  BY <1>4, <1>5 DEF TypeOK
<1> QED BY <1>6, <1>7 DEF handle_k8s_watch_event, TypeOK, env_vars,
           registrar_vars, processor_vars

\* Taking an event leaves the queue well typed; the event names a host.
LEMMA TakeType ==
  ASSUME TypeOK, NEW w \in Worker, Take(w)
  PROVE  /\ domain_name_event_queue' \in [Worker -> Seq(DomainNameEvent)]
         /\ NextEvent(w) \in DomainNameEvent
  BY DEF Take, TypeOK, NextEvent

\* The two ways in which a pass moves its thread are well typed.
LEMMA WaitType ==
  ASSUME TypeOK, NEW w \in Worker, Wait(w)
  PROVE  registrar' \in [Worker -> RegistrarLocals]
  BY AnyHostType, RegistrarType DEF Wait, WaitingRegistrar, RegistrarLocals

LEMMA ProceedType ==
  ASSUME TypeOK, NEW w \in Worker, NEW pc \in {"read", "post"}, NEW h \in Host,
         Proceed(w, pc, h)
  PROVE  registrar' \in [Worker -> RegistrarLocals]
  BY RegistrarType DEF Proceed, RegistrarLocals

\* Each step of a pass of do_processing preserves the types.
LEMMA TakingType ==
  ASSUME TypeOK, NEW w \in Worker,
         \/ UpdateRegistration(w) \/ DiscardEvent(w) \/ BeginRegistration(w)
  PROVE  TypeOK'
<1>1. Take(w)
  BY DEF UpdateRegistration, DiscardEvent, BeginRegistration
<1>2. NextEvent(w).domain_name \in Host
  BY <1>1, TakeType DEF DomainNameEvent
<1>3. registrar' \in [Worker -> RegistrarLocals]
  <2>1. CASE UpdateRegistration(w)
    BY <1>2, <2>1, WaitType, ProceedType DEF UpdateRegistration
  <2>2. CASE DiscardEvent(w)
    BY <2>2, WaitType DEF DiscardEvent
  <2>3. CASE BeginRegistration(w)
    BY <1>2, <2>3, ProceedType DEF BeginRegistration
  <2> QED BY <2>1, <2>2, <2>3
<1> QED BY <1>1, <1>3, TakeType DEF Take, TypeOK, env_vars, processor_vars

LEMMA RegisterAccountType ==
  ASSUME TypeOK, NEW w \in Worker, RegisterAccount(w)
  PROVE  TypeOK'
<1>1. accounts' \in Seq(Host) /\ Len(accounts') \in Nat
  BY AppendType DEF RegisterAccount, TypeOK
<1>2. registrar' \in [Worker -> RegistrarLocals]
  BY RegistrarType DEF RegisterAccount, RegistrarLocals
<1>3. registration_store' \in [Worker -> [Host -> Registration]]
  BY <1>1 DEF RegisterAccount, TypeOK, Registration
<1> QED BY <1>1, <1>2, <1>3 DEF RegisterAccount, TypeOK, env_vars,
           watcher_vars, processor_vars

LEMMA RegisterFailsType ==
  ASSUME TypeOK, NEW w \in Worker, RegisterFails(w)
  PROVE  TypeOK'
<1>1. accounts' \in Seq(Host)
  BY AppendType, RegistrarType DEF RegisterFails, TypeOK
<1>2. registrar' \in [Worker -> RegistrarLocals]
  BY WaitType DEF RegisterFails
<1> QED BY <1>1, <1>2 DEF RegisterFails, TypeOK, env_vars, watcher_vars,
           processor_vars

LEMMA ReadSecretType ==
  ASSUME TypeOK, NEW w \in Worker, ReadSecret(w)
  PROVE  TypeOK'
<1>1. registrar' \in [Worker -> RegistrarLocals]
  BY RegistrarType, SecretType DEF ReadSecret, RegistrarLocals
<1> QED BY <1>1 DEF ReadSecret, TypeOK, env_vars, watcher_vars, processor_vars

LEMMA PatchSecretType ==
  ASSUME TypeOK, NEW w \in Worker, PatchSecret(w)
  PROVE  TypeOK'
<1>1. registrar' \in [Worker -> RegistrarLocals]
  BY RegistrarType DEF PatchSecret, RegistrarLocals
<1>2. SecretData(registration_store[w]) \in [Host -> Nat]
  BY SecretDataType DEF TypeOK
<1>3. secret' \in [entries : [Host -> Nat], version : Int]
  BY <1>2, RegistrarType DEF PatchSecret, RegistrarLocals
<1> QED BY <1>1, <1>3 DEF PatchSecret, TypeOK, env_vars, watcher_vars,
           processor_vars

LEMMA SecretStoreFailsType ==
  ASSUME TypeOK, NEW w \in Worker, SecretStoreFails(w)
  PROVE  TypeOK'
<1>1. registrar' \in [Worker -> RegistrarLocals]
  BY RegistrarType DEF SecretStoreFails, RegistrarLocals
<1> QED BY <1>1 DEF SecretStoreFails, TypeOK, env_vars, watcher_vars,
           processor_vars

LEMMA FireEventType ==
  ASSUME TypeOK, NEW w \in Worker, FireEvent(w)
  PROVE  TypeOK'
<1> DEFINE e == [cname_name |-> registrar[w].name,
                 cname_target |->
                   registration_store[w][registrar[w].name].account]
<1>1. e \in AcmeDnsRegistrationEvent
  BY RegistrarType, StoreType DEF AcmeDnsRegistrationEvent
<1>2. acme_dns_registration_queue' =
        [acme_dns_registration_queue EXCEPT ![w] = Append(@, e)]
  BY DEF FireEvent
<1> HIDE DEF e
<1>3. acme_dns_registration_queue' \in [Worker -> Seq(AcmeDnsRegistrationEvent)]
  BY <1>1, <1>2 DEF TypeOK
<1>4. registrar' \in [Worker -> RegistrarLocals]
  BY WaitType DEF FireEvent
<1> QED BY <1>3, <1>4 DEF FireEvent, TypeOK, env_vars, watcher_vars,
           processor_vars

\* The next position of the provider loop is well typed.
LEMMA AdvanceType ==
  ASSUME NEW i \in 0..Len(dns_providers), NEW h \in Host, NEW t \in Nat
  PROVE  Advance(i, h, t) \in ProcessorLocals
<1>1. NewProcessor \in ProcessorLocals
  BY AnyHostType, ConstantsAssumption DEF NewProcessor, ProcessorLocals
<1>2. Len(dns_providers) \in Nat
  BY ConstantsAssumption
<1> QED BY <1>1, <1>2 DEF Advance, ProcessorLocals

\* The type of the processor threads on their own.
LEMMA ProcessorType ==
  ASSUME TypeOK, NEW w \in Worker
  PROVE  /\ processor \in [Worker -> ProcessorLocals]
         /\ processor[w].i \in 0..Len(dns_providers)
         /\ processor[w].name \in Host
         /\ processor[w].name.base \in Base
         /\ processor[w].target \in Nat
  BY DEF TypeOK, ProcessorLocals, Host

\* Each step of the processor thread preserves the types.
LEMMA ReceiveType ==
  ASSUME TypeOK, NEW w \in Worker, ReceiveRegistrationEvent(w)
  PROVE  TypeOK'
<1> DEFINE e == Head(acme_dns_registration_queue[w])
<1>1. /\ e \in AcmeDnsRegistrationEvent
      /\ acme_dns_registration_queue'
           \in [Worker -> Seq(AcmeDnsRegistrationEvent)]
  BY DEF ReceiveRegistrationEvent, TypeOK
<1>2. NewProcessor \in ProcessorLocals
  BY AnyHostType, ConstantsAssumption DEF NewProcessor, ProcessorLocals
<1>3. 0 \in 0..Len(dns_providers)
  BY ConstantsAssumption
<1>4. Advance(0, e.cname_name, e.cname_target) \in ProcessorLocals
  BY <1>1, <1>3, AdvanceType DEF AcmeDnsRegistrationEvent
<1>5. processor' \in [Worker -> ProcessorLocals]
  BY <1>2, <1>4, ProcessorType DEF ReceiveRegistrationEvent
<1> QED BY <1>1, <1>5 DEF ReceiveRegistrationEvent, TypeOK, env_vars,
           watcher_vars, registrar_vars

LEMMA EnsureCnameType ==
  ASSUME TypeOK, NEW w \in Worker, EnsureCname(w)
  PROVE  TypeOK'
<1>1. CurrentProvider(w) \in Provider
  BY CurrentProviderType DEF EnsureCname
<1>2. Advance(processor[w].i, processor[w].name, processor[w].target)
        \in ProcessorLocals
  BY ProcessorType, AdvanceType
<1>3. processor' \in [Worker -> ProcessorLocals]
  BY <1>2, ProcessorType DEF EnsureCname
<1>4. record' \in [Provider -> [Base -> Nat]]
  BY <1>1, ProcessorType DEF EnsureCname, TypeOK
<1>5. registration_store' \in [Worker -> [Host -> Registration]]
  BY <1>1, ProcessorType, StoreType DEF EnsureCname, Registration
<1> QED BY <1>3, <1>4, <1>5 DEF EnsureCname, TypeOK, env_vars, watcher_vars,
           registrar_vars

LEMMA EnsureCnameFailsType ==
  ASSUME TypeOK, NEW w \in Worker, EnsureCnameFails(w)
  PROVE  TypeOK'
<1>1. CurrentProvider(w) \in Provider
  BY CurrentProviderType DEF EnsureCnameFails
<1>2. NewProcessor \in ProcessorLocals
  BY AnyHostType, ConstantsAssumption DEF NewProcessor, ProcessorLocals
<1>3. processor' \in [Worker -> ProcessorLocals]
  BY <1>2, ProcessorType DEF EnsureCnameFails
<1>4. record' \in [Provider -> [Base -> Nat]]
  <2>1. CASE UNCHANGED record
    BY <2>1 DEF TypeOK
  <2>2. ASSUME NEW r \in AfterFailure(CurrentProvider(w),
                   record[CurrentProvider(w)][processor[w].name.base],
                   processor[w].target),
               record' = [record EXCEPT
                 ![CurrentProvider(w)][processor[w].name.base] = r]
        PROVE  record' \in [Provider -> [Base -> Nat]]
    <3>1. r \in Nat
      BY <1>1, ProcessorType DEF AfterFailure, TypeOK
    <3> QED BY <1>1, <2>2, <3>1, ProcessorType DEF TypeOK
  <2> QED BY <2>1, <2>2 DEF EnsureCnameFails
<1> QED BY <1>3, <1>4 DEF EnsureCnameFails, TypeOK, env_vars, watcher_vars,
           registrar_vars

\* Every step preserves the types.
LEMMA TypeStep == TypeOK /\ [Next]_vars => TypeOK'
<1> SUFFICES ASSUME TypeOK, [Next]_vars PROVE TypeOK'
  OBVIOUS
<1>1. CASE Environment
  <2>1. ASSUME NEW g \in Ingress, NEW s \in IngressSpec, ApplyIngress(g, s)
        PROVE  TypeOK'
    BY <2>1, ApplyIngressType
  <2>2. ASSUME NEW g \in Ingress, DeleteIngress(g) PROVE TypeOK'
    BY <2>2, DeleteIngressType
  <2>3. ASSUME NEW w \in Worker, Start(w) PROVE TypeOK'
    BY <2>3, StartType
  <2>4. ASSUME NEW w \in Worker, Crash(w) PROVE TypeOK'
    BY <2>4, CrashType
  <2> QED BY <1>1, <2>1, <2>2, <2>3, <2>4 DEF Environment
<1>2. ASSUME NEW w \in Worker, handle_k8s_watch_event(w) PROVE TypeOK'
  BY <1>2, HandleType
<1>3. ASSUME NEW w \in Worker, ACMEDnsRegistrar(w) PROVE TypeOK'
  BY <1>3, TakingType, RegisterAccountType, RegisterFailsType, ReadSecretType,
     PatchSecretType, SecretStoreFailsType, FireEventType DEF ACMEDnsRegistrar
<1>4. ASSUME NEW w \in Worker, DnsProviderProcessor(w) PROVE TypeOK'
  BY <1>4, ReceiveType, EnsureCnameType, EnsureCnameFailsType
     DEF DnsProviderProcessor
<1>5. CASE UNCHANGED vars
  BY <1>5 DEF vars, env_vars, watcher_vars, registrar_vars, processor_vars,
     TypeOK
<1> QED BY <1>1, <1>2, <1>3, <1>4, <1>5 DEF Next

\* The pipeline's variables always have their types.
THEOREM TypeCorrect == Spec => []TypeOK
<1>1. Init => TypeOK
  BY TypeInit
<1>2. TypeOK /\ [Next]_vars => TypeOK'
  BY TypeStep
<1> QED BY <1>1, <1>2, PTL DEF Spec

-----------------------------------------------------------------------------
(* Safety whatever fails.                                                  *)

\* The parts of the inductive invariant besides the five properties.  While a
\* name is being registered it is not in the store, since only this thread
\* adds names; from then on it is, for the rest of the pass.
PassInv ==
  \A w \in Worker :
    /\ registrar[w].pc = "post" => ~Registered(w, registrar[w].name)
    /\ registrar[w].pc \in {"read", "patch", "fire"} =>
         Registered(w, registrar[w].name)

\* SecretTruth and CnameTruth need the accounts that stores hold, and through
\* the processor's target those of queued events, to be the right ones.
SafetyInv ==
  /\ TypeOK
  /\ PassInv
  /\ StoreOwnsAccounts
  /\ EventsHaveRegistrations
  /\ LoggedTargetBound
  /\ SecretTruth
  /\ CnameTruth

\* The initial states satisfy it.
LEMMA SafetyInit == Init => SafetyInv
<1> SUFFICES ASSUME Init PROVE SafetyInv
  OBVIOUS
<1>1. TypeOK
  BY TypeInit
<1>2. \A w \in Worker, h \in Host : ~Registered(w, h)
  BY DEF Init, Registered, EmptyStore, NoRegistration
<1>3. PassInv
  BY DEF Init, PassInv, NewRegistrar, WaitingRegistrar
<1>4. EventsHaveRegistrations
  BY DEF Init, EventsHaveRegistrations, NewProcessor
<1>5. SecretTruth /\ CnameTruth
  BY DEF Init, SecretTruth, CnameTruth
<1> QED BY <1>1, <1>2, <1>3, <1>4, <1>5
        DEF SafetyInv, StoreOwnsAccounts, LoggedTargetBound

\* accounts only grows at its end, so that an account stays what it was.
AccountsGrow ==
  \A a, h : (a \in DOMAIN accounts /\ accounts[a] = h) =>
              (a \in DOMAIN accounts' /\ accounts'[a] = h)

\* An account appended at the end leaves the others alone and is the next one.
LEMMA AppendedAccount ==
  ASSUME TypeOK, NEW w \in Worker,
         accounts' = Append(accounts, registrar[w].name)
  PROVE  /\ AccountsGrow
         /\ Len(accounts') \in Nat \ {0}
         /\ Len(accounts') \in DOMAIN accounts'
         /\ accounts'[Len(accounts')] = registrar[w].name
<1> DEFINE h == registrar[w].name
<1>1. h \in Host /\ accounts \in Seq(Host)
  BY RegistrarType DEF TypeOK
<1> HIDE DEF h
<1>2. accounts' = Append(accounts, h)
  BY DEF h
<1>3. /\ Len(accounts') = Len(accounts) + 1
      /\ DOMAIN accounts = 1..Len(accounts)
      /\ DOMAIN accounts' = 1..Len(accounts')
      /\ Len(accounts) \in Nat
      /\ accounts'[Len(accounts')] = h
      /\ \A a \in 1..Len(accounts) : accounts'[a] = accounts[a]
  BY <1>1, <1>2
<1> QED BY <1>3 DEF AccountsGrow, h

\* Unchanged accounts grow, too.
LEMMA SameAccountsGrow == UNCHANGED accounts => AccountsGrow
  BY DEF AccountsGrow

\* What is true of the secret, the records and the stores stays true when
\* only accounts grows.
LEMMA SecretTruthKept ==
  ASSUME AccountsGrow, SecretTruth, UNCHANGED secret
  PROVE  SecretTruth'
  BY DEF AccountsGrow, SecretTruth, AccountOf, WritesKey, Stripped

LEMMA CnameTruthKept ==
  ASSUME AccountsGrow, CnameTruth, UNCHANGED record
  PROVE  CnameTruth'
  BY DEF AccountsGrow, CnameTruth, AccountOf

LEMMA StoreOwnsAccountsKept ==
  ASSUME AccountsGrow, StoreOwnsAccounts, UNCHANGED registration_store
  PROVE  StoreOwnsAccounts'
  BY DEF AccountsGrow, StoreOwnsAccounts, AccountOf, Registered

\* A step that changes no variable of the five properties but the queue of
\* domain name events, or grows accounts.
LEMMA SafetyKept ==
  ASSUME SafetyInv, TypeOK', AccountsGrow, LoggedTargetBound', PassInv',
         UNCHANGED <<registration_store, acme_dns_registration_queue,
                     processor, secret, record>>
  PROVE  SafetyInv'
<1>1. EventsHaveRegistrations'
  BY DEF SafetyInv, EventsHaveRegistrations, Registered
<1> QED BY <1>1, SecretTruthKept, CnameTruthKept, StoreOwnsAccountsKept
        DEF SafetyInv

\* Kubernetes, the start of a worker and its watcher touch none of it.
LEMMA OutsideSafety ==
  ASSUME SafetyInv, TypeOK', UNCHANGED <<registrar, registration_store,
           acme_dns_registration_queue, processor, accounts, secret, record>>
  PROVE  SafetyInv'
<1>1. PassInv' /\ LoggedTargetBound'
  BY DEF SafetyInv, PassInv, LoggedTargetBound, Registered
<1> QED BY <1>1, SafetyKept, SameAccountsGrow

\* A crash empties the worker's memory; the accounts, the secret and, but for
\* a record cut out, the records outlive it.
LEMMA CrashSafety ==
  ASSUME SafetyInv, TypeOK', NEW w \in Worker, Crash(w)
  PROVE  SafetyInv'
<1>1. TypeOK
  BY DEF SafetyInv
<1>2. \A h \in Host : registration_store'[w][h].account = 0
  BY <1>1 DEF Crash, EmptyStore, NoRegistration, TypeOK
<1>3. \A v \in Worker \ {w} :
        /\ registration_store'[v] = registration_store[v]
        /\ registrar'[v] = registrar[v]
        /\ acme_dns_registration_queue'[v] = acme_dns_registration_queue[v]
        /\ processor'[v] = processor[v]
  BY <1>1 DEF Crash, TypeOK
<1>4. /\ registrar'[w].pc = "get"
      /\ acme_dns_registration_queue'[w] = <<>>
      /\ processor'[w].i = 0
  BY <1>1 DEF Crash, TypeOK, NewRegistrar, WaitingRegistrar, NewProcessor
<1>5. PassInv'
  BY <1>3, <1>4 DEF SafetyInv, PassInv, Registered
<1>6. StoreOwnsAccounts' /\ LoggedTargetBound'
  BY <1>2, <1>3 DEF SafetyInv, StoreOwnsAccounts, LoggedTargetBound,
     Registered, AccountOf, Crash
<1>7. EventsHaveRegistrations'
  BY <1>3, <1>4 DEF SafetyInv, EventsHaveRegistrations, Registered
<1>8. SecretTruth'
  BY SecretTruthKept, SameAccountsGrow DEF SafetyInv, Crash
<1>9. CnameTruth'
  <2>1. CASE UNCHANGED record
    BY <2>1, CnameTruthKept, SameAccountsGrow DEF SafetyInv, Crash
  <2>2. CASE CutReplacement(w)
    <3>1. \A p \in Provider, b \in Base :
            record'[p][b] = 0 \/ record'[p][b] = record[p][b]
      BY <1>1, <2>2 DEF CutReplacement, TypeOK
    <3> QED BY <3>1 DEF SafetyInv, CnameTruth, AccountOf, Crash
  <2> QED BY <2>1, <2>2 DEF Crash
<1> QED BY <1>5, <1>6, <1>7, <1>8, <1>9 DEF SafetyInv

\* Only the thread of w moves, and its local stays bound.
LEMMA OneThreadMoves ==
  ASSUME SafetyInv, NEW w \in Worker, UNCHANGED registration_store,
         \A v \in Worker \ {w} : registrar'[v] = registrar[v],
         registrar'[w].bound = registrar[w].bound,
         registrar'[w].pc = "post" => ~Registered(w, registrar'[w].name),
         registrar'[w].pc \in {"read", "patch", "fire"} =>
           Registered(w, registrar'[w].name)
  PROVE  PassInv' /\ LoggedTargetBound'
  BY DEF SafetyInv, PassInv, LoggedTargetBound, Registered

\* Taking an event: it is dropped, or its name is in the store or not as the
\* pass goes on to "read" or to "post".
LEMMA TakingSafety ==
  ASSUME SafetyInv, TypeOK', NEW w \in Worker,
         \/ UpdateRegistration(w) \/ DiscardEvent(w) \/ BeginRegistration(w)
  PROVE  SafetyInv'
<1>1. TypeOK /\ Take(w)
  BY DEF SafetyInv, UpdateRegistration, DiscardEvent, BeginRegistration
<1>2. /\ \A v \in Worker \ {w} : registrar'[v] = registrar[v]
      /\ registrar'[w].bound = registrar[w].bound
      /\ \/ registrar'[w].pc = "get"
         \/ /\ registrar'[w].pc = "read"
            /\ Registered(w, registrar'[w].name)
         \/ /\ registrar'[w].pc = "post"
            /\ ~Registered(w, registrar'[w].name)
  <2>1. CASE UpdateRegistration(w)
    BY <1>1, <2>1, RegistrarType DEF UpdateRegistration, Wait, Proceed,
       WaitingRegistrar, RegistrarLocals
  <2>2. CASE DiscardEvent(w)
    BY <1>1, <2>2, RegistrarType DEF DiscardEvent, Wait, WaitingRegistrar
  <2>3. CASE BeginRegistration(w)
    BY <1>1, <2>3, RegistrarType DEF BeginRegistration, Proceed,
       RegistrarLocals
  <2> QED BY <2>1, <2>2, <2>3
<1>3. PassInv' /\ LoggedTargetBound'
  BY <1>1, <1>2, OneThreadMoves DEF Take
<1> QED BY <1>1, <1>3, SafetyKept, SameAccountsGrow DEF Take, processor_vars

\* The new account belongs to the name, which had no registration before, so
\* no queued event or invoked provider was using it.
LEMMA RegisterAccountSafety ==
  ASSUME SafetyInv, TypeOK', NEW w \in Worker, RegisterAccount(w)
  PROVE  SafetyInv'
<1> DEFINE n == registrar[w].name
           a == Len(accounts')
<1>1. TypeOK /\ accounts' = Append(accounts, n) /\ registrar[w].pc = "post"
  BY DEF SafetyInv, RegisterAccount
<1>2. /\ AccountsGrow
      /\ a \in Nat \ {0}
      /\ a \in DOMAIN accounts'
      /\ accounts'[a] = n
  BY <1>1, AppendedAccount
<1>3. n \in Host
  BY <1>1, RegistrarType
<1>4. ~Registered(w, n)
  BY <1>1 DEF SafetyInv, PassInv
<1>5. registration_store' =
        [registration_store EXCEPT ![w][n] =
           [account |-> a, provider |-> NoProvider]]
  BY DEF RegisterAccount
<1> HIDE DEF a, n
<1>6. /\ registration_store'[w][n].account = a
      /\ \A v \in Worker, h \in Host : v # w \/ h # n =>
           registration_store'[v][h] = registration_store[v][h]
  BY <1>1, <1>3, <1>5, StoreType
<1>7. StoreOwnsAccounts'
  BY <1>2, <1>6 DEF SafetyInv, StoreOwnsAccounts, Registered, AccountOf,
     AccountsGrow
<1>8. EventsHaveRegistrations'
  <2>1. \A v \in Worker, h \in Host : Registered(v, h) =>
          registration_store'[v][h] = registration_store[v][h]
    BY <1>4, <1>6
  <2>2. \A v \in Worker :
          /\ processor[v].name \in Host
          /\ \A k \in DOMAIN acme_dns_registration_queue[v] :
               acme_dns_registration_queue[v][k].cname_name \in Host
    <3>1. \A v \in Worker :
            acme_dns_registration_queue[v] \in Seq(AcmeDnsRegistrationEvent)
      BY <1>1 DEF TypeOK
    <3>2. \A v \in Worker : \A k \in DOMAIN acme_dns_registration_queue[v] :
            acme_dns_registration_queue[v][k] \in AcmeDnsRegistrationEvent
      BY <3>1
    <3> QED BY <1>1, <3>2, ProcessorType DEF AcmeDnsRegistrationEvent
  <2>3. UNCHANGED <<processor, acme_dns_registration_queue>>
    BY DEF RegisterAccount, processor_vars
  <2> QED BY <2>1, <2>2, <2>3 DEF SafetyInv, EventsHaveRegistrations, Registered
<1>9. /\ registrar'[w].pc = "read" /\ registrar'[w].bound
      /\ registrar'[w].name = n
      /\ \A v \in Worker \ {w} : registrar'[v] = registrar[v]
  BY <1>1, RegistrarType DEF RegisterAccount, RegistrarLocals, n
<1>10. PassInv' /\ LoggedTargetBound'
  <2>1. /\ registration_store'[w][n].account # 0
        /\ \A v \in Worker \ {w} :
             \A h \in Host : registration_store'[v][h] = registration_store[v][h]
    BY <1>2, <1>6
  <2>2. \A v \in Worker : registrar[v].name \in Host
    BY <1>1, RegistrarType
  <2> QED BY <1>9, <2>1, <2>2
          DEF SafetyInv, PassInv, LoggedTargetBound, Registered
<1>11. SecretTruth' /\ CnameTruth'
  BY <1>2, SecretTruthKept, CnameTruthKept
     DEF SafetyInv, RegisterAccount, processor_vars
<1> QED BY <1>7, <1>8, <1>10, <1>11 DEF SafetyInv

LEMMA RegisterFailsSafety ==
  ASSUME SafetyInv, TypeOK', NEW w \in Worker, RegisterFails(w)
  PROVE  SafetyInv'
<1>1. TypeOK
  BY DEF SafetyInv
<1>2. AccountsGrow
  BY <1>1, AppendedAccount, SameAccountsGrow DEF RegisterFails
<1>3. /\ \A v \in Worker \ {w} : registrar'[v] = registrar[v]
      /\ registrar'[w].bound = registrar[w].bound
      /\ registrar'[w].pc = "get"
  BY <1>1, RegistrarType DEF RegisterFails, Wait, WaitingRegistrar
<1>4. PassInv' /\ LoggedTargetBound'
  BY <1>3, OneThreadMoves DEF RegisterFails
<1> QED BY <1>2, <1>4, SafetyKept DEF RegisterFails, processor_vars

\* Steps that lead from one of "read", "patch" and "fire" to another.
LEMMA PassGoesOn ==
  ASSUME SafetyInv, NEW w \in Worker, registrar[w].pc \in {"read", "patch"},
         ReadSecret(w) \/ PatchSecret(w) \/ SecretStoreFails(w)
  PROVE  PassInv' /\ LoggedTargetBound'
<1>1. TypeOK
  BY DEF SafetyInv
<1>2. /\ \A v \in Worker \ {w} : registrar'[v] = registrar[v]
      /\ registrar'[w].bound = registrar[w].bound
      /\ registrar'[w].name = registrar[w].name
      /\ registrar'[w].pc \in {"patch", "fire"}
  BY <1>1, RegistrarType
     DEF ReadSecret, PatchSecret, SecretStoreFails, RegistrarLocals
<1>3. UNCHANGED registration_store /\ Registered(w, registrar[w].name)
  BY DEF ReadSecret, PatchSecret, SecretStoreFails, SafetyInv, PassInv
<1> QED BY <1>2, <1>3, OneThreadMoves DEF Registered

LEMMA ReadSecretSafety ==
  ASSUME SafetyInv, TypeOK', NEW w \in Worker,
         ReadSecret(w) \/ SecretStoreFails(w)
  PROVE  SafetyInv'
<1>1. registrar[w].pc \in {"read", "patch"}
  BY DEF ReadSecret, SecretStoreFails
<1> QED BY <1>1, PassGoesOn, SafetyKept, SameAccountsGrow
        DEF ReadSecret, SecretStoreFails, processor_vars

\* What is published comes from the store, which owns its accounts.
LEMMA PatchSecretSafety ==
  ASSUME SafetyInv, TypeOK', NEW w \in Worker, PatchSecret(w)
  PROVE  SafetyInv'
<1>1. TypeOK
  BY DEF SafetyInv
<1>2. PassInv' /\ LoggedTargetBound'
  BY PassGoesOn DEF PatchSecret
<1>3. secret'.entries = SecretData(registration_store[w])
  BY DEF PatchSecret
<1>4. \A k \in Host : secret'.entries[k] # 0 =>
        \E h \in Host : /\ WritesKey(h, k)
                        /\ Registered(w, h)
                        /\ secret'.entries[k] = registration_store[w][h].account
  BY <1>1, <1>3, StoreType, SecretDataType DEF Registered
<1>5. SecretTruth'
  BY <1>4 DEF SafetyInv, StoreOwnsAccounts, SecretTruth, AccountOf, WritesKey,
     Stripped, PatchSecret
<1>6. StoreOwnsAccounts' /\ EventsHaveRegistrations' /\ CnameTruth'
  BY SameAccountsGrow, StoreOwnsAccountsKept, CnameTruthKept
     DEF SafetyInv, PatchSecret, EventsHaveRegistrations, Registered,
         processor_vars
<1> QED BY <1>2, <1>5, <1>6 DEF SafetyInv

\* The event is made from the registration the store holds.
LEMMA FireEventSafety ==
  ASSUME SafetyInv, TypeOK', NEW w \in Worker, FireEvent(w)
  PROVE  SafetyInv'
<1> DEFINE n == registrar[w].name
           e == [cname_name |-> n,
                 cname_target |-> registration_store[w][n].account]
<1>1. TypeOK /\ Registered(w, n)
  BY DEF SafetyInv, PassInv, FireEvent
<1>2. /\ \A v \in Worker \ {w} : registrar'[v] = registrar[v]
      /\ registrar'[w].bound = registrar[w].bound
      /\ registrar'[w].pc = "get"
  BY <1>1, RegistrarType DEF FireEvent, Wait, WaitingRegistrar
<1>3. PassInv' /\ LoggedTargetBound'
  BY <1>2, OneThreadMoves DEF FireEvent
<1>4. /\ acme_dns_registration_queue[w] \in Seq(AcmeDnsRegistrationEvent)
      /\ acme_dns_registration_queue' =
           [acme_dns_registration_queue EXCEPT
              ![w] = Append(acme_dns_registration_queue[w], e)]
      /\ acme_dns_registration_queue
           \in [Worker -> Seq(AcmeDnsRegistrationEvent)]
      /\ e \in AcmeDnsRegistrationEvent
  BY <1>1, RegistrarType, StoreType
     DEF FireEvent, TypeOK, AcmeDnsRegistrationEvent
<1>5. Registered(w, e.cname_name)
      /\ e.cname_target = registration_store[w][e.cname_name].account
  BY <1>1
<1> HIDE DEF e, n
<1>6. /\ \A v \in Worker \ {w} :
           acme_dns_registration_queue'[v] = acme_dns_registration_queue[v]
      /\ \A k \in DOMAIN acme_dns_registration_queue'[w] :
           \/ acme_dns_registration_queue'[w][k] = e
           \/ /\ k \in DOMAIN acme_dns_registration_queue[w]
              /\ acme_dns_registration_queue'[w][k]
                   = acme_dns_registration_queue[w][k]
  BY <1>4
<1>7. EventsHaveRegistrations'
  <2>1. registration_store' = registration_store /\ processor' = processor
    BY DEF FireEvent, processor_vars
  <2>2. ASSUME NEW v \in Worker, NEW k \in DOMAIN acme_dns_registration_queue[v]
        PROVE  LET f == acme_dns_registration_queue[v][k]
               IN /\ registration_store[v][f.cname_name].account # 0
                  /\ f.cname_target
                       = registration_store[v][f.cname_name].account
    BY DEF SafetyInv, EventsHaveRegistrations, Registered
  <2>3. ASSUME NEW v \in Worker, NEW k \in DOMAIN acme_dns_registration_queue'[v]
        PROVE  LET f == acme_dns_registration_queue'[v][k]
               IN /\ registration_store[v][f.cname_name].account # 0
                  /\ f.cname_target
                       = registration_store[v][f.cname_name].account
    <3>1. CASE v = w
      BY <1>5, <1>6, <2>2, <3>1 DEF Registered
    <3>2. CASE v # w
      <4>1. acme_dns_registration_queue'[v] = acme_dns_registration_queue[v]
        BY <1>6, <3>2
      <4> QED BY <2>2, <4>1
    <3> QED BY <3>1, <3>2
  <2>4. \A v \in Worker : processor[v].i # 0 =>
          /\ registration_store[v][processor[v].name].account # 0
          /\ processor[v].target
               = registration_store[v][processor[v].name].account
    BY DEF SafetyInv, EventsHaveRegistrations, Registered
  <2> QED BY <2>1, <2>3, <2>4 DEF EventsHaveRegistrations, Registered
<1>8. StoreOwnsAccounts' /\ SecretTruth' /\ CnameTruth'
  BY SameAccountsGrow, StoreOwnsAccountsKept, SecretTruthKept, CnameTruthKept
     DEF SafetyInv, FireEvent, processor_vars
<1> QED BY <1>3, <1>7, <1>8 DEF SafetyInv

\* What the processor takes up was a queued event; what it leaves is the rest.
LEMMA ReceiveSafety ==
  ASSUME SafetyInv, TypeOK', NEW w \in Worker, ReceiveRegistrationEvent(w)
  PROVE  SafetyInv'
<1> DEFINE q == acme_dns_registration_queue[w]
           e == Head(q)
<1>1. TypeOK /\ q # <<>>
  BY DEF SafetyInv, ReceiveRegistrationEvent
<1>2. /\ q \in Seq(AcmeDnsRegistrationEvent)
      /\ e = q[1] /\ 1 \in DOMAIN q
      /\ acme_dns_registration_queue'[w] = Tail(q)
      /\ \A k \in DOMAIN Tail(q) : k + 1 \in DOMAIN q /\ Tail(q)[k] = q[k + 1]
  BY <1>1 DEF ReceiveRegistrationEvent, TypeOK
<1>3. \A v \in Worker \ {w} :
        /\ acme_dns_registration_queue'[v] = acme_dns_registration_queue[v]
        /\ processor'[v] = processor[v]
  BY <1>1 DEF ReceiveRegistrationEvent, TypeOK
<1>4. /\ Registered(w, e.cname_name)
      /\ e.cname_target = registration_store[w][e.cname_name].account
  BY <1>2 DEF SafetyInv, EventsHaveRegistrations
<1>5. processor'[w].i # 0 => /\ processor'[w].name = e.cname_name
                             /\ processor'[w].target = e.cname_target
  BY <1>1, <1>4, ProcessorType
     DEF ReceiveRegistrationEvent, Advance, NewProcessor
<1>6. \A k \in DOMAIN acme_dns_registration_queue'[w] :
        \E j \in DOMAIN q : acme_dns_registration_queue'[w][k] = q[j]
  BY <1>2
<1>7. EventsHaveRegistrations'
  <2> HIDE DEF e
  <2>1. UNCHANGED registration_store
    BY DEF ReceiveRegistrationEvent
  <2>2. ASSUME NEW v \in Worker, NEW k \in DOMAIN acme_dns_registration_queue'[v]
        PROVE  LET x == acme_dns_registration_queue'[v][k]
               IN /\ Registered(v, x.cname_name)
                  /\ x.cname_target = registration_store[v][x.cname_name].account
    <3>1. \E j \in DOMAIN acme_dns_registration_queue[v] :
            acme_dns_registration_queue'[v][k] = acme_dns_registration_queue[v][j]
      BY <1>3, <1>6
    <3> QED BY <3>1 DEF SafetyInv, EventsHaveRegistrations
  <2>3. ASSUME NEW v \in Worker, processor'[v].i # 0
        PROVE  /\ Registered(v, processor'[v].name)
               /\ processor'[v].target
                    = registration_store[v][processor'[v].name].account
    <3>1. CASE v = w
      BY <1>4, <1>5, <2>3, <3>1
    <3>2. CASE v # w
      BY <1>3, <2>3, <3>2 DEF SafetyInv, EventsHaveRegistrations
    <3> QED BY <3>1, <3>2
  <2> QED BY <2>1, <2>2, <2>3 DEF EventsHaveRegistrations, Registered
<1>8. /\ StoreOwnsAccounts' /\ SecretTruth' /\ CnameTruth'
      /\ PassInv' /\ LoggedTargetBound'
  BY SameAccountsGrow, StoreOwnsAccountsKept, SecretTruthKept, CnameTruthKept
     DEF SafetyInv, ReceiveRegistrationEvent, registrar_vars, PassInv,
         LoggedTargetBound, Registered
<1> QED BY <1>7, <1>8 DEF SafetyInv

\* The target that a record gets is an account of the name it is for.
LEMMA TargetIsOwn ==
  ASSUME SafetyInv, NEW w \in Worker, processor[w].i # 0
  PROVE  /\ processor[w].name \in Host
         /\ AccountOf(processor[w].target, processor[w].name)
<1>1. processor[w].name \in Host
  BY ProcessorType DEF SafetyInv
<1> QED BY <1>1 DEF SafetyInv, EventsHaveRegistrations, StoreOwnsAccounts

\* A record that keeps its value, is cut, or gets the target stays truthful.
LEMMA RecordStep ==
  ASSUME SafetyInv, NEW w \in Worker, processor[w].i # 0, UNCHANGED accounts,
         \A p \in Provider, b \in Base :
           \/ record'[p][b] \in {0, record[p][b]}
           \/ b = processor[w].name.base /\ record'[p][b] = processor[w].target
  PROVE  CnameTruth'
  BY TargetIsOwn DEF SafetyInv, CnameTruth, AccountOf

\* Registrations keep their accounts when a provider is noted in one.
LEMMA ProcessorKeeps ==
  ASSUME SafetyInv, NEW w \in Worker, UNCHANGED <<registrar, accounts, secret,
           acme_dns_registration_queue>>,
         \A v \in Worker, h \in Host :
           registration_store'[v][h].account = registration_store[v][h].account,
         \A v \in Worker \ {w} : processor'[v] = processor[v],
         processor'[w].i # 0 =>
           /\ processor[w].i # 0
           /\ processor'[w].name = processor[w].name
           /\ processor'[w].target = processor[w].target
  PROVE  /\ PassInv' /\ StoreOwnsAccounts' /\ EventsHaveRegistrations'
         /\ LoggedTargetBound' /\ SecretTruth'
<1>1. /\ \A v \in Worker : registrar[v].name \in Host
      /\ \A v \in Worker : processor[v].name \in Host
  BY RegistrarType, ProcessorType DEF SafetyInv
<1>2. \A v \in Worker : \A k \in DOMAIN acme_dns_registration_queue[v] :
        acme_dns_registration_queue[v][k].cname_name \in Host
  <2>1. \A v \in Worker :
          acme_dns_registration_queue[v] \in Seq(AcmeDnsRegistrationEvent)
    BY DEF SafetyInv, TypeOK
  <2>2. \A v \in Worker : \A k \in DOMAIN acme_dns_registration_queue[v] :
          acme_dns_registration_queue[v][k] \in AcmeDnsRegistrationEvent
    BY <2>1
  <2> QED BY <2>2 DEF AcmeDnsRegistrationEvent
<1>3. PassInv' /\ LoggedTargetBound'
  BY <1>1 DEF SafetyInv, PassInv, LoggedTargetBound, Registered
<1>4. StoreOwnsAccounts'
  BY DEF SafetyInv, StoreOwnsAccounts, Registered, AccountOf
<1>5. EventsHaveRegistrations'
  <2>1. ASSUME NEW v \in Worker, NEW k \in DOMAIN acme_dns_registration_queue'[v]
        PROVE  LET e == acme_dns_registration_queue'[v][k]
               IN /\ registration_store'[v][e.cname_name].account # 0
                  /\ e.cname_target
                       = registration_store'[v][e.cname_name].account
    BY <1>2 DEF SafetyInv, EventsHaveRegistrations, Registered
  <2>2. ASSUME NEW v \in Worker, processor'[v].i # 0
        PROVE  /\ registration_store'[v][processor'[v].name].account # 0
               /\ processor'[v].target
                    = registration_store'[v][processor'[v].name].account
    <3>1. /\ processor[v].i # 0
          /\ processor'[v].name = processor[v].name
          /\ processor'[v].target = processor[v].target
      BY <2>2
    <3> QED BY <1>1, <3>1 DEF SafetyInv, EventsHaveRegistrations, Registered
  <2> QED BY <2>1, <2>2 DEF EventsHaveRegistrations, Registered
<1>6. SecretTruth'
  BY SecretTruthKept, SameAccountsGrow DEF SafetyInv
<1> QED BY <1>3, <1>4, <1>5, <1>6

LEMMA EnsureCnameSafety ==
  ASSUME SafetyInv, TypeOK', NEW w \in Worker, EnsureCname(w)
  PROVE  SafetyInv'
<1>1. TypeOK /\ processor[w].i # 0 /\ CurrentProvider(w) \in Provider
  BY CurrentProviderType DEF SafetyInv, EnsureCname
<1>2. \A p \in Provider, b \in Base :
        \/ record'[p][b] = record[p][b]
        \/ b = processor[w].name.base /\ record'[p][b] = processor[w].target
  BY <1>1, ProcessorType DEF EnsureCname, TypeOK
<1>3. CnameTruth'
  BY <1>1, <1>2, RecordStep DEF EnsureCname, registrar_vars
<1>4. \A v \in Worker, h \in Host :
        registration_store'[v][h].account = registration_store[v][h].account
  BY <1>1, StoreType, ProcessorType DEF EnsureCname, Registration
<1>5. /\ \A v \in Worker \ {w} : processor'[v] = processor[v]
      /\ processor'[w].i # 0 =>
           /\ processor'[w].name = processor[w].name
           /\ processor'[w].target = processor[w].target
  BY <1>1, ProcessorType DEF EnsureCname, Advance, NewProcessor
<1> QED BY <1>1, <1>3, <1>4, <1>5, ProcessorKeeps
        DEF EnsureCname, registrar_vars, SafetyInv

LEMMA EnsureCnameFailsSafety ==
  ASSUME SafetyInv, TypeOK', NEW w \in Worker, EnsureCnameFails(w)
  PROVE  SafetyInv'
<1>1. TypeOK /\ processor[w].i # 0 /\ CurrentProvider(w) \in Provider
  BY CurrentProviderType DEF SafetyInv, EnsureCnameFails
<1>2. \A p \in Provider, b \in Base :
        \/ record'[p][b] \in {0, record[p][b]}
        \/ b = processor[w].name.base /\ record'[p][b] = processor[w].target
  <2>1. CASE UNCHANGED record
    BY <2>1
  <2>2. ASSUME NEW r \in AfterFailure(CurrentProvider(w),
                   record[CurrentProvider(w)][processor[w].name.base],
                   processor[w].target),
               record' = [record EXCEPT
                 ![CurrentProvider(w)][processor[w].name.base] = r]
        PROVE  \A p \in Provider, b \in Base :
                 \/ record'[p][b] \in {0, record[p][b]}
                 \/ /\ b = processor[w].name.base
                    /\ record'[p][b] = processor[w].target
    <3>1. r \in {0, record[CurrentProvider(w)][processor[w].name.base],
                 processor[w].target}
      BY DEF AfterFailure
    <3> QED BY <1>1, <2>2, <3>1, ProcessorType DEF TypeOK
  <2> QED BY <2>1, <2>2 DEF EnsureCnameFails
<1>3. CnameTruth'
  BY <1>1, <1>2, RecordStep DEF EnsureCnameFails, registrar_vars
<1>4. /\ \A v \in Worker \ {w} : processor'[v] = processor[v]
      /\ processor'[w].i = 0
  BY <1>1, ProcessorType DEF EnsureCnameFails, NewProcessor
<1> QED BY <1>1, <1>3, <1>4, ProcessorKeeps
        DEF EnsureCnameFails, registrar_vars, SafetyInv

\* Every step preserves the invariant.
LEMMA SafetyStep == SafetyInv /\ [Next]_vars => SafetyInv'
<1> SUFFICES ASSUME SafetyInv, [Next]_vars PROVE SafetyInv'
  OBVIOUS
<1>1. TypeOK'
  BY TypeStep DEF SafetyInv
<1>2. CASE Environment
  <2>1. ASSUME NEW g \in Ingress, NEW s \in IngressSpec, ApplyIngress(g, s)
        PROVE  SafetyInv'
    BY <1>1, <2>1, OutsideSafety DEF ApplyIngress, worker_vars
  <2>2. ASSUME NEW g \in Ingress, DeleteIngress(g) PROVE SafetyInv'
    BY <1>1, <2>2, OutsideSafety DEF DeleteIngress, worker_vars
  <2>3. ASSUME NEW w \in Worker, Start(w) PROVE SafetyInv'
    BY <1>1, <2>3, OutsideSafety DEF Start, worker_vars
  <2>4. ASSUME NEW w \in Worker, Crash(w) PROVE SafetyInv'
    BY <1>1, <2>4, CrashSafety
  <2> QED BY <1>2, <2>1, <2>2, <2>3, <2>4 DEF Environment
<1>3. ASSUME NEW w \in Worker, handle_k8s_watch_event(w) PROVE SafetyInv'
  BY <1>1, <1>3, OutsideSafety
     DEF handle_k8s_watch_event, registrar_vars, processor_vars
<1>4. ASSUME NEW w \in Worker, ACMEDnsRegistrar(w) PROVE SafetyInv'
  BY <1>1, <1>4, TakingSafety, RegisterAccountSafety, RegisterFailsSafety,
     ReadSecretSafety, PatchSecretSafety, FireEventSafety DEF ACMEDnsRegistrar
<1>5. ASSUME NEW w \in Worker, DnsProviderProcessor(w) PROVE SafetyInv'
  BY <1>1, <1>5, ReceiveSafety, EnsureCnameSafety, EnsureCnameFailsSafety
     DEF DnsProviderProcessor
<1>6. CASE UNCHANGED vars
  BY <1>1, <1>6, OutsideSafety DEF vars, registrar_vars, processor_vars
<1> QED BY <1>2, <1>3, <1>4, <1>5, <1>6 DEF Next

\* SafetyInv is an invariant of the pipeline.
THEOREM SafetyInvariant == Spec => []SafetyInv
<1>1. Init => SafetyInv
  BY SafetyInit
<1>2. SafetyInv /\ [Next]_vars => SafetyInv'
  BY SafetyStep
<1> QED BY <1>1, <1>2, PTL DEF Spec

\* The stores credit names with their own accounts only.
THEOREM StoresOwnAccounts == Spec => []StoreOwnsAccounts
<1>1. SafetyInv => StoreOwnsAccounts
  BY DEF SafetyInv
<1> QED BY <1>1, SafetyInvariant, PTL

\* The DnsProviderProcessor never meets an event without its registration.
THEOREM EventsAlwaysHaveRegistrations == Spec => []EventsHaveRegistrations
<1>1. SafetyInv => EventsHaveRegistrations
  BY DEF SafetyInv
<1> QED BY <1>1, SafetyInvariant, PTL

\* The log line of do_processing never reads an unbound local.
THEOREM LoggedTargetAlwaysBound == Spec => []LoggedTargetBound
<1>1. SafetyInv => LoggedTargetBound
  BY DEF SafetyInv
<1> QED BY <1>1, SafetyInvariant, PTL

\* The secret never holds a stranger's credentials under a name.
THEOREM SecretIsTruthful == Spec => []SecretTruth
<1>1. SafetyInv => SecretTruth
  BY DEF SafetyInv
<1> QED BY <1>1, SafetyInvariant, PTL

\* A CNAME record never points at a stranger's account.
THEOREM CnamesAreTruthful == Spec => []CnameTruth
<1>1. SafetyInv => CnameTruth
  BY DEF SafetyInv
<1> QED BY <1>1, SafetyInvariant, PTL

-----------------------------------------------------------------------------
(* What comes to light is in a running worker's store.                     *)

\* The secret is not touched outside the registrar's pass, nor the records
\* outside the processor's loop but for a cut, which leaves none.
NewKeysHeld ==
  \A k \in Host : secret'.entries[k] \notin {0, secret.entries[k]} =>
    \E h \in Host : WritesKey(h, k) /\ Holds(secret'.entries[k], h)
NewRecordsHeld ==
  \A p \in Provider, b \in Base : record'[p][b] \notin {0, record[p][b]} =>
    \E h \in Host : h.base = b /\ Holds(record'[p][b], h)

\* A call, however it ends, leaves a record as it was, removes it, or turns it
\* to the target.
LEMMA ProcessorWrites ==
  ASSUME SafetyInv, NEW w \in Worker, EnsureCname(w) \/ EnsureCnameFails(w)
  PROVE  /\ up[w] /\ processor[w].i # 0
         /\ \A p \in Provider, b \in Base :
              \/ record'[p][b] \in {0, record[p][b]}
              \/ /\ b = processor[w].name.base
                 /\ record'[p][b] = processor[w].target
<1>1. TypeOK /\ up[w] /\ processor[w].i # 0
  BY DEF SafetyInv, EnsureCname, EnsureCnameFails
<1>2. CurrentProvider(w) \in Provider
  BY <1>1, CurrentProviderType
<1>3. CASE EnsureCname(w)
  BY <1>1, <1>2, <1>3, ProcessorType DEF EnsureCname, TypeOK
<1>4. CASE EnsureCnameFails(w)
  <2>1. CASE UNCHANGED record
    BY <1>1, <2>1
  <2>2. ASSUME NEW r \in AfterFailure(CurrentProvider(w),
                   record[CurrentProvider(w)][processor[w].name.base],
                   processor[w].target),
               record' = [record EXCEPT
                 ![CurrentProvider(w)][processor[w].name.base] = r]
        PROVE  \A p \in Provider, b \in Base :
                 \/ record'[p][b] \in {0, record[p][b]}
                 \/ /\ b = processor[w].name.base
                    /\ record'[p][b] = processor[w].target
    <3>1. r \in {0, record[CurrentProvider(w)][processor[w].name.base],
                 processor[w].target}
      BY DEF AfterFailure
    <3> QED BY <1>1, <1>2, <2>2, <3>1, ProcessorType DEF TypeOK
  <2> QED BY <1>1, <1>4, <2>1, <2>2 DEF EnsureCnameFails
<1> QED BY <1>3, <1>4

LEMMA PatchedKeysAreHeld ==
  ASSUME SafetyInv, NEW w \in Worker, PatchSecret(w)
  PROVE  NewKeysHeld
<1>1. up[w] /\ secret'.entries = SecretData(registration_store[w])
  BY DEF PatchSecret
<1>2. \A k \in Host : secret'.entries[k] # 0 =>
        \E h \in Host : /\ WritesKey(h, k)
                        /\ secret'.entries[k] = registration_store[w][h].account
  BY <1>1, StoreType, SecretDataType DEF SafetyInv
<1> QED BY <1>1, <1>2 DEF NewKeysHeld, Holds

\* The processor's target is what the store holds.
LEMMA TargetIsHeld ==
  ASSUME SafetyInv, NEW w \in Worker, up[w], processor[w].i # 0,
         \A p \in Provider, b \in Base :
           \/ record'[p][b] \in {0, record[p][b]}
           \/ b = processor[w].name.base /\ record'[p][b] = processor[w].target
  PROVE  NewRecordsHeld
<1>1. processor[w].name \in Host
  BY TargetIsOwn
<1>2. Holds(processor[w].target, processor[w].name)
  BY DEF SafetyInv, EventsHaveRegistrations, Holds
<1> QED BY <1>1, <1>2 DEF NewRecordsHeld

\* Whatever fails and however many workers run, no account comes to light that
\* is in no running worker's store.
THEOREM OrphansStayUnseen == Spec => OrphansStayHidden
<1>1. ASSUME SafetyInv, [Next]_vars PROVE NewKeysHeld /\ NewRecordsHeld
  <2>1. CASE UNCHANGED <<secret, record>>
    BY <2>1 DEF NewKeysHeld, NewRecordsHeld
  <2>2. ASSUME NEW w \in Worker, Crash(w)
        PROVE  NewKeysHeld /\ NewRecordsHeld
    <3>1. UNCHANGED secret
      BY <2>2 DEF Crash
    <3>2. \A p \in Provider, b \in Base : record'[p][b] \in {0, record[p][b]}
      <4>1. CASE UNCHANGED record
        BY <4>1
      <4>2. CASE CutReplacement(w)
        <5>1. record \in [Provider -> [Base -> Nat]]
          BY <1>1 DEF SafetyInv, TypeOK
        <5> QED BY <4>2, <5>1 DEF CutReplacement
      <4> QED BY <2>2, <4>1, <4>2 DEF Crash
    <3> QED BY <3>1, <3>2 DEF NewKeysHeld, NewRecordsHeld
  <2>3. ASSUME NEW w \in Worker, PatchSecret(w)
        PROVE  NewKeysHeld /\ NewRecordsHeld
    BY <1>1, <2>3, PatchedKeysAreHeld
       DEF PatchSecret, processor_vars, NewRecordsHeld
  <2>4. ASSUME NEW w \in Worker, EnsureCname(w) \/ EnsureCnameFails(w)
        PROVE  NewKeysHeld /\ NewRecordsHeld
    <3>1. UNCHANGED secret
      BY <2>4 DEF EnsureCname, EnsureCnameFails, registrar_vars
    <3>2. /\ up[w] /\ processor[w].i # 0
          /\ \A p \in Provider, b \in Base :
               \/ record'[p][b] \in {0, record[p][b]}
               \/ /\ b = processor[w].name.base
                  /\ record'[p][b] = processor[w].target
      BY <1>1, <2>4, ProcessorWrites
    <3> QED BY <1>1, <3>1, <3>2, TargetIsHeld DEF NewKeysHeld
  <2>5. ASSUME NEW w \in Worker, ACMEDnsRegistrar(w), ~PatchSecret(w)
        PROVE  UNCHANGED <<secret, record>>
    BY <2>5 DEF ACMEDnsRegistrar, UpdateRegistration, DiscardEvent,
       BeginRegistration, Take, RegisterAccount, RegisterFails, ReadSecret,
       SecretStoreFails, FireEvent, processor_vars
  <2>6. CASE Environment /\ ~\E w \in Worker : Crash(w)
    BY <2>1, <2>6 DEF Environment, ApplyIngress, DeleteIngress, Start
  <2>7. ASSUME NEW w \in Worker,
               handle_k8s_watch_event(w) \/ ReceiveRegistrationEvent(w)
        PROVE  UNCHANGED <<secret, record>>
    BY <2>7 DEF handle_k8s_watch_event, ReceiveRegistrationEvent,
       registrar_vars, processor_vars
  <2>8. CASE UNCHANGED vars
    BY <2>1, <2>8 DEF vars, registrar_vars, processor_vars
  <2> QED BY <1>1, <2>1, <2>2, <2>3, <2>4, <2>5, <2>6, <2>7, <2>8
          DEF Next, DnsProviderProcessor, Environment
<1>2. SafetyInv /\ [Next]_vars
      => [/\ \A k \in Host : secret'.entries[k] \notin {0, secret.entries[k]} =>
               \E h \in Host : WritesKey(h, k) /\ Holds(secret'.entries[k], h)
          /\ \A p \in Provider, b \in Base :
               record'[p][b] \notin {0, record[p][b]} =>
                 \E h \in Host : h.base = b /\ Holds(record'[p][b], h)]_vars
  BY <1>1 DEF NewKeysHeld, NewRecordsHeld
<1> QED BY <1>2, SafetyInvariant, PTL DEF Spec, OrphansStayHidden
=============================================================================

----------------------- MODULE RegistrarAgreementProofs -----------------------
(***************************************************************************)
(* Proofs about the registration pipeline of one worker: credentials are   *)
(* in the secret before a record is turned to them, the provider that a    *)
(* registration reports holds its record, and once all is handled secret   *)
(* and records agree.                                                      *)
(***************************************************************************)
EXTENDS RegistrarProofs

-----------------------------------------------------------------------------
(* The conditions of the theorems.                                         *)

\* The names that Ingresses may ask for.
Named == {h \in Host : \E s \in IngressSpec :
            \E k \in DOMAIN extract_hosts(s) : extract_hosts(s)[k] = h}

OneWorker == \A v, w \in Worker : v = w
\* No name is asked for both plain and as wildcard.
NoneTwice == \A g, h \in Named : g.base = h.base => g = h
\* Updating the secret never fails.
SecretIsUpdated == "secret" \notin Faults /\ SeedAnnotated \subseteq {TRUE}
\* No call to a provider fails.
AllAnswer == "dns" \notin Faults

-----------------------------------------------------------------------------
(* What the actions do to the variables below.                             *)

Lasting == <<registration_store, acme_dns_registration_queue, processor,
             secret, record>>

\* Only the registrar thread of w moves, to pc and with name h.
Moves(w, pc, h) ==
  /\ registrar'[w].pc = pc
  /\ registrar'[w].name = h
  /\ registrar'[w].version \in {registrar[w].version, -1}
  /\ \A v \in Worker \ {w} : registrar'[v] = registrar[v]

\* The end of a pass.
LEMMA WaitMoves ==
  ASSUME TypeOK, NEW w \in Worker, Wait(w)
  PROVE  Moves(w, "get", AnyHost)
  BY RegistrarType DEF Wait, WaitingRegistrar, Moves

\* A pass begins, if the event is not dropped.
LEMMA TakingMoves ==
  ASSUME TypeOK, NEW w \in Worker,
         \/ UpdateRegistration(w) \/ DiscardEvent(w) \/ BeginRegistration(w)
  PROVE  /\ registrar[w].pc = "get" /\ UNCHANGED Lasting
         /\ \/ Moves(w, "get", AnyHost)
            \/ Moves(w, "read", NextEvent(w).domain_name)
            \/ Moves(w, "post", NextEvent(w).domain_name)
<1>1. Take(w)
  BY DEF UpdateRegistration, DiscardEvent, BeginRegistration
<1>2. registrar[w].pc = "get" /\ UNCHANGED Lasting
  BY <1>1 DEF Take, Lasting, processor_vars
<1>3. ASSUME NEW pc \in {"read", "post"}, NEW h, Proceed(w, pc, h)
      PROVE  Moves(w, pc, h)
  BY <1>3, RegistrarType DEF Proceed, Moves, RegistrarLocals
<1>4. CASE UpdateRegistration(w)
  BY <1>2, <1>3, <1>4, WaitMoves DEF UpdateRegistration
<1>5. CASE DiscardEvent(w)
  BY <1>2, <1>5, WaitMoves DEF DiscardEvent
<1>6. CASE BeginRegistration(w)
  BY <1>2, <1>3, <1>6 DEF BeginRegistration
<1> QED BY <1>4, <1>5, <1>6

\* A new registration; all others stay.
LEMMA RegisterEffect ==
  ASSUME TypeOK, NEW w \in Worker, RegisterAccount(w)
  PROVE  /\ registrar[w].pc = "post" /\ registrar[w].name \in Host
         /\ Moves(w, "read", registrar[w].name)
         /\ registration_store'[w][registrar[w].name]
              = [account |-> Len(accounts'), provider |-> NoProvider]
         /\ \A v \in Worker, h \in Host : v # w \/ h # registrar[w].name =>
              registration_store'[v][h] = registration_store[v][h]
         /\ UNCHANGED <<acme_dns_registration_queue, processor, secret, record>>
<1>1. Moves(w, "read", registrar[w].name)
  BY RegistrarType DEF RegisterAccount, Moves, RegistrarLocals
<1>2. /\ registration_store'[w][registrar[w].name]
              = [account |-> Len(accounts'), provider |-> NoProvider]
      /\ \A v \in Worker, h \in Host : v # w \/ h # registrar[w].name =>
              registration_store'[v][h] = registration_store[v][h]
  BY RegistrarType, StoreType DEF RegisterAccount
<1> QED BY <1>1, <1>2, RegistrarType DEF RegisterAccount, processor_vars

\* A failed registration is the end of the pass.
LEMMA RegisterFailsMoves ==
  ASSUME TypeOK, NEW w \in Worker, RegisterFails(w)
  PROVE  /\ registrar[w].pc = "post"
         /\ Moves(w, "get", AnyHost) /\ UNCHANGED Lasting
  BY WaitMoves DEF RegisterFails, Lasting, processor_vars

\* The version read is the secret's.
LEMMA ReadEffect ==
  ASSUME TypeOK, NEW w \in Worker, ReadSecret(w)
  PROVE  /\ registrar[w].pc = "read"
         /\ registrar'[w].pc = "patch"
         /\ registrar'[w].name = registrar[w].name
         /\ registrar'[w].version = secret.version
         /\ secret.version # NoMap
         /\ \A v \in Worker \ {w} : registrar'[v] = registrar[v]
         /\ UNCHANGED Lasting
  BY RegistrarType DEF ReadSecret, Lasting, processor_vars, RegistrarLocals

\* The secret is replaced by the data of the store.
LEMMA PatchEffect ==
  ASSUME TypeOK, NEW w \in Worker, PatchSecret(w)
  PROVE  /\ registrar[w].pc = "patch"
         /\ Moves(w, "fire", registrar[w].name)
         /\ secret'.entries = SecretData(registration_store[w])
         /\ secret'.version = registrar[w].version + 1
         /\ UNCHANGED <<registration_store, acme_dns_registration_queue,
                        processor, record>>
  BY RegistrarType DEF PatchSecret, Moves, processor_vars, RegistrarLocals

\* A failed update of the secret changes nothing else.
LEMMA SecretStoreFailsMoves ==
  ASSUME TypeOK, NEW w \in Worker, SecretStoreFails(w)
  PROVE  /\ registrar[w].pc \in {"read", "patch"}
         /\ Moves(w, "fire", registrar[w].name) /\ UNCHANGED Lasting
  BY RegistrarType
     DEF SecretStoreFails, Lasting, Moves, processor_vars, RegistrarLocals

\* One event joins the queue of registration events.
LEMMA FireEffect ==
  ASSUME SafetyInv, NEW w \in Worker, FireEvent(w)
  PROVE  /\ registrar[w].pc = "fire"
         /\ Moves(w, "get", AnyHost)
         /\ \A v \in Worker \ {w} :
              acme_dns_registration_queue'[v] = acme_dns_registration_queue[v]
         /\ \A k \in DOMAIN acme_dns_registration_queue[w] :
              /\ k \in DOMAIN acme_dns_registration_queue'[w]
              /\ acme_dns_registration_queue'[w][k]
                   = acme_dns_registration_queue[w][k]
         /\ \E k \in DOMAIN acme_dns_registration_queue'[w] :
              acme_dns_registration_queue'[w][k].cname_name = registrar[w].name
         /\ \A k \in DOMAIN acme_dns_registration_queue'[w] :
              \/ k \in DOMAIN acme_dns_registration_queue[w]
              \/ acme_dns_registration_queue'[w][k] =
                   [cname_name |-> registrar[w].name,
                    cname_target |->
                      registration_store[w][registrar[w].name].account]
         /\ UNCHANGED <<registration_store, processor, secret, record>>
<1> DEFINE q == acme_dns_registration_queue[w]
           e == [cname_name |-> registrar[w].name,
                 cname_target |->
                   registration_store[w][registrar[w].name].account]
<1>1. /\ q \in Seq(AcmeDnsRegistrationEvent)
      /\ acme_dns_registration_queue' =
           [acme_dns_registration_queue EXCEPT ![w] = Append(q, e)]
      /\ acme_dns_registration_queue
           \in [Worker -> Seq(AcmeDnsRegistrationEvent)]
      /\ e.cname_name = registrar[w].name
  BY DEF FireEvent, SafetyInv, TypeOK
<1>6. e \in AcmeDnsRegistrationEvent
  BY RegistrarType, StoreType DEF SafetyInv, AcmeDnsRegistrationEvent
<1> HIDE DEF e
<1>2. /\ acme_dns_registration_queue'[w] = Append(q, e)
      /\ \A v \in Worker \ {w} :
           acme_dns_registration_queue'[v] = acme_dns_registration_queue[v]
  BY <1>1
<1> HIDE DEF q
<1>3. /\ DOMAIN Append(q, e) = 1..(Len(q) + 1) /\ DOMAIN q = 1..Len(q)
      /\ Len(q) \in Nat
      /\ Append(q, e)[Len(q) + 1] = e
      /\ \A k \in 1..Len(q) : Append(q, e)[k] = q[k]
  BY <1>1, <1>6
<1>4. /\ \A k \in DOMAIN q : /\ k \in DOMAIN Append(q, e)
                             /\ Append(q, e)[k] = q[k]
      /\ \E k \in DOMAIN Append(q, e) :
           Append(q, e)[k].cname_name = registrar[w].name
      /\ \A k \in DOMAIN Append(q, e) : k \in DOMAIN q \/ Append(q, e)[k] = e
  <2>1. Append(q, e)[Len(q) + 1].cname_name = registrar[w].name
    BY <1>1, <1>3
  <2>2. /\ Len(q) + 1 \in DOMAIN Append(q, e)
        /\ DOMAIN q \subseteq DOMAIN Append(q, e)
        /\ \A k \in DOMAIN Append(q, e) : k \in DOMAIN q \/ k = Len(q) + 1
    BY <1>3
  <2> QED BY <1>3, <2>1, <2>2
<1>5. registrar[w].pc = "fire" /\ Moves(w, "get", AnyHost)
      /\ UNCHANGED <<registration_store, processor, secret, record>>
  BY WaitMoves DEF FireEvent, SafetyInv, processor_vars
<1> QED BY <1>2, <1>4, <1>5 DEF q, e

\* The processor takes up the first event, if there is a provider.
LEMMA ReceiveEffect ==
  ASSUME SafetyInv, NEW w \in Worker, ReceiveRegistrationEvent(w)
  PROVE  LET q == acme_dns_registration_queue
         IN /\ 1 \in DOMAIN q[w]
            /\ processor[w].i = 0
            /\ processor'[w] = Advance(0, q[w][1].cname_name, q[w][1].cname_target)
            /\ \A k \in DOMAIN q'[w] : k + 1 \in DOMAIN q[w] /\ q'[w][k] = q[w][k + 1]
            /\ \A k \in DOMAIN q[w] : k = 1 \/ (/\ k - 1 \in DOMAIN q'[w]
                                                /\ q'[w][k - 1] = q[w][k])
            /\ \A v \in Worker \ {w} : q'[v] = q[v] /\ processor'[v] = processor[v]
            /\ UNCHANGED <<registrar, registration_store, secret, record>>
<1> DEFINE q == acme_dns_registration_queue[w]
<1>1. /\ q \in Seq(AcmeDnsRegistrationEvent) /\ q # <<>>
      /\ acme_dns_registration_queue'[w] = Tail(q)
      /\ \A v \in Worker \ {w} :
           /\ acme_dns_registration_queue'[v] = acme_dns_registration_queue[v]
           /\ processor'[v] = processor[v]
  BY DEF ReceiveRegistrationEvent, SafetyInv, TypeOK
<1>2. processor'[w] = IF Registered(w, Head(q).cname_name)
                      THEN Advance(0, Head(q).cname_name, Head(q).cname_target)
                      ELSE NewProcessor
  BY DEF ReceiveRegistrationEvent, SafetyInv, TypeOK
<1>3. 1 \in DOMAIN q /\ Head(q) = q[1]
  BY <1>1
<1>4. Registered(w, q[1].cname_name)
  BY <1>3 DEF SafetyInv, EventsHaveRegistrations
<1>5. /\ \A k \in DOMAIN Tail(q) : k + 1 \in DOMAIN q /\ Tail(q)[k] = q[k + 1]
      /\ \A k \in DOMAIN q : k = 1 \/ (/\ k - 1 \in DOMAIN Tail(q)
                                       /\ Tail(q)[k - 1] = q[k])
  BY <1>1
<1>6. processor[w].i = 0
      /\ UNCHANGED <<registrar, registration_store, secret, record>>
  BY DEF ReceiveRegistrationEvent, registrar_vars
<1> QED BY <1>1, <1>2, <1>3, <1>4, <1>5, <1>6

\* One record is turned and reported; the loop goes on.
LEMMA EnsureEffect ==
  ASSUME SafetyInv, NEW w \in Worker, EnsureCname(w)
  PROVE  /\ processor[w].i \in 1..Len(dns_providers)
         /\ processor[w].name \in Host /\ processor[w].name.base \in Base
         /\ processor[w].target
              = registration_store[w][processor[w].name].account
         /\ CurrentProvider(w) \in Provider
         /\ \A p \in Provider, b \in Base :
              record'[p][b] = IF p = CurrentProvider(w) /\ b = processor[w].name.base
                              THEN processor[w].target ELSE record[p][b]
         /\ \A v \in Worker, h \in Host :
              /\ registration_store'[v][h].account
                   = registration_store[v][h].account
              /\ registration_store'[v][h].provider
                   = IF v = w /\ h = processor[w].name THEN CurrentProvider(w)
                     ELSE registration_store[v][h].provider
         /\ processor'[w] = Advance(processor[w].i, processor[w].name,
                                    processor[w].target)
         /\ \A v \in Worker \ {w} : processor'[v] = processor[v]
         /\ UNCHANGED <<registrar, acme_dns_registration_queue, secret>>
<1>1. TypeOK /\ processor[w].i # 0 /\ CurrentProvider(w) \in Provider
  BY CurrentProviderType DEF EnsureCname, SafetyInv
<1>2. /\ processor[w].i \in 1..Len(dns_providers)
      /\ processor[w].name \in Host /\ processor[w].name.base \in Base
  BY <1>1, ProcessorType, ConstantsAssumption DEF ProcessorLocals, Host
<1>3. processor[w].target = registration_store[w][processor[w].name].account
  BY <1>1 DEF SafetyInv, EventsHaveRegistrations
<1>4. \A p \in Provider, b \in Base :
        record'[p][b] = IF p = CurrentProvider(w) /\ b = processor[w].name.base
                        THEN processor[w].target ELSE record[p][b]
  BY <1>1, <1>2 DEF EnsureCname, TypeOK
<1>5. \A v \in Worker, h \in Host :
        /\ registration_store'[v][h].account = registration_store[v][h].account
        /\ registration_store'[v][h].provider
             = IF v = w /\ h = processor[w].name THEN CurrentProvider(w)
               ELSE registration_store[v][h].provider
  BY <1>1, <1>2, StoreType DEF EnsureCname, Registration
<1>6. /\ processor'[w] = Advance(processor[w].i, processor[w].name,
                                 processor[w].target)
      /\ \A v \in Worker \ {w} : processor'[v] = processor[v]
  BY <1>1, ProcessorType DEF EnsureCname
<1> QED BY <1>1, <1>2, <1>3, <1>4, <1>5, <1>6 DEF EnsureCname, registrar_vars

\* What a failed call does besides to the record.
LEMMA EnsureFailsEffect ==
  ASSUME TypeOK, NEW w \in Worker, EnsureCnameFails(w)
  PROVE  /\ processor[w].i # 0
         /\ processor'[w].i = 0
         /\ \A v \in Worker \ {w} : processor'[v] = processor[v]
         /\ UNCHANGED <<registrar, registration_store,
                        acme_dns_registration_queue, secret>>
  BY ProcessorType DEF EnsureCnameFails, NewProcessor, registrar_vars

\* The memory of a crashed worker.
LEMMA CrashEffect ==
  ASSUME TypeOK, NEW w \in Worker, Crash(w)
  PROVE  /\ Moves(w, "get", AnyHost)
         /\ acme_dns_registration_queue'[w] = <<>>
         /\ domain_name_event_queue'[w] = <<>>
         /\ processor'[w].i = 0
         /\ \A h \in Host : registration_store'[w][h] = NoRegistration
         /\ \A v \in Worker \ {w} :
              /\ registration_store'[v] = registration_store[v]
              /\ acme_dns_registration_queue'[v] = acme_dns_registration_queue[v]
              /\ domain_name_event_queue'[v] = domain_name_event_queue[v]
              /\ processor'[v] = processor[v]
         /\ UNCHANGED secret
  BY DEF Crash, TypeOK, NewRegistrar, WaitingRegistrar, NewProcessor,
     EmptyStore, Moves

\* The rest of the world: nothing of all this.
LEMMA OutsideEffect ==
  ASSUME \/ \E g \in Ingress, s \in IngressSpec : ApplyIngress(g, s)
         \/ \E g \in Ingress : DeleteIngress(g)
         \/ \E w \in Worker : Start(w) \/ handle_k8s_watch_event(w)
         \/ UNCHANGED vars
  PROVE  UNCHANGED registrar /\ UNCHANGED Lasting
  BY DEF ApplyIngress, DeleteIngress, Start, handle_k8s_watch_event, vars,
     worker_vars, registrar_vars, processor_vars, Lasting

\* The loop goes on with the same name and target.
LEMMA AdvanceFields ==
  ASSUME NEW i, NEW h, NEW t, Advance(i, h, t).i # 0
  PROVE  /\ Advance(i, h, t).i = i + 1
         /\ Advance(i, h, t).name = h
         /\ Advance(i, h, t).target = t
         /\ i < Len(dns_providers)
  BY DEF Advance, NewProcessor

\* Only the processor turns a record, to the target of its event.
LEMMA TurnedByProcessor ==
  ASSUME TypeOK, [Next]_vars, NEW p \in Provider, NEW b \in Base,
         record'[p][b] \notin {0, record[p][b]}
  PROVE  \E w \in Worker : /\ processor[w].i # 0
                           /\ processor[w].name.base = b
                           /\ record'[p][b] = processor[w].target
<1>1. ASSUME NEW w \in Worker, NEW r,
             record' = [record EXCEPT ![CurrentProvider(w)][processor[w].name.base]
                          = r]
      PROVE  record'[p][b] = record[p][b]
             \/ (processor[w].name.base = b /\ record'[p][b] = r)
  BY <1>1 DEF TypeOK
<1>2. ASSUME NEW w \in Worker, EnsureCname(w)
      PROVE  processor[w].i # 0 /\ processor[w].name.base = b
             /\ record'[p][b] = processor[w].target
  BY <1>1, <1>2 DEF EnsureCname
<1>3. ASSUME NEW w \in Worker, EnsureCnameFails(w)
      PROVE  processor[w].i # 0 /\ processor[w].name.base = b
             /\ record'[p][b] = processor[w].target
  <2>1. PICK r \in AfterFailure(CurrentProvider(w),
                 record[CurrentProvider(w)][processor[w].name.base],
                 processor[w].target) :
          record' = [record EXCEPT ![CurrentProvider(w)][processor[w].name.base]
                       = r]
    BY <1>3 DEF EnsureCnameFails
  <2>2. processor[w].name.base = b /\ record'[p][b] = r
    BY <1>1, <2>1
  <2>3. p = CurrentProvider(w)
    BY <2>1, <2>2 DEF TypeOK
  <2>4. r = processor[w].target
    BY <2>2, <2>3, <2>1 DEF AfterFailure
  <2> QED BY <1>3, <2>2, <2>4 DEF EnsureCnameFails
<1>4. ASSUME NEW w \in Worker, Crash(w) PROVE FALSE
  BY <1>1, <1>4 DEF Crash, CutReplacement
<1>5. CASE record' = record
  BY <1>5
<1>6. CASE \E w \in Worker : EnsureCname(w) \/ EnsureCnameFails(w) \/ Crash(w)
  BY <1>2, <1>3, <1>4, <1>6
<1>7. record' = record
      \/ \E w \in Worker : EnsureCname(w) \/ EnsureCnameFails(w) \/ Crash(w)
  <2>1. ASSUME NEW w \in Worker, ACMEDnsRegistrar(w) PROVE record' = record
    BY <2>1, TakingMoves, RegisterEffect, RegisterFailsMoves, ReadEffect,
       PatchEffect, SecretStoreFailsMoves
       DEF ACMEDnsRegistrar, Lasting, FireEvent, processor_vars
  <2>2. ASSUME NEW w \in Worker, ReceiveRegistrationEvent(w)
        PROVE  record' = record
    BY <2>2 DEF ReceiveRegistrationEvent
  <2> QED BY <2>1, <2>2, OutsideEffect
          DEF Next, Environment, DnsProviderProcessor, Lasting
<1> QED BY <1>5, <1>6, <1>7

-----------------------------------------------------------------------------
(* Only names that Ingresses ask for are ever dealt with.                  *)

NamesInv ==
  \A w \in Worker :
    /\ \A k \in DOMAIN domain_name_event_queue[w] :
         domain_name_event_queue[w][k].domain_name \in Named
    /\ registrar[w].pc # "get" => registrar[w].name \in Named
    /\ \A h \in Host : Registered(w, h) => h \in Named

\* The hosts of a watch event are asked for.
LEMMA HandleNames ==
  ASSUME TypeOK, NamesInv, NEW w \in Worker, handle_k8s_watch_event(w)
  PROVE  NamesInv'
<1> DEFINE e == Head(watch[w])
           hosts == extract_hosts(e.spec)
           new == [k \in 1..Len(hosts) |-> [type |-> e.type,
                                            domain_name |-> hosts[k]]]
           q == domain_name_event_queue[w]
<1>1. e \in WatchEvent
  BY DEF handle_k8s_watch_event, TypeOK
<1>2. hosts \in Seq(Host) /\ e.spec \in IngressSpec
  BY <1>1, ConstantsAssumption DEF extract_hosts, WatchEvent
<1>3. \A k \in 1..Len(hosts) : hosts[k] \in Named
  <2>1. \A k \in 1..Len(hosts) : hosts[k] \in Host /\ k \in DOMAIN hosts
    BY <1>2
  <2> QED BY <1>2, <2>1 DEF Named
<1>4. /\ domain_name_event_queue'
           = [domain_name_event_queue EXCEPT ![w] = q \o new]
      /\ q \in Seq(DomainNameEvent)
      /\ domain_name_event_queue \in [Worker -> Seq(DomainNameEvent)]
  BY DEF handle_k8s_watch_event, TypeOK
<1>5. DOMAIN new = 1..Len(hosts) /\ Len(hosts) \in Nat
      /\ \A k \in 1..Len(hosts) : new[k].domain_name = hosts[k]
  BY <1>2
<1>10. new \in Seq(DomainNameEvent)
  <2>1. \A k \in 1..Len(hosts) : new[k] \in DomainNameEvent
    BY <1>1, <1>2 DEF WatchEvent, DomainNameEvent
  <2>2. new = [k \in 1..Len(hosts) |-> new[k]]
    OBVIOUS
  <2> HIDE DEF new, hosts
  <2> QED BY <1>5, <2>1, <2>2
<1> HIDE DEF new, hosts
<1>6. Len(new) = Len(hosts)
  BY <1>5, <1>10
<1>7. \A k \in DOMAIN (q \o new) :
        \/ k \in DOMAIN q /\ (q \o new)[k] = q[k]
        \/ \E j \in 1..Len(hosts) : (q \o new)[k] = new[j]
  BY <1>4, <1>5, <1>6, <1>10
<1>8. \A v \in Worker : \A k \in DOMAIN domain_name_event_queue'[v] :
        domain_name_event_queue'[v][k].domain_name \in Named
  <2>1. /\ domain_name_event_queue'[w] = q \o new
        /\ \A v \in Worker \ {w} :
             domain_name_event_queue'[v] = domain_name_event_queue[v]
    BY <1>4
  <2>2. \A k \in DOMAIN q : q[k].domain_name \in Named
    BY DEF NamesInv
  <2> HIDE DEF q
  <2>3. \A j \in 1..Len(hosts) : new[j].domain_name \in Named
    BY <1>3, <1>5
  <2>4. \A k \in DOMAIN (q \o new) : (q \o new)[k].domain_name \in Named
    BY <1>7, <2>2, <2>3
  <2>5. ASSUME NEW v \in Worker \ {w}, NEW k \in DOMAIN domain_name_event_queue'[v]
        PROVE  domain_name_event_queue'[v][k].domain_name \in Named
    BY <2>1, <2>5 DEF NamesInv
  <2> QED BY <2>1, <2>4, <2>5
<1>9. UNCHANGED <<registrar, registration_store>>
  BY DEF handle_k8s_watch_event, registrar_vars
<1> QED BY <1>8, <1>9 DEF NamesInv, Registered

\* Taking an event hands its name to the pass.
LEMMA TakingNames ==
  ASSUME TypeOK, NamesInv, NEW w \in Worker,
         \/ UpdateRegistration(w) \/ DiscardEvent(w) \/ BeginRegistration(w)
  PROVE  NamesInv'
<1> DEFINE q == domain_name_event_queue
<1>1. Take(w) /\ q[w] \in Seq(DomainNameEvent) /\ q[w] # <<>>
  BY DEF UpdateRegistration, DiscardEvent, BeginRegistration, Take, TypeOK
<1>2. /\ q'[w] = Tail(q[w])
      /\ \A v \in Worker \ {w} : q'[v] = q[v]
      /\ 1 \in DOMAIN q[w] /\ NextEvent(w) = q[w][1]
      /\ \A k \in DOMAIN Tail(q[w]) :
           k + 1 \in DOMAIN q[w] /\ Tail(q[w])[k] = q[w][k + 1]
  BY <1>1 DEF Take, TypeOK, NextEvent
<1>3. NextEvent(w).domain_name \in Named
  BY <1>2 DEF NamesInv
<1>4. /\ UNCHANGED registration_store
      /\ registrar'[w].pc # "get" => registrar'[w].name \in Named
  BY <1>3, TakingMoves DEF Moves, Lasting
<1>5. \A v \in Worker \ {w} : registrar'[v] = registrar[v]
  BY TakingMoves DEF Moves
<1>6. \A v \in Worker : \A k \in DOMAIN q'[v] : q'[v][k].domain_name \in Named
  <2>1. ASSUME NEW k \in DOMAIN Tail(q[w])
        PROVE  Tail(q[w])[k].domain_name \in Named
    <3>1. k + 1 \in DOMAIN q[w] /\ Tail(q[w])[k] = q[w][k + 1]
      BY <1>2, <2>1
    <3> QED BY <3>1 DEF NamesInv
  <2>2. ASSUME NEW v \in Worker \ {w}, NEW k \in DOMAIN q'[v]
        PROVE  q'[v][k].domain_name \in Named
    BY <1>2, <2>2 DEF NamesInv
  <2> QED BY <1>2, <2>1, <2>2
<1>7. \A v \in Worker : registrar'[v].pc # "get" => registrar'[v].name \in Named
  BY <1>4, <1>5 DEF NamesInv
<1> QED BY <1>4, <1>6, <1>7 DEF NamesInv, Registered

\* Steps that leave the events alone.
LEMMA OtherNames ==
  ASSUME NamesInv, NEW w \in Worker, UNCHANGED domain_name_event_queue,
         \A v \in Worker \ {w} : registrar'[v] = registrar[v],
         \/ registrar'[w].pc = "get"
         \/ registrar[w].pc # "get" /\ registrar'[w].name = registrar[w].name,
         \A v \in Worker, h \in Host :
           \/ registration_store'[v][h].account = registration_store[v][h].account
           \/ v = w /\ h = registrar[w].name /\ registrar[w].pc # "get"
  PROVE  NamesInv'
  BY DEF NamesInv, Registered

\* Every step keeps it.
LEMMA NamesStep == SafetyInv /\ NamesInv /\ [Next]_vars => NamesInv'
<1> SUFFICES ASSUME SafetyInv, NamesInv, [Next]_vars PROVE NamesInv'
  OBVIOUS
<1>1. TypeOK
  BY DEF SafetyInv
<1>2. ASSUME NEW w \in Worker, Crash(w) PROVE NamesInv'
  BY <1>1, <1>2, CrashEffect DEF NamesInv, Moves, Registered, NoRegistration
<1>3. ASSUME NEW w \in Worker, ACMEDnsRegistrar(w) PROVE NamesInv'
  <2>1. CASE UpdateRegistration(w) \/ DiscardEvent(w) \/ BeginRegistration(w)
    BY <1>1, <2>1, TakingNames
  <2>2. CASE RegisterAccount(w)
    <3>1. UNCHANGED domain_name_event_queue
      BY <2>2 DEF RegisterAccount, watcher_vars
    <3> QED BY <1>1, <2>2, <3>1, RegisterEffect, OtherNames DEF Moves
  <2>3. CASE RegisterFails(w)
    <3>1. UNCHANGED domain_name_event_queue
      BY <2>3 DEF RegisterFails, watcher_vars
    <3> QED BY <1>1, <2>3, <3>1, RegisterFailsMoves, OtherNames DEF Moves, Lasting
  <2>4. CASE ReadSecret(w)
    <3>1. UNCHANGED domain_name_event_queue
      BY <2>4 DEF ReadSecret, watcher_vars
    <3> QED BY <1>1, <2>4, <3>1, ReadEffect, OtherNames DEF Lasting
  <2>5. CASE PatchSecret(w)
    <3>1. UNCHANGED domain_name_event_queue
      BY <2>5 DEF PatchSecret, watcher_vars
    <3> QED BY <1>1, <2>5, <3>1, PatchEffect, OtherNames DEF Moves
  <2>6. CASE SecretStoreFails(w)
    <3>1. UNCHANGED domain_name_event_queue
      BY <2>6 DEF SecretStoreFails, watcher_vars
    <3> QED BY <1>1, <2>6, <3>1, SecretStoreFailsMoves, OtherNames
            DEF Moves, Lasting
  <2>7. CASE FireEvent(w)
    <3>1. UNCHANGED domain_name_event_queue
      BY <2>7 DEF FireEvent, watcher_vars
    <3> QED BY <1>1, <2>7, <3>1, FireEffect, OtherNames DEF Moves
  <2> QED BY <1>3, <2>1, <2>2, <2>3, <2>4, <2>5, <2>6, <2>7
          DEF ACMEDnsRegistrar
<1>4. ASSUME NEW w \in Worker, DnsProviderProcessor(w) PROVE NamesInv'
  <2>1. UNCHANGED <<domain_name_event_queue, registrar>>
    BY <1>4 DEF DnsProviderProcessor, ReceiveRegistrationEvent, EnsureCname,
       EnsureCnameFails, watcher_vars, registrar_vars
  <2>2. \A v \in Worker, h \in Host :
          registration_store'[v][h].account = registration_store[v][h].account
    BY <1>1, <1>4, EnsureEffect, EnsureFailsEffect, ReceiveEffect
       DEF DnsProviderProcessor
  <2> QED BY <2>1, <2>2 DEF NamesInv, Registered
<1>5. ASSUME NEW w \in Worker, handle_k8s_watch_event(w) PROVE NamesInv'
  BY <1>1, <1>5, HandleNames
<1>6. CASE \/ \E g \in Ingress, s \in IngressSpec : ApplyIngress(g, s)
           \/ \E g \in Ingress : DeleteIngress(g)
           \/ \E w \in Worker : Start(w)
           \/ UNCHANGED vars
  <2>1. UNCHANGED <<domain_name_event_queue, registrar, registration_store>>
    BY <1>6 DEF ApplyIngress, DeleteIngress, Start, worker_vars, vars,
       watcher_vars, registrar_vars
  <2> QED BY <2>1 DEF NamesInv, Registered
<1> QED BY <1>2, <1>3, <1>4, <1>5, <1>6 DEF Next, Environment

\* So it always holds.
LEMMA NamesInvariant == Spec => []NamesInv
<1>1. Init => NamesInv
  BY DEF Init, NamesInv, NewRegistrar, WaitingRegistrar, Registered,
     EmptyStore, NoRegistration
<1>2. SafetyInv /\ NamesInv /\ [Next]_vars => NamesInv'
  BY NamesStep
<1> QED BY <1>1, <1>2, SafetyInvariant, PTL DEF Spec

-----------------------------------------------------------------------------
(* What is to be turned is in the secret.                                  *)

InSecret(h, a) == secret.entries[Stripped(h)] = a

\* The pass that will write h's account to the secret is on its way.
Writing(w, h) ==
  registrar[w].pc \in {"read", "patch"} /\ registrar[w].name = h

VersionsRead ==
  /\ secret.version >= -1
  /\ \A w \in Worker : registrar[w].version >= -1
StoreInSecret ==
  \A w \in Worker, h \in Host :
    Registered(w, h) => \/ Writing(w, h)
                        \/ InSecret(h, registration_store[w][h].account)
EventsInSecret ==
  \A w \in Worker :
    /\ \A k \in DOMAIN acme_dns_registration_queue[w] :
         InSecret(acme_dns_registration_queue[w][k].cname_name,
                  acme_dns_registration_queue[w][k].cname_target)
    /\ processor[w].i # 0 => InSecret(processor[w].name, processor[w].target)
PublishInv == VersionsRead /\ StoreInSecret /\ EventsInSecret

\* If no name is asked for both plain and as wildcard, the data written to the
\* secret holds each name's account under the key that is looked up.
LEMMA OneWriter ==
  ASSUME NEW st \in [Host -> Registration], NoneTwice,
         \A g \in Host : st[g].account # 0 => g \in Named,
         NEW h \in Host, st[h].account # 0
  PROVE  SecretData(st)[Stripped(h)] = st[h].account
<1> DEFINE W == Writers(st, Stripped(h))
<1>1. Stripped(h) \in Host
  BY StrippedType
<1>2. h \in W
  BY DEF Writers, WritesKey, Stripped, Host
<1>3. ASSUME NEW g \in W PROVE g = h
  <2>1. g \in Host /\ g \in Named /\ h \in Named
    BY DEF Writers
  <2>2. g.base = h.base
    BY DEF Writers, WritesKey, Stripped
  <2> QED BY <2>1, <2>2 DEF NoneTwice
<1>4. LastOf(st, W) = h
  BY <1>1, <1>2, <1>3, LastOfIsWriter
<1> QED BY <1>1, <1>2, <1>4 DEF SecretData

\* The type of a queued registration event on its own.
LEMMA QueuedEventType ==
  ASSUME TypeOK, NEW w \in Worker,
         NEW k \in DOMAIN acme_dns_registration_queue[w]
  PROVE  /\ acme_dns_registration_queue[w][k] \in AcmeDnsRegistrationEvent
         /\ acme_dns_registration_queue[w][k].cname_name \in Host
<1>1. acme_dns_registration_queue[w] \in Seq(AcmeDnsRegistrationEvent)
  BY DEF TypeOK
<1>2. acme_dns_registration_queue[w][k] \in AcmeDnsRegistrationEvent
  BY <1>1
<1> QED BY <1>2 DEF AcmeDnsRegistrationEvent

\* After a patch every registered name is in the secret.
LEMMA PatchPublishes ==
  ASSUME SafetyInv, NamesInv, NoneTwice, NEW w \in Worker, PatchSecret(w),
         NEW h \in Host, Registered(w, h)
  PROVE  InSecret(h, registration_store[w][h].account)'
<1>1. TypeOK
  BY DEF SafetyInv
<1>2. /\ registration_store[w] \in [Host -> Registration]
      /\ registration_store[w][h].account # 0
      /\ \A g \in Host : registration_store[w][g].account # 0 => g \in Named
  BY <1>1, StoreType DEF NamesInv, Registered
<1>3. SecretData(registration_store[w])[Stripped(h)]
        = registration_store[w][h].account
  BY <1>2, OneWriter
<1> QED BY <1>1, <1>3, PatchEffect DEF InSecret

\* A pass that is not writing moves, and nothing else changes.
LEMMA PublishKept ==
  ASSUME OneWorker, PublishInv, NEW w \in Worker, UNCHANGED Lasting,
         registrar'[w].version >= -1,
         \/ registrar[w].pc \notin {"read", "patch"}
         \/ /\ registrar'[w].pc \in {"read", "patch"}
            /\ registrar'[w].name = registrar[w].name
  PROVE  PublishInv'
<1>1. \A v \in Worker : v = w
  BY DEF OneWorker
<1>2. VersionsRead'
  BY <1>1 DEF PublishInv, VersionsRead, Lasting
<1>3. StoreInSecret'
  BY <1>1 DEF PublishInv, StoreInSecret, Lasting, Registered, InSecret, Writing
<1>4. EventsInSecret'
  BY DEF PublishInv, EventsInSecret, Lasting, InSecret
<1> QED BY <1>2, <1>3, <1>4 DEF PublishInv

\* Every step keeps the invariant: the event that makes the processor turn a
\* record is fired after the patch.
LEMMA PublishStep ==
  ASSUME OneWorker, NoneTwice, SecretIsUpdated
  PROVE  SafetyInv /\ NamesInv /\ PublishInv /\ [Next]_vars => PublishInv'
<1> SUFFICES ASSUME SafetyInv, NamesInv, PublishInv, [Next]_vars
             PROVE  PublishInv'
  OBVIOUS
<1>1. TypeOK
  BY DEF SafetyInv
<1>2. ASSUME NEW w \in Worker PROVE \A v \in Worker : v = w
  BY DEF OneWorker
<1>a. \A w \in Worker : registrar[w].version >= -1
  BY DEF PublishInv, VersionsRead
<1>b. ASSUME NEW w \in Worker, NEW pc, NEW h, Moves(w, pc, h)
      PROVE  registrar'[w].version >= -1
  <2>1. registrar'[w].version = registrar[w].version \/ registrar'[w].version = -1
    BY <1>b DEF Moves
  <2> QED BY <1>a, <2>1
<1>3. ASSUME NEW w \in Worker, Crash(w) PROVE PublishInv'
  <2>1. VersionsRead'
    BY <1>1, <1>2, <1>3, <1>b, CrashEffect DEF PublishInv, VersionsRead
  <2>2. StoreInSecret'
    BY <1>1, <1>2, <1>3, CrashEffect DEF StoreInSecret, Registered, NoRegistration
  <2>3. EventsInSecret'
    BY <1>1, <1>2, <1>3, CrashEffect DEF EventsInSecret
  <2> QED BY <2>1, <2>2, <2>3 DEF PublishInv
<1>4. ASSUME NEW w \in Worker,
             \/ UpdateRegistration(w) \/ DiscardEvent(w) \/ BeginRegistration(w)
      PROVE  PublishInv'
  BY <1>1, <1>4, <1>b, TakingMoves, PublishKept
<1>5. ASSUME NEW w \in Worker, RegisterAccount(w) PROVE PublishInv'
  <2>1. VersionsRead'
    BY <1>1, <1>2, <1>5, <1>b, RegisterEffect DEF PublishInv, VersionsRead
  <2>2. StoreInSecret'
    <3>1. registrar'[w].pc = "read" /\ registrar'[w].name = registrar[w].name
      BY <1>1, <1>5, RegisterEffect DEF Moves
    <3>2. ASSUME NEW h \in Host, h # registrar[w].name, Registered(w, h)'
          PROVE  InSecret(h, registration_store[w][h].account)'
      <4>1. /\ registration_store'[w][h] = registration_store[w][h]
            /\ registrar[w].pc = "post" /\ UNCHANGED secret
        BY <1>1, <1>5, <3>2, RegisterEffect
      <4> QED BY <3>2, <4>1
              DEF PublishInv, StoreInSecret, Registered, InSecret, Writing
    <3> QED BY <1>2, <3>1, <3>2 DEF StoreInSecret, Writing
  <2>3. EventsInSecret'
    BY <1>1, <1>5, RegisterEffect DEF PublishInv, EventsInSecret, InSecret
  <2> QED BY <2>1, <2>2, <2>3 DEF PublishInv
<1>6. ASSUME NEW w \in Worker, RegisterFails(w) PROVE PublishInv'
  BY <1>1, <1>6, <1>b, RegisterFailsMoves, PublishKept
<1>7. ASSUME NEW w \in Worker, ReadSecret(w) PROVE PublishInv'
  <2>1. registrar'[w].version >= -1
    BY <1>1, <1>7, ReadEffect DEF PublishInv, VersionsRead
  <2> QED BY <1>1, <1>7, <2>1, ReadEffect, PublishKept
<1>8. ASSUME NEW w \in Worker, PatchSecret(w) PROVE PublishInv'
  <2>1. VersionsRead'
    <3>1. registrar[w].version + 1 >= -1
      BY <1>1, <1>a, RegistrarType
    <3> QED BY <1>1, <1>2, <1>8, <1>b, <3>1, PatchEffect DEF VersionsRead
  <2>2. \A h \in Host : Registered(w, h) =>
          InSecret(h, registration_store[w][h].account)'
    BY <1>8, PatchPublishes
  <2>3. StoreInSecret'
    BY <1>1, <1>2, <1>8, <2>2, PatchEffect DEF StoreInSecret, Registered
  <2>4. EventsInSecret'
    <3>1. UNCHANGED <<registration_store, acme_dns_registration_queue, processor>>
      BY <1>1, <1>8, PatchEffect
    <3>2. ASSUME NEW k \in DOMAIN acme_dns_registration_queue[w]
          PROVE  InSecret(acme_dns_registration_queue[w][k].cname_name,
                          acme_dns_registration_queue[w][k].cname_target)'
      <4>1. acme_dns_registration_queue[w][k].cname_name \in Host
        BY <1>1, QueuedEventType
      <4> QED BY <2>2, <3>1, <4>1
              DEF SafetyInv, EventsHaveRegistrations, InSecret
    <3>3. ASSUME processor[w].i # 0
          PROVE  InSecret(processor[w].name, processor[w].target)'
      <4>1. processor[w].name \in Host
        BY <1>1, ProcessorType DEF ProcessorLocals
      <4> QED BY <2>2, <3>1, <3>3, <4>1
              DEF SafetyInv, EventsHaveRegistrations, InSecret
    <3> QED BY <1>2, <3>1, <3>2, <3>3 DEF EventsInSecret
  <2> QED BY <2>1, <2>3, <2>4 DEF PublishInv
<1>9. ASSUME NEW w \in Worker, SecretStoreFails(w) PROVE FALSE
  <2>1. secret.version # NoMap
    BY <1>1, SecretType DEF PublishInv, VersionsRead, NoMap
  <2> QED BY <1>9, <2>1 DEF SecretStoreFails, SecretIsUpdated
<1>10. ASSUME NEW w \in Worker, FireEvent(w) PROVE PublishInv'
  <2>1. VersionsRead'
    BY <1>1, <1>2, <1>10, <1>b, FireEffect DEF PublishInv, VersionsRead
  <2>2. /\ UNCHANGED <<registration_store, processor, secret>>
        /\ registrar[w].pc = "fire"
    BY <1>10, FireEffect
  <2>3. StoreInSecret'
    BY <1>2, <2>2 DEF PublishInv, StoreInSecret, Registered, InSecret, Writing
  <2>4. EventsInSecret'
    <3>1. InSecret(registrar[w].name,
                   registration_store[w][registrar[w].name].account)
      BY <1>1, <2>2, RegistrarType
         DEF SafetyInv, PassInv, PublishInv, StoreInSecret, Writing
    <3>2. ASSUME NEW k \in DOMAIN acme_dns_registration_queue'[w]
          PROVE  InSecret(acme_dns_registration_queue'[w][k].cname_name,
                          acme_dns_registration_queue'[w][k].cname_target)
      <4>1. CASE k \in DOMAIN acme_dns_registration_queue[w]
        BY <1>10, <4>1, FireEffect DEF PublishInv, EventsInSecret
      <4>2. CASE k \notin DOMAIN acme_dns_registration_queue[w]
        <5>1. acme_dns_registration_queue'[w][k] =
                [cname_name |-> registrar[w].name,
                 cname_target |->
                   registration_store[w][registrar[w].name].account]
          BY <1>10, <3>2, <4>2, FireEffect
        <5> QED BY <3>1, <5>1
      <4> QED BY <4>1, <4>2
    <3> QED BY <1>2, <2>2, <3>2 DEF PublishInv, EventsInSecret, InSecret
  <2> QED BY <2>1, <2>3, <2>4 DEF PublishInv
<1>11. ASSUME NEW w \in Worker, ReceiveRegistrationEvent(w) PROVE PublishInv'
  <2>1. UNCHANGED <<registrar, registration_store, secret>>
    BY <1>11, ReceiveEffect
  <2>2. VersionsRead' /\ StoreInSecret'
    BY <2>1 DEF PublishInv, VersionsRead, StoreInSecret, Registered, InSecret,
       Writing
  <2>3. ASSUME NEW k \in DOMAIN acme_dns_registration_queue'[w]
        PROVE  InSecret(acme_dns_registration_queue'[w][k].cname_name,
                        acme_dns_registration_queue'[w][k].cname_target)
    BY <1>11, ReceiveEffect DEF PublishInv, EventsInSecret
  <2>4. processor'[w].i # 0 => InSecret(processor'[w].name, processor'[w].target)
    BY <1>11, ReceiveEffect, AdvanceFields DEF PublishInv, EventsInSecret
  <2> QED BY <1>2, <2>1, <2>2, <2>3, <2>4
          DEF PublishInv, EventsInSecret, InSecret
<1>12. ASSUME NEW w \in Worker, EnsureCname(w) PROVE PublishInv'
  <2>1. UNCHANGED <<registrar, acme_dns_registration_queue, secret>>
    BY <1>12, EnsureEffect
  <2>2. VersionsRead'
    BY <2>1 DEF PublishInv, VersionsRead
  <2>3. \A v \in Worker, h \in Host :
          registration_store'[v][h].account = registration_store[v][h].account
    BY <1>12, EnsureEffect
  <2>4. StoreInSecret'
    BY <2>1, <2>3 DEF PublishInv, StoreInSecret, Registered, InSecret, Writing
  <2>5. processor'[w].i # 0 => InSecret(processor[w].name, processor[w].target)
                               /\ processor'[w].name = processor[w].name
                               /\ processor'[w].target = processor[w].target
    <3>1. processor[w].i # 0
      BY <1>12 DEF EnsureCname
    <3> QED BY <1>12, <3>1, EnsureEffect, AdvanceFields
            DEF PublishInv, EventsInSecret
  <2> QED BY <1>2, <2>1, <2>2, <2>4, <2>5
          DEF PublishInv, EventsInSecret, InSecret
<1>13. ASSUME NEW w \in Worker, EnsureCnameFails(w) PROVE PublishInv'
  <2>1. /\ UNCHANGED <<registrar, registration_store,
                       acme_dns_registration_queue, secret>>
        /\ processor'[w].i = 0
    BY <1>1, <1>13, EnsureFailsEffect
  <2> QED BY <1>2, <2>1
          DEF PublishInv, VersionsRead, StoreInSecret, EventsInSecret,
              Registered, InSecret, Writing
<1>14. CASE \/ \E g \in Ingress, s \in IngressSpec : ApplyIngress(g, s)
            \/ \E g \in Ingress : DeleteIngress(g)
            \/ \E w \in Worker : Start(w) \/ handle_k8s_watch_event(w)
            \/ UNCHANGED vars
  <2>1. UNCHANGED registrar /\ UNCHANGED Lasting
    BY <1>14, OutsideEffect
  <2> QED BY <2>1
          DEF Lasting, PublishInv, VersionsRead, StoreInSecret, EventsInSecret,
              Registered, InSecret, Writing
<1>15. ASSUME NEW w \in Worker, ACMEDnsRegistrar(w) PROVE PublishInv'
  BY <1>4, <1>5, <1>6, <1>7, <1>8, <1>9, <1>10, <1>15 DEF ACMEDnsRegistrar
<1>16. ASSUME NEW w \in Worker, DnsProviderProcessor(w) PROVE PublishInv'
  BY <1>11, <1>12, <1>13, <1>16 DEF DnsProviderProcessor
<1> QED BY <1>3, <1>14, <1>15, <1>16 DEF Next, Environment

\* So it always holds.
LEMMA PublishInvariant ==
  ASSUME OneWorker, NoneTwice, SecretIsUpdated
  PROVE  Spec => []PublishInv
<1>1. Init => PublishInv
  <2> SUFFICES ASSUME Init PROVE PublishInv
    OBVIOUS
  <2>1. secret.version = -1
    <3>1. PICK annotated \in SeedAnnotated :
            secret = [entries |-> [h \in Host |-> 0],
                      version |-> IF annotated THEN -1 ELSE NoMap]
      BY DEF Init
    <3>2. annotated = TRUE
      BY DEF SecretIsUpdated
    <3> QED BY <3>1, <3>2
  <2>2. \A w \in Worker : /\ registrar[w].version = -1
                          /\ processor[w].i = 0
                          /\ acme_dns_registration_queue[w] = <<>>
                          /\ \A h \in Host : ~Registered(w, h)
    BY DEF Init, NewRegistrar, WaitingRegistrar, NewProcessor, Registered,
       EmptyStore, NoRegistration
  <2> QED BY <2>1, <2>2
          DEF PublishInv, VersionsRead, StoreInSecret, EventsInSecret
<1>2. SafetyInv /\ NamesInv /\ PublishInv /\ [Next]_vars => PublishInv'
  BY PublishStep
<1> QED BY <1>1, <1>2, SafetyInvariant, NamesInvariant, PTL DEF Spec

\* With one worker, no name asked for both plain and as wildcard, and a secret
\* that can be updated: a record is turned only to an account whose
\* credentials the secret holds already.
THEOREM CredentialsBeforeCname ==
  ASSUME OneWorker, NoneTwice, SecretIsUpdated
  PROVE  Spec => CnameAfterSecret
<1>1. ASSUME SafetyInv, PublishInv, [Next]_vars,
             NEW p \in Provider, NEW b \in Base,
             record'[p][b] \notin {0, record[p][b]}
      PROVE  \E k \in Host : k.base = b /\ secret.entries[k] = record'[p][b]
  <2>1. ASSUME NEW w \in Worker, processor[w].i # 0,
               processor[w].name.base = b, record'[p][b] = processor[w].target
        PROVE  \E k \in Host : k.base = b /\ secret.entries[k] = record'[p][b]
    <3>1. processor[w].name \in Host
      BY <1>1, ProcessorType DEF SafetyInv, ProcessorLocals
    <3>2. InSecret(processor[w].name, processor[w].target)
      BY <1>1, <2>1 DEF PublishInv, EventsInSecret
    <3>3. /\ Stripped(processor[w].name) \in Host
          /\ Stripped(processor[w].name).base = processor[w].name.base
      BY <3>1, StrippedType DEF Stripped
    <3> QED BY <2>1, <3>2, <3>3 DEF InSecret
  <2>2. PICK w \in Worker : /\ processor[w].i # 0
                            /\ processor[w].name.base = b
                            /\ record'[p][b] = processor[w].target
    BY <1>1, TurnedByProcessor DEF SafetyInv
  <2> QED BY <2>1, <2>2
<1>2. SafetyInv /\ PublishInv /\ [Next]_vars =>
        [\A p \in Provider, b \in Base :
           record'[p][b] \notin {0, record[p][b]} =>
             \E k \in Host : k.base = b /\ secret.entries[k] = record'[p][b]]_vars
  BY <1>1
<1> QED BY <1>2, SafetyInvariant, PublishInvariant, PTL
        DEF Spec, CnameAfterSecret

-----------------------------------------------------------------------------
(* What a registration reports is in the records.                          *)

ReportInv ==
  /\ ReportedCname
  /\ \A w \in Worker, h \in Host :
       registration_store[w][h].provider # NoProvider => Registered(w, h)

\* Two registered names never share a record.
LEMMA OwnRecord ==
  ASSUME NamesInv, NoneTwice, NEW w \in Worker, NEW g \in Host, NEW h \in Host,
         Registered(w, g), Registered(w, h), g.base = h.base
  PROVE  g = h
  BY DEF NamesInv, NoneTwice

\* If no call to a provider fails, the processor gives up only because the
\* provider does not manage the name, which leaves the records alone.
LEMMA NoRecordFails ==
  ASSUME "dns" \notin Faults, NEW w \in Worker, EnsureCnameFails(w)
  PROVE  UNCHANGED record
  BY DEF EnsureCnameFails

\* Turning a record and reporting it are one step, and the record is the one
\* of no other registered name.
LEMMA ReportEnsure ==
  ASSUME OneWorker, NoneTwice, SafetyInv, NamesInv, ReportInv,
         NEW w \in Worker, EnsureCname(w)
  PROVE  ReportInv'
<1> DEFINE n == processor[w].name
           c == CurrentProvider(w)
<1>1. /\ n \in Host /\ c \in Provider
      /\ processor[w].target = registration_store[w][n].account
      /\ Registered(w, n)
      /\ \A v \in Worker : v = w
      /\ \A p \in Provider : p # NoProvider
  BY EnsureEffect, ConstantsAssumption
     DEF OneWorker, SafetyInv, EventsHaveRegistrations, EnsureCname
<1>2. \A h \in Host :
        /\ registration_store'[w][h].account = registration_store[w][h].account
        /\ registration_store'[w][h].provider
             = IF h = n THEN c ELSE registration_store[w][h].provider
  BY EnsureEffect
<1>3. \A p \in Provider, b \in Base :
        record'[p][b] = IF p = c /\ b = n.base THEN processor[w].target
                        ELSE record[p][b]
  BY EnsureEffect
<1>4. ASSUME NEW h \in Host, NEW p \in Provider,
             registration_store'[w][h].provider = p
      PROVE  record'[p][h.base] = registration_store'[w][h].account
  <2>1. h.base \in Base
    BY DEF Host
  <2>2. CASE h = n
    BY <1>1, <1>2, <1>3, <1>4, <2>1, <2>2
  <2>3. CASE h # n
    <3>1. registration_store[w][h].provider = p
      BY <1>2, <1>4, <2>3
    <3>2. /\ record[p][h.base] = registration_store[w][h].account
          /\ Registered(w, h)
      BY <1>1, <3>1 DEF ReportInv, ReportedCname
    <3>3. h.base # n.base
      BY <1>1, <2>3, <3>2, OwnRecord
    <3> QED BY <1>2, <1>3, <2>1, <3>2, <3>3
  <2> QED BY <2>2, <2>3
<1>5. ASSUME NEW h \in Host, registration_store'[w][h].provider # NoProvider
      PROVE  registration_store'[w][h].account # 0
  BY <1>1, <1>2, <1>5 DEF ReportInv, Registered
<1> HIDE DEF n, c
<1> QED BY <1>1, <1>4, <1>5 DEF ReportInv, ReportedCname, Registered

\* Every step keeps the invariant.
LEMMA ReportStep ==
  ASSUME OneWorker, NoneTwice, "dns" \notin Faults
  PROVE  SafetyInv /\ NamesInv /\ ReportInv /\ [Next]_vars => ReportInv'
<1> SUFFICES ASSUME SafetyInv, NamesInv, ReportInv, [Next]_vars
             PROVE  ReportInv'
  OBVIOUS
<1>1. TypeOK
  BY DEF SafetyInv
<1>2. ASSUME NEW w \in Worker PROVE \A v \in Worker : v = w
  BY DEF OneWorker
<1>3. ASSUME UNCHANGED <<registration_store, record>> PROVE ReportInv'
  BY <1>3 DEF ReportInv, ReportedCname, Registered
<1>4. ASSUME NEW w \in Worker, Crash(w) PROVE ReportInv'
  <2>1. \A h \in Host : registration_store'[w][h] = NoRegistration
    BY <1>1, <1>4, CrashEffect
  <2>2. \A h \in Host : registration_store'[w][h].provider = NoProvider
    BY <2>1 DEF NoRegistration
  <2> QED BY <1>2, <2>2, ConstantsAssumption DEF ReportInv, ReportedCname
<1>5. ASSUME NEW w \in Worker, RegisterAccount(w) PROVE ReportInv'
  <2>1. /\ UNCHANGED record
        /\ registration_store'[w][registrar[w].name].provider = NoProvider
        /\ \A h \in Host \ {registrar[w].name} :
             registration_store'[w][h] = registration_store[w][h]
    BY <1>1, <1>5, RegisterEffect
  <2>2. ASSUME NEW h \in Host, NEW p \in Provider,
               registration_store'[w][h].provider = p
        PROVE  record'[p][h.base] = registration_store'[w][h].account
    BY <2>1, <2>2, ConstantsAssumption DEF ReportInv, ReportedCname
  <2>3. ASSUME NEW h \in Host, registration_store'[w][h].provider # NoProvider
        PROVE  registration_store'[w][h].account # 0
    BY <2>1, <2>3 DEF ReportInv, Registered
  <2> QED BY <1>2, <2>2, <2>3 DEF ReportInv, ReportedCname, Registered
<1>6. ASSUME NEW w \in Worker, ACMEDnsRegistrar(w), ~RegisterAccount(w)
      PROVE  ReportInv'
  <2>1. UNCHANGED <<registration_store, record>>
    BY <1>1, <1>6, TakingMoves, RegisterFailsMoves, ReadEffect, PatchEffect,
       SecretStoreFailsMoves, FireEffect DEF ACMEDnsRegistrar, Lasting
  <2> QED BY <1>3, <2>1
<1>7. ASSUME NEW w \in Worker, DnsProviderProcessor(w) PROVE ReportInv'
  <2>1. CASE ReceiveRegistrationEvent(w)
    BY <1>3, <2>1, ReceiveEffect
  <2>2. CASE EnsureCname(w)
    BY <2>2, ReportEnsure
  <2>3. CASE EnsureCnameFails(w)
    BY <1>1, <1>3, <2>3, EnsureFailsEffect, NoRecordFails
  <2> QED BY <1>7, <2>1, <2>2, <2>3 DEF DnsProviderProcessor
<1>8. CASE \/ \E g \in Ingress, s \in IngressSpec : ApplyIngress(g, s)
           \/ \E g \in Ingress : DeleteIngress(g)
           \/ \E w \in Worker : Start(w) \/ handle_k8s_watch_event(w)
           \/ UNCHANGED vars
  BY <1>3, <1>8, OutsideEffect DEF Lasting
<1> QED BY <1>4, <1>5, <1>6, <1>7, <1>8 DEF Next, Environment

\* With one worker, no name asked for both plain and as wildcard, and calls to
\* providers that do not fail: the provider that a registration reports holds
\* a record with the registration's target.
THEOREM ReportsAreTrue ==
  ASSUME OneWorker, NoneTwice, "dns" \notin Faults
  PROVE  Spec => []ReportedCname
<1>1. Init => ReportInv
  BY ConstantsAssumption
     DEF Init, ReportInv, ReportedCname, EmptyStore, NoRegistration
<1>2. SafetyInv /\ NamesInv /\ ReportInv /\ [Next]_vars => ReportInv'
  BY ReportStep
<1>3. ReportInv => ReportedCname
  BY DEF ReportInv
<1> QED BY <1>1, <1>2, <1>3, SafetyInvariant, NamesInvariant, PTL DEF Spec

-----------------------------------------------------------------------------
(* Once all is handled, secret and records agree.                          *)

\* The record of h at position i is still to be turned.
Passing(w, h) ==
  registrar[w].pc \in {"read", "patch", "fire"} /\ registrar[w].name = h
Queued(w, h) ==
  \E k \in DOMAIN acme_dns_registration_queue[w] :
    acme_dns_registration_queue[w][k].cname_name = h
InLoop(w, h, i) ==
  processor[w].i # 0 /\ processor[w].i <= i /\ processor[w].name = h
Pending(w, h, i) == Passing(w, h) \/ Queued(w, h) \/ InLoop(w, h, i)

RecordsInv ==
  \A w \in Worker, h \in Host, i \in DOMAIN dns_providers :
    Registered(w, h) /\ Reached(h, i) =>
      \/ Pending(w, h, i)
      \/ record[dns_providers[i]][h.base] = registration_store[w][h].account

\* What was pending or turned for each registered name still is.
LEMMA RecordsKept ==
  ASSUME OneWorker, RecordsInv, NEW w \in Worker, UNCHANGED record,
         \A h \in Host, i \in DOMAIN dns_providers :
           /\ registration_store'[w][h].account # 0 =>
                \/ registration_store'[w][h].account
                     = registration_store[w][h].account
                \/ Pending(w, h, i)'
           /\ Pending(w, h, i) => Pending(w, h, i)'
  PROVE  RecordsInv'
<1> SUFFICES ASSUME NEW h \in Host, NEW i \in DOMAIN dns_providers,
                    registration_store'[w][h].account # 0, Reached(h, i)
             PROVE  \/ Pending(w, h, i)'
                    \/ record'[dns_providers[i]][h.base]
                         = registration_store'[w][h].account
  BY DEF RecordsInv, Registered, OneWorker
<1> QED BY DEF RecordsInv, Registered

\* An event taken from the queue is in the loop, at its first provider.
LEMMA RecordsReceive ==
  ASSUME OneWorker, SafetyInv, RecordsInv, NEW w \in Worker,
         ReceiveRegistrationEvent(w)
  PROVE  RecordsInv'
<1> DEFINE q == acme_dns_registration_queue[w]
<1>1. /\ UNCHANGED <<registrar, registration_store, record>>
      /\ processor[w].i = 0
      /\ processor'[w] = Advance(0, q[1].cname_name, q[1].cname_target)
      /\ \A k \in DOMAIN q : k = 1 \/ (/\ k - 1 \in DOMAIN q'
                                       /\ q'[k - 1] = q[k])
  BY ReceiveEffect
<1> HIDE DEF q
<1>2. ASSUME NEW h \in Host, NEW i \in DOMAIN dns_providers, Pending(w, h, i)
      PROVE  Pending(w, h, i)'
  <2>1. CASE Passing(w, h)
    BY <1>1, <2>1 DEF Pending, Passing
  <2>2. CASE Queued(w, h)
    <3>1. PICK k \in DOMAIN q : q[k].cname_name = h
      BY <2>2 DEF Queued, q
    <3>2. CASE k = 1
      <4>1. i \in 1..Len(dns_providers)
        BY ConstantsAssumption
      <4>2. processor'[w] = [i |-> 1, name |-> h, target |-> q[1].cname_target]
        BY <1>1, <3>1, <3>2, <4>1 DEF Advance
      <4>3. processor'[w].i = 1 /\ processor'[w].name = h
        BY <4>2
      <4>4. InLoop(w, h, i)'
        BY <4>1, <4>3 DEF InLoop
      <4> QED BY <4>4 DEF Pending
    <3>3. CASE k # 1
      <4>1. k - 1 \in DOMAIN q' /\ q'[k - 1].cname_name = h
        BY <1>1, <3>1, <3>3
      <4> QED BY <4>1 DEF Pending, Queued, q
    <3> QED BY <3>2, <3>3
  <2>3. CASE InLoop(w, h, i)
    BY <1>1, <2>3 DEF InLoop
  <2> QED BY <1>2, <2>1, <2>2, <2>3 DEF Pending
<1> QED BY <1>1, <1>2, RecordsKept

\* A record that is turned is no longer pending; those behind it still are.
LEMMA RecordsEnsure ==
  ASSUME OneWorker, NoneTwice, SafetyInv, NamesInv, RecordsInv,
         NEW w \in Worker, EnsureCname(w)
  PROVE  RecordsInv'
<1> DEFINE n == processor[w].name
           c == CurrentProvider(w)
           j == processor[w].i
<1>1. /\ n \in Host /\ c \in Provider
      /\ processor[w].target = registration_store[w][n].account
      /\ Registered(w, n)
      /\ j \in 1..Len(dns_providers) /\ c = dns_providers[j]
      /\ \A v \in Worker : v = w
  BY EnsureEffect
     DEF OneWorker, SafetyInv, EventsHaveRegistrations, EnsureCname,
         CurrentProvider
<1>2. \A h \in Host :
        registration_store'[w][h].account = registration_store[w][h].account
  BY EnsureEffect
<1>3. \A p \in Provider, b \in Base :
        record'[p][b] = IF p = c /\ b = n.base THEN processor[w].target
                        ELSE record[p][b]
  BY EnsureEffect
<1>4. /\ UNCHANGED <<registrar, acme_dns_registration_queue>>
      /\ processor'[w] = Advance(j, n, processor[w].target)
  BY EnsureEffect
<1>5. Len(dns_providers) \in Nat /\ DOMAIN dns_providers = 1..Len(dns_providers)
      /\ \A i \in DOMAIN dns_providers : dns_providers[i] \in Provider
  BY ConstantsAssumption
<1> HIDE DEF n, c, j
<1>6. ASSUME NEW h \in Host, NEW i \in DOMAIN dns_providers,
             Registered(w, h), Reached(h, i)
      PROVE  \/ Pending(w, h, i)'
             \/ record'[dns_providers[i]][h.base]
                  = registration_store[w][h].account
  <2>1. h.base \in Base
    BY DEF Host
  <2>2. CASE Passing(w, h) \/ Queued(w, h)
    BY <1>4, <2>2 DEF Passing, Queued, Pending
  <2>3. CASE InLoop(w, h, i)
    <3>1. j <= i /\ n = h
      BY <2>3 DEF InLoop, j, n
    <3>2. CASE i = j
      BY <1>1, <1>3, <2>1, <3>1, <3>2
    <3>3. CASE i # j
      <4>1. j < Len(dns_providers) /\ j + 1 <= i /\ j + 1 # 0
        BY <1>1, <1>5, <3>1, <3>3
      <4>2. processor'[w].i = j + 1 /\ processor'[w].name = h
        BY <1>4, <3>1, <4>1 DEF Advance
      <4>3. InLoop(w, h, i)'
        BY <4>1, <4>2 DEF InLoop
      <4> QED BY <4>3 DEF Pending
    <3> QED BY <3>2, <3>3
  <2>4. CASE record[dns_providers[i]][h.base] = registration_store[w][h].account
    <3>1. CASE h = n
      BY <1>1, <1>3, <1>5, <2>1, <2>4, <3>1
    <3>2. CASE h # n
      <4>1. h.base # n.base
        BY <1>1, <1>6, <3>2, OwnRecord
      <4> QED BY <1>3, <1>5, <2>1, <2>4, <4>1
    <3> QED BY <3>1, <3>2
  <2> QED BY <1>6, <2>2, <2>3, <2>4 DEF RecordsInv, Pending
<1> QED BY <1>1, <1>2, <1>6 DEF RecordsInv, Registered

\* The loop ends at a provider that does not manage the name: neither this one
\* nor those behind it are reached.
LEMMA RecordsStop ==
  ASSUME OneWorker, AllAnswer, SafetyInv, RecordsInv,
         NEW w \in Worker, EnsureCnameFails(w)
  PROVE  RecordsInv'
<1>1. TypeOK
  BY DEF SafetyInv
<1>2. /\ processor[w].i # 0 /\ processor[w].i \in Nat
      /\ processor[w].name \notin Managed[dns_providers[processor[w].i]]
      /\ UNCHANGED <<record, registrar, registration_store,
                     acme_dns_registration_queue>>
  <2>1. processor[w].i \in Nat
    BY <1>1, ProcessorType DEF ProcessorLocals
  <2>2. processor[w].i # 0 /\ UNCHANGED <<registrar, registration_store,
                                         acme_dns_registration_queue>>
    BY <1>1, EnsureFailsEffect
  <2>3. /\ processor[w].name \notin Managed[CurrentProvider(w)]
        /\ UNCHANGED record
    BY DEF EnsureCnameFails, AllAnswer
  <2> QED BY <2>1, <2>2, <2>3 DEF CurrentProvider
<1>3. ASSUME NEW h \in Host, NEW i \in DOMAIN dns_providers, Reached(h, i)
      PROVE  ~InLoop(w, h, i)
  <2>1. ASSUME InLoop(w, h, i) PROVE FALSE
    <3>1. processor[w].i \in 1..i /\ processor[w].name = h
      BY <1>2, <2>1, ConstantsAssumption DEF InLoop
    <3> QED BY <1>2, <1>3, <3>1 DEF Reached
  <2> QED BY <2>1
<1>4. ASSUME NEW h \in Host, NEW i \in DOMAIN dns_providers,
             Registered(w, h)', Reached(h, i)
      PROVE  \/ Pending(w, h, i)'
             \/ record'[dns_providers[i]][h.base]
                  = registration_store'[w][h].account
  <2>1. \/ Passing(w, h) \/ Queued(w, h)
        \/ record[dns_providers[i]][h.base] = registration_store[w][h].account
    BY <1>2, <1>3, <1>4 DEF RecordsInv, Registered, Pending
  <2> QED BY <1>2, <2>1 DEF Pending, Passing, Queued
<1> QED BY <1>4 DEF OneWorker, RecordsInv

\* The name of a pass that ends is in a queued event.
LEMMA RecordsFire ==
  ASSUME OneWorker, SafetyInv, RecordsInv, NEW w \in Worker, FireEvent(w)
  PROVE  RecordsInv'
<1> DEFINE q == acme_dns_registration_queue[w]
<1>1. /\ UNCHANGED <<registration_store, processor, record>>
      /\ \A k \in DOMAIN q : k \in DOMAIN q' /\ q'[k] = q[k]
      /\ \E k \in DOMAIN q' : q'[k].cname_name = registrar[w].name
  BY FireEffect
<1>2. ASSUME NEW h \in Host, NEW i \in DOMAIN dns_providers, Pending(w, h, i)
      PROVE  Pending(w, h, i)'
  <2>1. CASE Passing(w, h)
    BY <1>1, <2>1 DEF Pending, Passing, Queued
  <2>2. CASE Queued(w, h)
    BY <1>1, <2>2 DEF Pending, Queued
  <2>3. CASE InLoop(w, h, i)
    BY <1>1, <2>3 DEF Pending, InLoop
  <2> QED BY <1>2, <2>1, <2>2, <2>3 DEF Pending
<1> QED BY <1>1, <1>2, RecordsKept

\* A pass keeps its name pending until its event is queued.
LEMMA RecordsRegistrar ==
  ASSUME OneWorker, SafetyInv, RecordsInv, NEW w \in Worker,
         ACMEDnsRegistrar(w)
  PROVE  RecordsInv'
<1>1. TypeOK
  BY DEF SafetyInv
<1>2. ASSUME UNCHANGED <<registration_store, acme_dns_registration_queue,
                         processor, record>>,
             \/ registrar[w].pc \notin {"read", "patch", "fire"}
             \/ /\ registrar'[w].pc \in {"read", "patch", "fire"}
                /\ registrar'[w].name = registrar[w].name
      PROVE  RecordsInv'
  <2>1. \A h \in Host, i \in DOMAIN dns_providers :
          Pending(w, h, i) => Pending(w, h, i)'
    BY <1>2 DEF Pending, Passing, Queued, InLoop
  <2> QED BY <1>2, <2>1, RecordsKept
<1>3. CASE UpdateRegistration(w) \/ DiscardEvent(w) \/ BeginRegistration(w)
  BY <1>1, <1>2, <1>3, TakingMoves DEF Lasting
<1>4. CASE RegisterAccount(w)
  <2>1. /\ registrar[w].pc = "post"
        /\ registrar'[w].pc = "read" /\ registrar'[w].name = registrar[w].name
        /\ UNCHANGED <<acme_dns_registration_queue, processor, record>>
        /\ \A h \in Host : h # registrar[w].name =>
             registration_store'[w][h] = registration_store[w][h]
    BY <1>1, <1>4, RegisterEffect DEF Moves
  <2>2. \A i \in DOMAIN dns_providers : Pending(w, registrar[w].name, i)'
    BY <2>1 DEF Pending, Passing
  <2>3. \A h \in Host, i \in DOMAIN dns_providers :
          Pending(w, h, i) => Pending(w, h, i)'
    BY <2>1 DEF Pending, Passing, Queued, InLoop
  <2>4. ASSUME NEW h \in Host, NEW i \in DOMAIN dns_providers
        PROVE  \/ registration_store'[w][h].account
                    = registration_store[w][h].account
               \/ Pending(w, h, i)'
    <3>1. CASE h = registrar[w].name
      BY <2>1, <3>1 DEF Pending, Passing
    <3> QED BY <2>1, <3>1
  <2> QED BY <2>1, <2>3, <2>4, RecordsKept
<1>5. CASE RegisterFails(w)
  BY <1>1, <1>2, <1>5, RegisterFailsMoves DEF Lasting
<1>6. CASE ReadSecret(w)
  BY <1>1, <1>2, <1>6, ReadEffect DEF Lasting
<1>7. CASE PatchSecret(w)
  BY <1>1, <1>2, <1>7, PatchEffect DEF Moves
<1>8. CASE SecretStoreFails(w)
  BY <1>1, <1>2, <1>8, SecretStoreFailsMoves DEF Lasting, Moves
<1>9. CASE FireEvent(w)
  BY <1>9, RecordsFire
<1> QED BY <1>3, <1>4, <1>5, <1>6, <1>7, <1>8, <1>9 DEF ACMEDnsRegistrar

\* Every step keeps the invariant.
LEMMA RecordsStep ==
  ASSUME OneWorker, NoneTwice, AllAnswer
  PROVE  SafetyInv /\ NamesInv /\ RecordsInv /\ [Next]_vars => RecordsInv'
<1> SUFFICES ASSUME SafetyInv, NamesInv, RecordsInv, [Next]_vars
             PROVE  RecordsInv'
  OBVIOUS
<1>1. TypeOK
  BY DEF SafetyInv
<1>2. ASSUME NEW w \in Worker, Crash(w) PROVE RecordsInv'
  BY <1>1, <1>2, CrashEffect
     DEF OneWorker, RecordsInv, Registered, NoRegistration
<1>3. ASSUME NEW w \in Worker, EnsureCnameFails(w) PROVE RecordsInv'
  BY <1>3, RecordsStop
<1>4. CASE \/ \E g \in Ingress, s \in IngressSpec : ApplyIngress(g, s)
           \/ \E g \in Ingress : DeleteIngress(g)
           \/ \E w \in Worker : Start(w) \/ handle_k8s_watch_event(w)
           \/ UNCHANGED vars
  <2>1. UNCHANGED registrar /\ UNCHANGED Lasting
    BY <1>4, OutsideEffect
  <2> QED BY <2>1 DEF Lasting, RecordsInv, Registered, Pending, Passing,
             Queued, InLoop
<1>5. ASSUME NEW w \in Worker, DnsProviderProcessor(w) PROVE RecordsInv'
  BY <1>3, <1>5, RecordsReceive, RecordsEnsure DEF DnsProviderProcessor
<1>6. ASSUME NEW w \in Worker, ACMEDnsRegistrar(w) PROVE RecordsInv'
  BY <1>6, RecordsRegistrar
<1> QED BY <1>2, <1>4, <1>5, <1>6 DEF Next, Environment

\* So it always holds.
LEMMA RecordsInvariant ==
  ASSUME OneWorker, NoneTwice, AllAnswer
  PROVE  Spec => []RecordsInv
<1>1. Init => RecordsInv
  BY DEF Init, RecordsInv, Registered, EmptyStore, NoRegistration
<1>2. SafetyInv /\ NamesInv /\ RecordsInv /\ [Next]_vars => RecordsInv'
  BY RecordsStep
<1> QED BY <1>1, <1>2, SafetyInvariant, NamesInvariant, PTL DEF Spec

\* With one worker, no name asked for both plain and as wildcard, and no
\* failing call to a provider or to the secret: once all is handled, every
\* registered name can be solved at every provider that the loop reaches with
\* it.  Lost answers of acme-dns, crashes and replays do not matter.
THEOREM IdleMeansServed ==
  ASSUME OneWorker, NoneTwice, SecretIsUpdated, AllAnswer
  PROVE  Spec => []IdleAgreement
<1>1. ASSUME TypeOK, PublishInv, RecordsInv, Idle,
             NEW w \in Worker, NEW h \in Host, NEW i \in DOMAIN dns_providers,
             Registered(w, h), Reached(h, i)
      PROVE  Served(h, dns_providers[i])
  <2>1. ~Writing(w, h) /\ ~Pending(w, h, i)
    BY <1>1 DEF Idle, Writing, Pending, Passing, Queued, InLoop
  <2>2. secret.entries[Stripped(h)] = registration_store[w][h].account
    BY <1>1, <2>1 DEF PublishInv, StoreInSecret, InSecret
  <2>3. record[dns_providers[i]][h.base] = registration_store[w][h].account
    BY <1>1, <2>1 DEF RecordsInv
  <2> QED BY <1>1, <2>2, <2>3 DEF Served, Registered
<1>2. TypeOK /\ PublishInv /\ RecordsInv => IdleAgreement
  BY <1>1 DEF IdleAgreement
<1> QED BY <1>2, TypeCorrect, PublishInvariant, RecordsInvariant, PTL

-----------------------------------------------------------------------------
(* Every name that is asked for is published.                              *)

\* The spec of an Ingress asks for h.
Asks(s, h) == \E k \in DOMAIN extract_hosts(s) : extract_hosts(s)[k] = h

\* w is told of h by a watch event still to be handled, ...
Told(w, h) ==
  \E k \in DOMAIN watch[w] : /\ watch[w][k].type # "DELETED"
                             /\ Asks(watch[w][k].spec, h)
\* ... or by a name event, ...
Asked(w, h) ==
  \E k \in DOMAIN domain_name_event_queue[w] :
    /\ domain_name_event_queue[w][k].type # "DELETED"
    /\ domain_name_event_queue[w][k].domain_name = h
\* ... or is registering it.
Posting(w, h) == registrar[w].pc = "post" /\ registrar[w].name = h

Due(w, h) == Told(w, h) \/ Asked(w, h) \/ Posting(w, h) \/ Registered(w, h)

\* A running worker knows, or is yet to learn, every name that is asked for.
ListedInv ==
  \A w \in Worker, h \in Host : up[w] /\ Requested(h) => Due(w, h)

\* A change of the cluster is at the end of the queue of every running worker.
LEMMA NotifyEffect ==
  ASSUME TypeOK, NEW type \in DomainNameEventType, NEW s \in IngressSpec,
         Notify(type, s), NEW w \in Worker, up[w]
  PROVE  /\ \A k \in DOMAIN watch[w] :
              k \in DOMAIN watch'[w] /\ watch'[w][k] = watch[w][k]
         /\ \E k \in DOMAIN watch'[w] :
              watch'[w][k] = [type |-> type, spec |-> s]
<1> DEFINE q == watch[w]
           e == [type |-> type, spec |-> s]
<1>1. q \in Seq(WatchEvent) /\ watch'[w] = Append(q, e)
  BY DEF Notify, TypeOK
<1>2. e \in WatchEvent
  BY DEF WatchEvent
<1> HIDE DEF q, e
<1>3. /\ DOMAIN Append(q, e) = 1..(Len(q) + 1) /\ DOMAIN q = 1..Len(q)
      /\ Len(q) \in Nat
      /\ Append(q, e)[Len(q) + 1] = e
      /\ \A k \in 1..Len(q) : Append(q, e)[k] = q[k]
  BY <1>1, <1>2
<1> QED BY <1>1, <1>3 DEF q, e

\* A change of the cluster reaches every running worker.
LEMMA ListedChange ==
  ASSUME TypeOK, ListedInv,
         \/ \E g \in Ingress, s \in IngressSpec : ApplyIngress(g, s)
         \/ \E g \in Ingress : DeleteIngress(g)
  PROVE  ListedInv'
<1>1. ASSUME NEW type \in DomainNameEventType, NEW s \in IngressSpec,
             Notify(type, s),
             UNCHANGED <<domain_name_event_queue, registrar, registration_store>>,
             NEW w \in Worker, NEW h \in Host, up[w], Due(w, h)
      PROVE  Due(w, h)'
  <2>1. Told(w, h) => Told(w, h)'
    BY <1>1, NotifyEffect DEF Told
  <2> QED BY <1>1, <2>1 DEF Due, Asked, Posting, Registered
<1>2. ASSUME NEW g \in Ingress, NEW s \in IngressSpec, ApplyIngress(g, s)
      PROVE  ListedInv'
  <2> DEFINE type == IF cluster[g] = Absent THEN "ADDED" ELSE "MODIFIED"
  <2>1. /\ type \in DomainNameEventType /\ type # "DELETED"
        /\ Notify(type, s)
        /\ UNCHANGED <<up, domain_name_event_queue, registrar,
                       registration_store>>
    BY <1>2 DEF ApplyIngress, worker_vars, DomainNameEventType
  <2>2. \A i \in Ingress : cluster'[i] = IF i = g THEN s ELSE cluster[i]
    BY <1>2 DEF ApplyIngress, TypeOK
  <2> HIDE DEF type
  <2>3. ASSUME NEW w \in Worker, NEW h \in Host, up[w], Asks(s, h)
        PROVE  Told(w, h)'
    <3>1. PICK k \in DOMAIN watch'[w] : watch'[w][k] = [type |-> type, spec |-> s]
      BY <2>1, <2>3, NotifyEffect
    <3>2. watch'[w][k].type # "DELETED" /\ watch'[w][k].spec = s
      BY <2>1, <3>1
    <3> QED BY <2>3, <3>2 DEF Told
  <2>4. ASSUME NEW w \in Worker, NEW h \in Host, up'[w], Requested(h)'
        PROVE  Due(w, h)'
    <3>1. up[w] /\ (Asks(s, h) \/ Requested(h))
      BY <2>1, <2>2, <2>4 DEF Requested, Asks
    <3>2. CASE Asks(s, h)
      BY <2>3, <3>1, <3>2 DEF Due
    <3>3. CASE Requested(h)
      BY <1>1, <2>1, <3>1, <3>3 DEF ListedInv
    <3> QED BY <3>1, <3>2, <3>3
  <2> QED BY <2>4 DEF ListedInv
<1>3. ASSUME NEW g \in Ingress, DeleteIngress(g)
      PROVE  ListedInv'
  <2>1. /\ Notify("DELETED", cluster[g]) /\ "DELETED" \in DomainNameEventType
        /\ cluster[g] \in IngressSpec
        /\ UNCHANGED <<up, domain_name_event_queue, registrar,
                       registration_store>>
    BY <1>3 DEF DeleteIngress, worker_vars, DomainNameEventType, TypeOK
  <2>2. \A i \in Ingress : cluster'[i] = IF i = g THEN Absent ELSE cluster[i]
    BY <1>3 DEF DeleteIngress, TypeOK
  <2>3. ASSUME NEW w \in Worker, NEW h \in Host, up'[w], Requested(h)'
        PROVE  Due(w, h)'
    <3>1. up[w] /\ Requested(h)
      BY <2>1, <2>2, <2>3 DEF Requested
    <3> QED BY <1>1, <2>1, <3>1 DEF ListedInv
  <2> QED BY <2>3 DEF ListedInv
<1> QED BY <1>2, <1>3

\* What the watcher lists is all there is: n objects, each once.
LEMMA AllListed ==
  ASSUME NEW s \in Listings, NEW g \in Present
  PROVE  \E k \in DOMAIN s : s[k] = g
<1> DEFINE n == Cardinality(Present)
<1>1. IsFiniteSet(Present) /\ n \in Nat
  <2>1. IsFiniteSet(Ingress)
    BY ConstantsAssumption
  <2>2. Present \subseteq Ingress
    BY DEF Present
  <2> QED BY <2>1, <2>2, FS_Subset, FS_CardinalityType
<1>2. IsFiniteSet(1..n) /\ Cardinality(1..n) = n
  BY <1>1, FS_Interval
<1>3. s \in Injection(1..n, Present)
  BY DEF Listings, Injection, IsInjective
<1>4. s \in Surjection(1..n, Present)
  BY <1>1, <1>2, <1>3, FS_Injection
<1> QED BY <1>4 DEF Surjection

\* A worker that starts lists every Ingress there is.
LEMMA ListedStart ==
  ASSUME TypeOK, ListedInv, NEW v \in Worker, Start(v)
  PROVE  ListedInv'
<1>1. /\ \A w \in Worker \ {v} : up'[w] = up[w] /\ watch'[w] = watch[w]
      /\ UNCHANGED <<cluster, domain_name_event_queue, registrar,
                     registration_store>>
  BY DEF Start, worker_vars, TypeOK
<1>2. PICK s \in Listings :
        watch'[v] = [k \in DOMAIN s |-> [type |-> "LOADED",
                                         spec |-> cluster[s[k]]]]
  BY DEF Start, TypeOK
<1>3. ASSUME NEW h \in Host, Requested(h)
      PROVE  Told(v, h)'
  <2>1. PICK g \in Present : Asks(cluster[g], h)
    BY <1>3 DEF Requested, Asks, Present
  <2>2. PICK k \in DOMAIN s : s[k] = g
    BY AllListed
  <2>3. k \in DOMAIN watch'[v] /\ watch'[v][k].type # "DELETED"
        /\ watch'[v][k].spec = cluster[g]
    BY <1>2, <2>2
  <2> QED BY <2>1, <2>3 DEF Told
<1>4. ASSUME NEW w \in Worker, NEW h \in Host, up'[w], Requested(h)'
      PROVE  Due(w, h)'
  <2>1. Requested(h)
    BY <1>1, <1>4 DEF Requested
  <2>2. CASE w = v
    BY <1>3, <2>1, <2>2 DEF Due
  <2>3. CASE w # v
    BY <1>1, <1>4, <2>1, <2>3
       DEF ListedInv, Due, Told, Asked, Posting, Registered
  <2> QED BY <2>2, <2>3
<1> QED BY <1>4 DEF ListedInv

\* One worker's threads move, and forget nothing.
LEMMA ListedKept ==
  ASSUME ListedInv, NEW v \in Worker, UNCHANGED <<cluster, up>>,
         \A w \in Worker \ {v} :
           /\ watch'[w] = watch[w]
           /\ domain_name_event_queue'[w] = domain_name_event_queue[w]
           /\ registrar'[w] = registrar[w]
           /\ \A h \in Host : registration_store'[w][h].account
                                = registration_store[w][h].account,
         \A h \in Host : h \in AcmeZone /\ Due(v, h) => Due(v, h)'
  PROVE  ListedInv'
<1> SUFFICES ASSUME NEW w \in Worker, NEW h \in Host, up'[w], Requested(h)'
             PROVE  Due(w, h)'
  BY DEF ListedInv
<1>1. up[w] /\ Requested(h) /\ Due(w, h) /\ h \in AcmeZone
  BY DEF ListedInv, Requested
<1>2. CASE w = v
  BY <1>1, <1>2
<1>3. CASE w # v
  BY <1>1, <1>3 DEF Due, Told, Asked, Posting, Registered
<1> QED BY <1>2, <1>3

\* The hosts of a watch event become name events of the same type.
LEMMA ListedHandle ==
  ASSUME TypeOK, ListedInv, NEW v \in Worker, handle_k8s_watch_event(v)
  PROVE  ListedInv'
<1> DEFINE r == watch[v]
           e == Head(r)
           hosts == extract_hosts(e.spec)
           new == [k \in 1..Len(hosts) |-> [type |-> e.type,
                                            domain_name |-> hosts[k]]]
           q == domain_name_event_queue[v]
<1>1. /\ r \in Seq(WatchEvent) /\ r # <<>>
      /\ watch'[v] = Tail(r)
      /\ domain_name_event_queue'[v] = q \o new
      /\ q \in Seq(DomainNameEvent)
      /\ \A w \in Worker \ {v} :
           /\ watch'[w] = watch[w]
           /\ domain_name_event_queue'[w] = domain_name_event_queue[w]
      /\ UNCHANGED <<cluster, up, registrar, registration_store>>
  BY DEF handle_k8s_watch_event, TypeOK, env_vars, registrar_vars
<1>a. e \in WatchEvent
  BY <1>1
<1>2. e \in WatchEvent /\ hosts \in Seq(Host)
  BY <1>a, ConstantsAssumption DEF extract_hosts, WatchEvent
<1>3. /\ DOMAIN new = 1..Len(hosts) /\ DOMAIN hosts = 1..Len(hosts)
      /\ Len(hosts) \in Nat
      /\ \A k \in 1..Len(hosts) : /\ new[k].domain_name = hosts[k]
                                  /\ new[k].type = e.type
  BY <1>2
<1>4. new \in Seq(DomainNameEvent)
  <2>1. \A k \in 1..Len(hosts) : new[k] \in DomainNameEvent
    BY <1>2 DEF WatchEvent, DomainNameEvent
  <2>2. new = [k \in 1..Len(hosts) |-> new[k]]
    OBVIOUS
  <2> HIDE DEF new, hosts
  <2> QED BY <1>3, <2>1, <2>2
<1>5. \A h \in Host : Told(v, h) =>
        \/ Told(v, h)'
        \/ e.type # "DELETED" /\ Asks(e.spec, h)
  <2>1. /\ e = r[1]
        /\ \A k \in DOMAIN r : k = 1 \/ (/\ k - 1 \in DOMAIN Tail(r)
                                         /\ Tail(r)[k - 1] = r[k])
    BY <1>1
  <2> HIDE DEF e
  <2>2. ASSUME NEW h \in Host, NEW k \in DOMAIN r,
               r[k].type # "DELETED", Asks(r[k].spec, h)
        PROVE  \/ Told(v, h)'
               \/ e.type # "DELETED" /\ Asks(e.spec, h)
    <3>1. CASE k = 1
      BY <2>1, <2>2, <3>1
    <3>2. CASE k # 1
      <4>1. /\ k - 1 \in DOMAIN watch'[v]
            /\ watch'[v][k - 1] = r[k]
        BY <1>1, <2>1, <3>2
      <4> QED BY <2>2, <4>1 DEF Told
    <3> QED BY <3>1, <3>2
  <2> QED BY <2>2 DEF Told
<1> HIDE DEF new, hosts, e
<1>6. /\ \A k \in DOMAIN q : k \in DOMAIN (q \o new) /\ (q \o new)[k] = q[k]
      /\ \A j \in DOMAIN new : /\ Len(q) + j \in DOMAIN (q \o new)
                               /\ (q \o new)[Len(q) + j] = new[j]
  BY <1>1, <1>4
<1> DEFINE all == q \o new
<1> HIDE DEF all
<1>7. \A h \in Host : Asked(v, h) => Asked(v, h)'
  BY <1>1, <1>6 DEF Asked, all
<1>8. ASSUME NEW h \in Host, e.type # "DELETED", Asks(e.spec, h)
      PROVE  Asked(v, h)'
  <2>1. PICK j \in 1..Len(hosts) : hosts[j] = h
    BY <1>3, <1>8 DEF Asks, hosts
  <2>2. /\ Len(q) + j \in DOMAIN domain_name_event_queue'[v]
        /\ domain_name_event_queue'[v][Len(q) + j] = new[j]
    BY <1>1, <1>3, <1>6
  <2>3. new[j].type # "DELETED" /\ new[j].domain_name = h
    BY <1>3, <1>8, <2>1
  <2> QED BY <2>2, <2>3 DEF Asked
<1>9. \A h \in Host : Due(v, h) => Due(v, h)'
  BY <1>1, <1>5, <1>7, <1>8 DEF Due, Posting, Registered
<1> QED BY <1>1, <1>9, ListedKept

\* A name event that is not dropped names a name that is then registered, or
\* about to be.
LEMMA ListedTaking ==
  ASSUME TypeOK, ListedInv, NEW v \in Worker,
         \/ UpdateRegistration(v) \/ DiscardEvent(v) \/ BeginRegistration(v)
  PROVE  ListedInv'
<1> DEFINE q == domain_name_event_queue[v]
<1>1. /\ Take(v) /\ registrar[v].pc = "get"
      /\ q \in Seq(DomainNameEvent) /\ q # <<>>
  BY DEF UpdateRegistration, DiscardEvent, BeginRegistration, Take, TypeOK
<1>2. /\ domain_name_event_queue'[v] = Tail(q)
      /\ \A w \in Worker \ {v} :
           domain_name_event_queue'[w] = domain_name_event_queue[w]
      /\ UNCHANGED <<cluster, up, watch, registration_store>>
  BY <1>1 DEF Take, TypeOK, env_vars
<1>3. \A w \in Worker \ {v} : registrar'[w] = registrar[w]
  BY TakingMoves DEF Moves
<1>4. /\ q[1] = NextEvent(v)
      /\ \A k \in DOMAIN q : k = 1 \/ (/\ k - 1 \in DOMAIN Tail(q)
                                       /\ Tail(q)[k - 1] = q[k])
  BY <1>1 DEF NextEvent
<1> HIDE DEF q
<1>5. ASSUME NEW h \in Host, h \in AcmeZone,
             NextEvent(v).type # "DELETED", NextEvent(v).domain_name = h
      PROVE  Registered(v, h) \/ Posting(v, h)'
  <2>1. CASE UpdateRegistration(v)
    BY <1>5, <2>1 DEF UpdateRegistration
  <2>2. CASE DiscardEvent(v)
    BY <1>5, <2>2 DEF DiscardEvent
  <2>3. CASE BeginRegistration(v)
    BY <1>5, <2>3, RegistrarType
       DEF BeginRegistration, Proceed, Posting, RegistrarLocals
  <2> QED BY <2>1, <2>2, <2>3
<1>6. ASSUME NEW h \in Host, h \in AcmeZone, Asked(v, h)
      PROVE  Asked(v, h)' \/ Registered(v, h) \/ Posting(v, h)'
  <2>1. PICK k \in DOMAIN q : q[k].type # "DELETED" /\ q[k].domain_name = h
    BY <1>6 DEF Asked, q
  <2>2. CASE k = 1
    BY <1>4, <1>5, <1>6, <2>1, <2>2
  <2>3. CASE k # 1
    BY <1>2, <1>4, <2>1, <2>3 DEF Asked, q
  <2> QED BY <2>2, <2>3
<1>7. \A h \in Host : h \in AcmeZone /\ Due(v, h) => Due(v, h)'
  BY <1>1, <1>2, <1>6 DEF Due, Told, Posting, Registered
<1> QED BY <1>2, <1>3, <1>7, ListedKept

\* The rest of a pass: the POST registers its name, the others forget nothing.
LEMMA ListedRegistrar ==
  ASSUME "post" \notin Faults, SafetyInv, ListedInv, NEW v \in Worker,
         ACMEDnsRegistrar(v)
  PROVE  ListedInv'
<1>1. TypeOK
  BY DEF SafetyInv
<1>2. CASE UpdateRegistration(v) \/ DiscardEvent(v) \/ BeginRegistration(v)
  BY <1>1, <1>2, ListedTaking
<1>3. CASE RegisterAccount(v)
  <2>1. UNCHANGED <<cluster, up, watch, domain_name_event_queue>>
    BY <1>3 DEF RegisterAccount, env_vars, watcher_vars
  <2>2. /\ registrar[v].name \in Host
        /\ \A w \in Worker \ {v} : registrar'[w] = registrar[w]
        /\ \A w \in Worker, h \in Host : w # v \/ h # registrar[v].name =>
             registration_store'[w][h] = registration_store[w][h]
    BY <1>1, <1>3, RegisterEffect DEF Moves
  <2>3. registration_store'[v][registrar[v].name].account # 0
    <3>1. registration_store'[v][registrar[v].name].account = Len(accounts')
      BY <1>1, <1>3, RegisterEffect
    <3>2. Len(accounts') # 0
      BY <1>1, <1>3 DEF RegisterAccount, TypeOK
    <3> QED BY <3>1, <3>2
  <2>4. \A h \in Host : Due(v, h) => Due(v, h)'
    BY <2>1, <2>2, <2>3 DEF Due, Told, Asked, Posting, Registered
  <2> QED BY <2>1, <2>2, <2>4, ListedKept
<1>4. CASE RegisterFails(v)
  BY <1>4 DEF RegisterFails
<1>5. CASE ReadSecret(v) \/ PatchSecret(v) \/ SecretStoreFails(v) \/ FireEvent(v)
  <2>1. UNCHANGED <<cluster, up, watch, domain_name_event_queue,
                    registration_store>>
    BY <1>5 DEF ReadSecret, PatchSecret, SecretStoreFails, FireEvent, env_vars,
       watcher_vars
  <2>2. /\ registrar[v].pc # "post"
        /\ \A w \in Worker \ {v} : registrar'[w] = registrar[w]
    BY <1>1, <1>5, ReadEffect, PatchEffect, SecretStoreFailsMoves, FireEffect
       DEF Moves
  <2>3. \A h \in Host : Due(v, h) => Due(v, h)'
    BY <2>1, <2>2 DEF Due, Told, Asked, Posting, Registered
  <2> QED BY <2>1, <2>2, <2>3, ListedKept
<1> QED BY <1>2, <1>3, <1>4, <1>5 DEF ACMEDnsRegistrar

\* Every step keeps it.
LEMMA ListedStep ==
  ASSUME "post" \notin Faults
  PROVE  SafetyInv /\ ListedInv /\ [Next]_vars => ListedInv'
<1> SUFFICES ASSUME SafetyInv, ListedInv, [Next]_vars PROVE ListedInv'
  OBVIOUS
<1>1. TypeOK
  BY DEF SafetyInv
<1>2. CASE \/ \E g \in Ingress, s \in IngressSpec : ApplyIngress(g, s)
           \/ \E g \in Ingress : DeleteIngress(g)
  BY <1>1, <1>2, ListedChange
<1>3. ASSUME NEW v \in Worker, Start(v) PROVE ListedInv'
  BY <1>1, <1>3, ListedStart
<1>4. ASSUME NEW v \in Worker, Crash(v) PROVE ListedInv'
  <2>1. /\ ~up'[v]
        /\ \A w \in Worker \ {v} : /\ up'[w] = up[w] /\ watch'[w] = watch[w]
                                   /\ registrar'[w] = registrar[w]
        /\ UNCHANGED cluster
    BY <1>1, <1>4, CrashEffect DEF Crash, TypeOK, Moves
  <2>2. \A w \in Worker \ {v} :
          /\ registration_store'[w] = registration_store[w]
          /\ domain_name_event_queue'[w] = domain_name_event_queue[w]
    BY <1>1, <1>4, CrashEffect
  <2>3. ASSUME NEW w \in Worker, NEW h \in Host, up'[w], Requested(h)'
        PROVE  Due(w, h)'
    <3>1. w # v /\ Due(w, h)
      BY <2>1, <2>3 DEF ListedInv, Requested
    <3> QED BY <2>1, <2>2, <3>1 DEF Due, Told, Asked, Posting, Registered
  <2> QED BY <2>3 DEF ListedInv
<1>5. ASSUME NEW v \in Worker, handle_k8s_watch_event(v) PROVE ListedInv'
  BY <1>1, <1>5, ListedHandle
<1>6. ASSUME NEW v \in Worker, ACMEDnsRegistrar(v) PROVE ListedInv'
  BY <1>6, ListedRegistrar
<1>7. ASSUME NEW v \in Worker, DnsProviderProcessor(v) PROVE ListedInv'
  <2>1. UNCHANGED <<cluster, up, watch, domain_name_event_queue, registrar>>
    BY <1>7 DEF DnsProviderProcessor, ReceiveRegistrationEvent, EnsureCname,
       EnsureCnameFails, watcher_vars, registrar_vars, env_vars
  <2>2. \A w \in Worker, h \in Host :
          registration_store'[w][h].account = registration_store[w][h].account
    BY <1>1, <1>7, EnsureEffect, EnsureFailsEffect, ReceiveEffect
       DEF DnsProviderProcessor
  <2>3. \A h \in Host : Due(v, h) => Due(v, h)'
    BY <2>1, <2>2 DEF Due, Told, Asked, Posting, Registered
  <2> QED BY <2>1, <2>2, <2>3, ListedKept
<1>8. CASE UNCHANGED vars
  BY <1>8 DEF vars, env_vars, watcher_vars, registrar_vars, ListedInv,
     Requested, Due, Told, Asked, Posting, Registered
<1> QED BY <1>2, <1>3, <1>4, <1>5, <1>6, <1>7, <1>8 DEF Next, Environment

\* So it always holds, for any number of workers.
LEMMA ListedInvariant ==
  ASSUME "post" \notin Faults
  PROVE  Spec => []ListedInv
<1>1. Init => ListedInv
  BY DEF Init, ListedInv
<1>2. SafetyInv /\ ListedInv /\ [Next]_vars => ListedInv'
  BY ListedStep
<1> QED BY <1>1, <1>2, SafetyInvariant, PTL DEF Spec

\* With one worker, no name asked for both plain and as wildcard, and neither
\* acme-dns nor the update of the secret failing: once all is handled, the
\* secret has credentials for every name that a live Ingress asks for, whatever
\* a restart had dropped from it and whatever the providers answered.
THEOREM RequestedIsPublished ==
  ASSUME Worker # {}, OneWorker, NoneTwice, SecretIsUpdated,
         "post" \notin Faults
  PROVE  Spec => []IdleMeansPublished
<1>1. ASSUME PublishInv, ListedInv, Idle, NEW h \in Host, Requested(h),
             NEW w \in Worker
      PROVE  secret.entries[Stripped(h)] # 0
  <2>1. Due(w, h) /\ ~Told(w, h) /\ ~Asked(w, h) /\ ~Posting(w, h)
    BY <1>1 DEF ListedInv, Idle, Told, Asked, Posting
  <2>2. Registered(w, h) /\ ~Writing(w, h)
    BY <1>1, <2>1 DEF Due, Idle, Writing
  <2> QED BY <1>1, <2>2 DEF PublishInv, StoreInSecret, InSecret, Registered
<1>2. PublishInv /\ ListedInv => IdleMeansPublished
  BY <1>1 DEF IdleMeansPublished
<1> QED BY <1>2, PublishInvariant, ListedInvariant, PTL

-----------------------------------------------------------------------------
(* When the documentation is right.                                        *)

\* Every provider manages every name that is asked for.
AllManaged == \A p \in Provider : Named \subseteq Managed[p]
\* A name that some provider manages is managed by all before it.
WidestFirst ==
  \A i, j \in DOMAIN dns_providers :
    j <= i => Managed[dns_providers[i]] \subseteq Managed[dns_providers[j]]

\* README.md:42, "works with wildcards", is true of a cluster that asks for no
\* name both plain and as wildcard, if every provider manages the names.
THEOREM WildcardsWorkAlone ==
  ASSUME OneWorker, NoneTwice, SecretIsUpdated, AllAnswer, AllManaged
  PROVE  Spec => []WildcardsWork
<1>1. ASSUME NamesInv, IdleAgreement, Idle,
             NEW w \in Worker, NEW h \in Host, NEW p \in Provider,
             Registered(w, h)
      PROVE  Served(h, p)
  <2>1. PICK i \in DOMAIN dns_providers : dns_providers[i] = p
    BY ConstantsAssumption
  <2>2. \A j \in 1..i : dns_providers[j] \in Provider
    BY ConstantsAssumption
  <2>3. h \in Named
    BY <1>1 DEF NamesInv
  <2>4. Reached(h, i)
    BY <2>2, <2>3 DEF Reached, AllManaged
  <2> QED BY <1>1, <2>1, <2>4 DEF IdleAgreement
<1>2. NamesInv /\ IdleAgreement => WildcardsWork
  BY <1>1 DEF WildcardsWork
<1> QED BY <1>2, NamesInvariant, IdleMeansServed, PTL

\* dns-provider-config.yaml:39, that a provider manages the CNAMEs of the names
\* that match, is true if the providers come in the order of what they manage,
\* the one that manages most first; whether the secret is updated or not.
THEOREM ManagedNamesServedInOrder ==
  ASSUME OneWorker, NoneTwice, AllAnswer, WidestFirst
  PROVE  Spec => []ManagedNamesHaveRecords
<1>1. ASSUME TypeOK, RecordsInv, Idle,
             NEW w \in Worker, NEW h \in Host, NEW p \in Provider,
             Registered(w, h), h \in Managed[p]
      PROVE  record[p][h.base] # 0
  <2>1. PICK i \in DOMAIN dns_providers : dns_providers[i] = p
    BY ConstantsAssumption
  <2>2. \A j \in 1..i : j \in DOMAIN dns_providers /\ j <= i
    BY ConstantsAssumption
  <2>3. Reached(h, i)
    BY <1>1, <2>1, <2>2 DEF Reached, WidestFirst
  <2>4. ~Pending(w, h, i)
    BY <1>1 DEF Idle, Pending, Passing, Queued, InLoop
  <2> QED BY <1>1, <2>1, <2>3, <2>4 DEF RecordsInv, Registered
<1>2. TypeOK /\ RecordsInv => ManagedNamesHaveRecords
  BY <1>1 DEF ManagedNamesHaveRecords
<1> QED BY <1>2, TypeCorrect, RecordsInvariant, PTL
=============================================================================

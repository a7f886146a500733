------------------------------ MODULE Registrar ------------------------------
(***************************************************************************)
(* The registration pipeline of kubernetes-acme-dns-registrar: Ingress     *)
(* events become DomainNameEvents, DomainNameEvents become acme-dns        *)
(* registrations published in cert-manager's secret, and registrations     *)
(* become CNAME records at the DNS providers.                              *)
(*                                                                         *)
(* Each worker is one server process (uvicorn starts one or more of them)  *)
(* and runs its own RegistrarService: the k8swatcher thread, the           *)
(* ACMEDnsRegistrar thread and the DnsProviderProcessor thread, joined by  *)
(* two queues and an in-memory DictRegistrationStore.  The workers share   *)
(* the outside world only: the cluster, acme-dns, the secret and the DNS   *)
(* zones.  Everything of a worker is lost when it crashes.                 *)
(*                                                                         *)
(* Data.  A host name is its name without "*." plus a flag for "*.".  An   *)
(* acme-dns account (credentials and target domain together) is its        *)
(* number in the order acme-dns created it; 0 stands for "none".           *)
(* Timestamps, last_event_type, source_data and the JSON copies of answers *)
(* are left out: no decision of the pipeline reads them.                   *)
(***************************************************************************)
EXTENDS Integers, Sequences, FiniteSets

CONSTANTS
  Worker,         \* server processes, each with a RegistrarService
  Base,           \* host names without "*."
  Ingress,        \* names of Ingress objects
  IngressSpec,    \* the spec.tls contents an Ingress may have
  Absent,         \* the Ingress does not exist
  AcmeZone,       \* hosts for which acme-dns zone_configs has a match
  Provider,       \* enabled DNS providers
  NoProvider,     \* dns_cname_provider is None
  dns_providers,  \* the enabled providers in the order they are iterated
  Managed,        \* hosts for which a provider's zones have a match
  Replacing,      \* providers that replace a record by delete, then create
  SeedAnnotated,  \* may the seeded secret have an annotations map?
  Faults,         \* which remote calls may fail: "post", "secret", "dns"
  MaxChanges,     \* bound on changes of the cluster
  MaxCrashes      \* bound on crashes of workers

Host == [base : Base, wild : BOOLEAN]
DomainNameEventType == {"LOADED", "ADDED", "MODIFIED", "DELETED"}

ASSUME ConstantsAssumption ==
  /\ Base # {}
  /\ IsFiniteSet(Ingress)
  /\ IngressSpec \subseteq [hosts : Seq(Host), bare : BOOLEAN]
  /\ Absent \notin IngressSpec
  /\ AcmeZone \subseteq Host
  /\ NoProvider \notin Provider
  /\ dns_providers \in Seq(Provider)
  /\ \A p \in Provider : \E i \in DOMAIN dns_providers : dns_providers[i] = p
  /\ Managed \in [Provider -> SUBSET Host]
  /\ Replacing \subseteq Provider
  /\ SeedAnnotated \subseteq BOOLEAN
  /\ Faults \subseteq {"post", "secret", "dns"}
  /\ MaxChanges \in Nat
  /\ MaxCrashes \in Nat

VARIABLES
  cluster,                      \* the Ingress objects in Kubernetes
  up,                           \* is the worker running?
  watch,                        \* k8swatcher's events not yet handled
  domain_name_event_queue,
  registrar,                    \* ACMEDnsRegistrar: where it is, its locals
  registration_store,           \* the DictRegistrationStore
  acme_dns_registration_queue,
  processor,                    \* DnsProviderProcessor: where it is, its locals
  accounts,                     \* acme-dns: the host of each account
  secret,                       \* cert-manager's acme-dns.json secret
  record,                       \* the _acme-challenge CNAME records
  changes,                      \* cluster changes so far
  crashes                       \* crashes so far

env_vars == <<cluster, changes, up, crashes>>
watcher_vars == <<watch, domain_name_event_queue>>
registrar_vars == <<registrar, accounts, secret>>
processor_vars == <<processor, record>>
worker_vars == <<domain_name_event_queue, registrar, registration_store,
                 acme_dns_registration_queue, processor>>
vars == <<env_vars, watcher_vars, registrar_vars, registration_store,
          acme_dns_registration_queue, processor_vars>>

-----------------------------------------------------------------------------
(* Values.                                                                 *)

WatchEvent == [type : DomainNameEventType, spec : IngressSpec]
DomainNameEvent == [type : DomainNameEventType, domain_name : Host]
Registration == [account : Nat, provider : Provider \cup {NoProvider}]
AcmeDnsRegistrationEvent == [cname_name : Host, cname_target : Nat]

\* The store's answer for a name it does not hold.
NoRegistration == [account |-> 0, provider |-> NoProvider]
EmptyStore == [h \in Host |-> NoRegistration]

\* The registrar thread in Queue.get(); bound says whether some pass has
\* assigned its local acme_dns_registration.  version is the annotation read
\* from the secret, -1 for none; a secret without annotations has NoMap.
NoMap == -2
AnyHost == CHOOSE h \in Host : TRUE
WaitingRegistrar(bound) ==
  [pc |-> "get", name |-> AnyHost, bound |-> bound, version |-> -1]
NewRegistrar == WaitingRegistrar(FALSE)
RegistrarLocals == [pc : {"get", "post", "read", "patch", "fire"},
                    name : Host, bound : BOOLEAN, version : Int]
\* i is the position of the provider being invoked, 0 in Queue.get().
ProcessorLocals == [i : 0..Len(dns_providers), name : Host, target : Nat]
NewProcessor == [i |-> 0, name |-> AnyHost, target |-> 0]

Init ==
  /\ cluster \in [Ingress -> IngressSpec \cup {Absent}]
  /\ up = [w \in Worker |-> FALSE]
  /\ watch = [w \in Worker |-> <<>>]
  /\ domain_name_event_queue = [w \in Worker |-> <<>>]
  /\ registrar = [w \in Worker |-> NewRegistrar]
  /\ registration_store = [w \in Worker |-> EmptyStore]
  /\ acme_dns_registration_queue = [w \in Worker |-> <<>>]
  /\ processor = [w \in Worker |-> NewProcessor]
  /\ accounts = <<>>
  /\ \E annotated \in SeedAnnotated :
       secret = [entries |-> [h \in Host |-> 0],
                 version |-> IF annotated THEN -1 ELSE NoMap]
  /\ record = [p \in Provider |-> [b \in Base |-> 0]]
  /\ changes = 0
  /\ crashes = 0

-----------------------------------------------------------------------------
(* Kubernetes and the life of a worker.                                    *)

\* Every running worker watches the cluster on its own.
Notify(type, spec) ==
  watch' = [w \in Worker |->
              IF up[w] THEN Append(watch[w], [type |-> type, spec |-> spec])
                       ELSE watch[w]]

\* kubectl apply; a change of status only leaves the spec as it is.
ApplyIngress(g, s) ==
  /\ changes < MaxChanges
  /\ cluster' = [cluster EXCEPT ![g] = s]
  /\ Notify(IF cluster[g] = Absent THEN "ADDED" ELSE "MODIFIED", s)
  /\ changes' = changes + 1
  /\ UNCHANGED <<up, crashes, worker_vars, accounts, secret, record>>

DeleteIngress(g) ==
  /\ changes < MaxChanges
  /\ cluster[g] # Absent
  /\ cluster' = [cluster EXCEPT ![g] = Absent]
  /\ Notify("DELETED", cluster[g])
  /\ changes' = changes + 1
  /\ UNCHANGED <<up, crashes, worker_vars, accounts, secret, record>>

Present == {g \in Ingress : cluster[g] # Absent}
\* The orders in which the watcher may list the objects that exist.
Listings == {s \in [1..Cardinality(Present) -> Present] :
               \A a, b \in DOMAIN s : s[a] = s[b] => a = b}

\* Mutant: the watcher follows the changes and never lists what exists.
StartUnlisted(w) ==
  /\ ~up[w]
  /\ up' = [up EXCEPT ![w] = TRUE]
  /\ UNCHANGED <<watch, cluster, changes, crashes, worker_vars, accounts,
                 secret, record>>

\* RegistrarService.run(): new queues, an empty store, and a watcher that
\* first lists what exists and then follows the changes.
Start(w) ==
  /\ ~up[w]
  /\ up' = [up EXCEPT ![w] = TRUE]
  /\ \E s \in Listings :
       watch' = [watch EXCEPT ![w] =
                   [k \in DOMAIN s |-> [type |-> "LOADED",
                                        spec |-> cluster[s[k]]]]]
  /\ UNCHANGED <<cluster, changes, crashes, worker_vars, accounts, secret, record>>

CurrentProvider(w) == dns_providers[processor[w].i]

\* Mutant: the old record is deleted without a look at its target.
CutAnyRecord(w) ==
  /\ processor[w].i # 0
  /\ CurrentProvider(w) \in Replacing
  /\ processor[w].name \in Managed[CurrentProvider(w)]
  /\ record' = [record EXCEPT ![CurrentProvider(w)][processor[w].name.base] = 0]

\* A replacement cut between the delete and the create leaves no record.
CutReplacement(w) ==
  /\ processor[w].i # 0
  /\ CurrentProvider(w) \in Replacing
  /\ processor[w].name \in Managed[CurrentProvider(w)]
  /\ record[CurrentProvider(w)][processor[w].name.base] # processor[w].target
  /\ record' = [record EXCEPT ![CurrentProvider(w)][processor[w].name.base] = 0]

\* The process dies; queues, store and locals are in its memory only.
Crash(w) ==
  /\ up[w]
  /\ crashes < MaxCrashes
  /\ crashes' = crashes + 1
  /\ up' = [up EXCEPT ![w] = FALSE]
  /\ watch' = [watch EXCEPT ![w] = <<>>]
  /\ domain_name_event_queue' = [domain_name_event_queue EXCEPT ![w] = <<>>]
  /\ registrar' = [registrar EXCEPT ![w] = NewRegistrar]
  /\ registration_store' = [registration_store EXCEPT ![w] = EmptyStore]
  /\ acme_dns_registration_queue' =
       [acme_dns_registration_queue EXCEPT ![w] = <<>>]
  /\ processor' = [processor EXCEPT ![w] = NewProcessor]
  /\ UNCHANGED record \/ CutReplacement(w)
  /\ UNCHANGED <<cluster, changes, accounts, secret>>

-----------------------------------------------------------------------------
(* The k8swatcher thread: DomainNameEventCreator.                          *)

\* A tls entry without "hosts" raises KeyError before any host is returned.
extract_hosts(spec) == IF spec.bare THEN <<>> ELSE spec.hosts

\* One event per host.  Only the head of the queue is ever looked at, so
\* putting them one by one or at once makes no difference.

handle_k8s_watch_event(w) ==
  /\ up[w]
  /\ watch[w] # <<>>
  /\ LET e == Head(watch[w])
         hosts == extract_hosts(e.spec)
     IN domain_name_event_queue' =
          [domain_name_event_queue EXCEPT ![w] =
             @ \o [k \in 1..Len(hosts) |-> [type |-> e.type,
                                            domain_name |-> hosts[k]]]]
  /\ watch' = [watch EXCEPT ![w] = Tail(@)]
  /\ UNCHANGED <<env_vars, registrar_vars, registration_store,
                 acme_dns_registration_queue, processor_vars>>

-----------------------------------------------------------------------------
(* The ACMEDnsRegistrar thread: one pass of do_processing per event.       *)

Registered(w, h) == registration_store[w][h].account # 0
NextEvent(w) == Head(domain_name_event_queue[w])

\* Mutant: each pass starts with fresh locals.
WaitAfresh(w) == registrar' = [registrar EXCEPT ![w] = NewRegistrar]

\* The pass is over, normally or by an exception.
Wait(w) == registrar' = [registrar EXCEPT ![w] = WaitingRegistrar(@.bound)]
\* The pass goes on to pc with name h.
Proceed(w, pc, h) == registrar' = [registrar EXCEPT ![w].pc = pc, ![w].name = h]

\* Queue.get() returns the event.
Take(w) ==
  /\ up[w]
  /\ registrar[w].pc = "get"
  /\ domain_name_event_queue[w] # <<>>
  /\ domain_name_event_queue' =
       [domain_name_event_queue EXCEPT ![w] = Tail(@)]
  /\ UNCHANGED <<env_vars, watch, accounts, secret, registration_store,
                 acme_dns_registration_queue, processor_vars>>

\* The name is known: its registration is updated in place and put again,
\* whatever the event's type.  The log line that follows reads the local
\* acme_dns_registration and would raise if no pass had bound it.
UpdateRegistration(w) ==
  /\ Take(w)
  /\ Registered(w, NextEvent(w).domain_name)
  /\ IF registrar[w].bound THEN Proceed(w, "read", NextEvent(w).domain_name)
                           ELSE Wait(w)

\* A DELETED event for an unknown name is ignored; a name without a zone
\* config raises on None["acme_dns_registration_url"] and is dropped.
DiscardEvent(w) ==
  /\ Take(w)
  /\ ~Registered(w, NextEvent(w).domain_name)
  /\ \/ NextEvent(w).type = "DELETED"
     \/ NextEvent(w).domain_name \notin AcmeZone
  /\ Wait(w)

\* Mutant: the store is not asked whether the name is known.
BeginAgain(w) ==
  /\ Take(w)
  /\ NextEvent(w).type # "DELETED"
  /\ NextEvent(w).domain_name \in AcmeZone
  /\ Proceed(w, "post", NextEvent(w).domain_name)

BeginRegistration(w) ==
  /\ Take(w)
  /\ ~Registered(w, NextEvent(w).domain_name)
  /\ NextEvent(w).type # "DELETED"
  /\ NextEvent(w).domain_name \in AcmeZone
  /\ Proceed(w, "post", NextEvent(w).domain_name)

\* Mutant: the Registration is built from the answer of the pass before.
RegisterLastAnswer(w) ==
  /\ up[w]
  /\ registrar[w].pc = "post"
  /\ accounts' = Append(accounts, registrar[w].name)
  /\ registrar' = [registrar EXCEPT ![w].pc = "read", ![w].bound = TRUE]
  /\ registration_store' =
       [registration_store EXCEPT ![w][registrar[w].name] =
          [account |-> Len(accounts), provider |-> NoProvider]]
  /\ UNCHANGED <<env_vars, watcher_vars, secret, acme_dns_registration_queue,
                 processor_vars>>

\* The POST to acme-dns succeeded: the Registration is built and put.
RegisterAccount(w) ==
  /\ up[w]
  /\ registrar[w].pc = "post"
  /\ accounts' = Append(accounts, registrar[w].name)
  /\ registrar' = [registrar EXCEPT ![w].pc = "read", ![w].bound = TRUE]
  /\ registration_store' =
       [registration_store EXCEPT ![w][registrar[w].name] =
          [account |-> Len(accounts'), provider |-> NoProvider]]
  /\ UNCHANGED <<env_vars, watcher_vars, secret, acme_dns_registration_queue,
                 processor_vars>>

\* Mutant: the exception leaves do_processing and ends the thread.
RegisterFailsForGood(w) ==
  /\ up[w]
  /\ registrar[w].pc = "post"
  /\ "post" \in Faults
  /\ accounts' \in {accounts, Append(accounts, registrar[w].name)}
  /\ registrar' = [registrar EXCEPT ![w].pc = "dead"]
  /\ UNCHANGED <<env_vars, watcher_vars, secret, registration_store,
                 acme_dns_registration_queue, processor_vars>>

\* Mutant: the event of a failed registration is queued again.
RegisterFailsAndRetries(w) ==
  /\ up[w]
  /\ registrar[w].pc = "post"
  /\ "post" \in Faults
  /\ accounts' = accounts
  /\ Wait(w)
  /\ domain_name_event_queue' =
       [domain_name_event_queue EXCEPT ![w] =
          Append(@, [type |-> "MODIFIED", domain_name |-> registrar[w].name])]
  /\ UNCHANGED <<env_vars, watch, secret, registration_store,
                 acme_dns_registration_queue, processor_vars>>

\* The POST timed out, was refused, or answered with an error: the event is
\* dropped.  acme-dns may have created the account before the answer was lost.
RegisterFails(w) ==
  /\ up[w]
  /\ registrar[w].pc = "post"
  /\ "post" \in Faults
  /\ accounts' \in {accounts, Append(accounts, registrar[w].name)}
  /\ Wait(w)
  /\ UNCHANGED <<env_vars, watcher_vars, secret, registration_store,
                 acme_dns_registration_queue, processor_vars>>

Stripped(h) == [base |-> h.base, wild |-> FALSE]

\* patch_k8s_secret writes h's account under h, and a wildcard's also under
\* the name without "*.".
WritesKey(h, k) == h = k \/ (h.wild /\ k = Stripped(h))
Writers(st, k) == {h \in Host : st[h].account # 0 /\ WritesKey(h, k)}
\* The store is a dict, iterated in the order of insertion.  One thread
\* registers and inserts, so that is the order of the account numbers; the
\* last writer of a key wins.
LastOf(st, names) ==
  CHOOSE h \in names : \A g \in names : st[g].account <= st[h].account
\* Mutant: one dict of credentials is shared by all keys of the loop.
SecretDataShared(st) ==
  LET registered == {h \in Host : st[h].account # 0}
  IN [k \in Host |-> IF Writers(st, k) = {} THEN 0
                     ELSE st[LastOf(st, registered)].account]

SecretData(st) ==
  [k \in Host |-> IF Writers(st, k) = {} THEN 0
                  ELSE st[LastOf(st, Writers(st, k))].account]

\* Mutant: the event is fired while the secret is still to be patched.
ReadSecretAndFire(w) ==
  /\ up[w]
  /\ registrar[w].pc = "read"
  /\ secret.version # NoMap
  /\ registrar' = [registrar EXCEPT ![w].pc = "patch",
                                    ![w].version = secret.version]
  /\ acme_dns_registration_queue' =
       [acme_dns_registration_queue EXCEPT ![w] =
          Append(@, [cname_name |-> registrar[w].name,
                     cname_target |->
                       registration_store[w][registrar[w].name].account])]
  /\ UNCHANGED <<env_vars, watcher_vars, accounts, secret, registration_store,
                 processor_vars>>

\* put_acme_dns_registrations_k8s_secret_data reads the version annotation;
\* a secret without annotations makes that test raise on None.
ReadSecret(w) ==
  /\ up[w]
  /\ registrar[w].pc = "read"
  /\ secret.version # NoMap
  /\ registrar' = [registrar EXCEPT ![w].pc = "patch",
                                    ![w].version = secret.version]
  /\ UNCHANGED <<env_vars, watcher_vars, accounts, secret, registration_store,
                 acme_dns_registration_queue, processor_vars>>

\* Mutant: only this pass's registration is written.
PatchOneName(w) ==
  LET h == registrar[w].name
  IN /\ up[w]
     /\ registrar[w].pc = "patch"
     /\ secret' = [entries |-> SecretData([EmptyStore EXCEPT
                                 ![h] = registration_store[w][h]]),
                   version |-> registrar[w].version + 1]
     /\ registrar' = [registrar EXCEPT ![w].pc = "fire"]
     /\ UNCHANGED <<env_vars, watcher_vars, accounts, registration_store,
                    acme_dns_registration_queue, processor_vars>>

\* Mutant: what the secret holds already is kept.
PatchNewNames(w) ==
  LET new == SecretData(registration_store[w])
      old == secret.entries
  IN /\ up[w]
     /\ registrar[w].pc = "patch"
     /\ secret' = [entries |-> [k \in Host |-> IF old[k] = 0 THEN new[k]
                                                            ELSE old[k]],
                   version |-> registrar[w].version + 1]
     /\ registrar' = [registrar EXCEPT ![w].pc = "fire"]
     /\ UNCHANGED <<env_vars, watcher_vars, accounts, registration_store,
                    acme_dns_registration_queue, processor_vars>>

\* The key is replaced as a whole, with no check that the secret is still
\* the one that was read.  No pass but this one adds names to the store, so
\* its data may be taken here.  The answer is not used: if it is lost, or if
\* decoding the old data afterwards raises, the step is the same.
PatchSecret(w) ==
  /\ up[w]
  /\ registrar[w].pc = "patch"
  /\ secret' = [entries |-> SecretData(registration_store[w]),
                version |-> registrar[w].version + 1]
  /\ registrar' = [registrar EXCEPT ![w].pc = "fire"]
  /\ UNCHANGED <<env_vars, watcher_vars, accounts, registration_store,
                 acme_dns_registration_queue, processor_vars>>

\* Reading or patching raised before the secret changed; the store logs it
\* and the pass goes on.
SecretStoreFails(w) ==
  /\ up[w]
  /\ \/ registrar[w].pc = "read" /\ secret.version = NoMap
     \/ registrar[w].pc \in {"read", "patch"} /\ "secret" \in Faults
  /\ registrar' = [registrar EXCEPT ![w].pc = "fire"]
  /\ UNCHANGED <<env_vars, watcher_vars, accounts, secret, registration_store,
                 acme_dns_registration_queue, processor_vars>>

\* Mutant: the event carries the registration that was made last.
FireLastRegistration(w) ==
  /\ up[w]
  /\ registrar[w].pc = "fire"
  /\ acme_dns_registration_queue' =
       [acme_dns_registration_queue EXCEPT ![w] =
          Append(@, [cname_name |-> registrar[w].name,
                     cname_target |-> Len(accounts)])]
  /\ Wait(w)
  /\ UNCHANGED <<env_vars, watcher_vars, accounts, secret, registration_store,
                 processor_vars>>

FireEvent(w) ==
  /\ up[w]
  /\ registrar[w].pc = "fire"
  /\ acme_dns_registration_queue' =
       [acme_dns_registration_queue EXCEPT ![w] =
          Append(@, [cname_name |-> registrar[w].name,
                     cname_target |->
                       registration_store[w][registrar[w].name].account])]
  /\ Wait(w)
  /\ UNCHANGED <<env_vars, watcher_vars, accounts, secret, registration_store,
                 processor_vars>>

-----------------------------------------------------------------------------
(* The DnsProviderProcessor thread.                                        *)

\* Mutant: the loop runs one position too far.
AdvancePastLast(i, h, t) ==
  IF i <= Len(dns_providers) THEN [i |-> i + 1, name |-> h, target |-> t]
                             ELSE NewProcessor

\* The loop goes on with the provider after position i, or is over.
Advance(i, h, t) ==
  IF i < Len(dns_providers) THEN [i |-> i + 1, name |-> h, target |-> t]
                            ELSE NewProcessor

\* Queue.get() returned; a name without a registration raises.
ReceiveRegistrationEvent(w) ==
  /\ up[w]
  /\ processor[w].i = 0
  /\ acme_dns_registration_queue[w] # <<>>
  /\ LET e == Head(acme_dns_registration_queue[w])
     IN processor' = [processor EXCEPT ![w] =
          IF Registered(w, e.cname_name)
          THEN Advance(0, e.cname_name, e.cname_target)
          ELSE NewProcessor]
  /\ acme_dns_registration_queue' =
       [acme_dns_registration_queue EXCEPT ![w] = Tail(@)]
  /\ UNCHANGED <<env_vars, watcher_vars, registrar_vars, registration_store,
                 record>>

\* Mutant: the host's part of the record's name is lost.
EnsureCnameOfZone(w) ==
  /\ up[w]
  /\ processor[w].i # 0
  /\ processor[w].name \in Managed[CurrentProvider(w)]
  /\ record' = [record EXCEPT ![CurrentProvider(w)][AnyHost.base] =
                  processor[w].target]
  /\ registration_store' =
       [registration_store EXCEPT ![w][processor[w].name].provider =
          CurrentProvider(w)]
  /\ processor' = [processor EXCEPT ![w] = Advance(@.i, @.name, @.target)]
  /\ UNCHANGED <<env_vars, watcher_vars, registrar_vars,
                 acme_dns_registration_queue>>

\* Mutant: a record that exists is taken for the one that is wanted.
EnsureCnameExists(w) ==
  /\ up[w]
  /\ processor[w].i # 0
  /\ processor[w].name \in Managed[CurrentProvider(w)]
  /\ record' = [record EXCEPT ![CurrentProvider(w)][processor[w].name.base] =
                  IF @ = 0 THEN processor[w].target ELSE @]
  /\ registration_store' =
       [registration_store EXCEPT ![w][processor[w].name].provider =
          CurrentProvider(w)]
  /\ processor' = [processor EXCEPT ![w] = Advance(@.i, @.name, @.target)]
  /\ UNCHANGED <<env_vars, watcher_vars, registrar_vars,
                 acme_dns_registration_queue>>

\* ensure_cname_for_acme_dns returned a result: the record points at the
\* target, and the registration, mutated in place, names the provider.
EnsureCname(w) ==
  /\ up[w]
  /\ processor[w].i # 0
  /\ processor[w].name \in Managed[CurrentProvider(w)]
  /\ record' = [record EXCEPT ![CurrentProvider(w)][processor[w].name.base] =
                  processor[w].target]
  /\ registration_store' =
       [registration_store EXCEPT ![w][processor[w].name].provider =
          CurrentProvider(w)]
  /\ processor' = [processor EXCEPT ![w] = Advance(@.i, @.name, @.target)]
  /\ UNCHANGED <<env_vars, watcher_vars, registrar_vars,
                 acme_dns_registration_queue>>

\* What a failed call may leave in the record: nothing changed, the answer
\* was lost after the change, or the old record was deleted and the new one
\* not created.
AfterFailure(p, old, target) ==
  {old, target} \cup (IF p \in Replacing /\ old # target THEN {0} ELSE {})

\* The provider has no zone config for the name, or its API failed: it logs
\* and returns None.  Reading dns_cname_id of None raises, which abandons the
\* event and with it the providers that follow.
EnsureCnameFails(w) ==
  /\ up[w]
  /\ processor[w].i # 0
  /\ \/ /\ processor[w].name \notin Managed[CurrentProvider(w)]
        /\ UNCHANGED record
     \/ /\ processor[w].name \in Managed[CurrentProvider(w)]
        /\ "dns" \in Faults
        /\ LET p == CurrentProvider(w)
               b == processor[w].name.base
           IN \E r \in AfterFailure(p, record[p][b], processor[w].target) :
                record' = [record EXCEPT ![p][b] = r]
  /\ processor' = [processor EXCEPT ![w] = NewProcessor]
  /\ UNCHANGED <<env_vars, watcher_vars, registrar_vars, registration_store,
                 acme_dns_registration_queue>>

-----------------------------------------------------------------------------
(* The specification.                                                      *)

ACMEDnsRegistrar(w) ==
  \/ UpdateRegistration(w)
  \/ DiscardEvent(w)
  \/ BeginRegistration(w)
  \/ RegisterAccount(w)
  \/ RegisterFails(w)
  \/ ReadSecret(w)
  \/ PatchSecret(w)
  \/ SecretStoreFails(w)
  \/ FireEvent(w)

DnsProviderProcessor(w) ==
  \/ ReceiveRegistrationEvent(w)
  \/ EnsureCname(w)
  \/ EnsureCnameFails(w)

Environment ==
  \/ \E g \in Ingress, s \in IngressSpec : ApplyIngress(g, s)
  \/ \E g \in Ingress : DeleteIngress(g)
  \/ \E w \in Worker : Start(w) \/ Crash(w)

Next ==
  \/ Environment
  \/ \E w \in Worker : \/ handle_k8s_watch_event(w)
                       \/ ACMEDnsRegistrar(w)
                       \/ DnsProviderProcessor(w)

Spec == Init /\ [][Next]_vars

\* The threads run for as long as the process does, every remote call
\* answers or raises, and a stopped worker is started again.
Fairness ==
  \A w \in Worker : /\ WF_vars(Start(w))
                    /\ WF_vars(handle_k8s_watch_event(w))
                    /\ WF_vars(ACMEDnsRegistrar(w))
                    /\ WF_vars(DnsProviderProcessor(w))

FairSpec == Spec /\ Fairness
=============================================================================

------------------------ MODULE RegistrarRequirements ------------------------
(***************************************************************************)
(* What the pipeline of module Registrar has to guarantee.  The first part *)
(* holds whatever fails and however many workers run; the second part is   *)
(* what one worker guarantees under the conditions named with each         *)
(* property; the third states what the documentation says of the program   *)
(* and the code does not guarantee.                                        *)
(***************************************************************************)
EXTENDS Registrar

\* Every variable has its type.
TypeOK ==
  /\ cluster \in [Ingress -> IngressSpec \cup {Absent}]
  /\ up \in [Worker -> BOOLEAN]
  /\ watch \in [Worker -> Seq(WatchEvent)]
  /\ domain_name_event_queue \in [Worker -> Seq(DomainNameEvent)]
  /\ registrar \in [Worker -> RegistrarLocals]
  /\ registration_store \in [Worker -> [Host -> Registration]]
  /\ acme_dns_registration_queue \in [Worker -> Seq(AcmeDnsRegistrationEvent)]
  /\ processor \in [Worker -> ProcessorLocals]
  /\ accounts \in Seq(Host)
  /\ secret \in [entries : [Host -> Nat], version : Int]
  /\ record \in [Provider -> [Base -> Nat]]
  /\ changes \in 0..MaxChanges
  /\ crashes \in 0..MaxCrashes

-----------------------------------------------------------------------------
(* Whatever fails, for any number of workers.                              *)

\* a is an account that acme-dns created for name h.
AccountOf(a, h) == a \in DOMAIN accounts /\ accounts[a] = h

\* A worker's store never credits a name with another name's account.
StoreOwnsAccounts ==
  \A w \in Worker, h \in Host :
    Registered(w, h) => AccountOf(registration_store[w][h].account, h)

\* The pass that stores a registration and the thread that serves its CNAME
\* agree: a registration event, queued or in progress, names a registration
\* the store still holds, with the same target, although the store is updated
\* in between by both threads.  The "no Registration found" exception of
\* process_dns_registration_events is therefore unreachable.
EventsHaveRegistrations ==
  \A w \in Worker :
    /\ \A k \in DOMAIN acme_dns_registration_queue[w] :
         LET e == acme_dns_registration_queue[w][k]
         IN /\ Registered(w, e.cname_name)
            /\ e.cname_target = registration_store[w][e.cname_name].account
    /\ processor[w].i # 0 =>
         /\ Registered(w, processor[w].name)
         /\ processor[w].target = registration_store[w][processor[w].name].account

\* do_processing logs the local acme_dns_registration after every put, also on
\* the branch that does not assign it.  Whenever a name is in the store some
\* earlier pass of the same thread has bound the local, so the line never
\* raises: it relies on the store being as short-lived as the thread.
LoggedTargetBound ==
  \A w \in Worker :
    (\E h \in Host : Registered(w, h)) => registrar[w].bound

\* Under a name's key the secret holds credentials of an account created for
\* that name or for its wildcard, never another name's: a solver that finds a
\* key never answers a challenge with credentials of a stranger.
SecretTruth ==
  \A k \in Host : secret.entries[k] # 0 =>
    \E h \in Host : WritesKey(h, k) /\ AccountOf(secret.entries[k], h)

\* A _acme-challenge record only ever points at an account created for the
\* name it stands for or for its wildcard.
CnameTruth ==
  \A p \in Provider, b \in Base : record[p][b] # 0 =>
    \E h \in Host : h.base = b /\ AccountOf(record[p][b], h)

\* h's account a is in the store of a running worker.
Holds(a, h) ==
  \E w \in Worker : up[w] /\ registration_store[w][h].account = a

\* Whatever fails, and with any number of workers: a key of the secret or a
\* record is only ever turned to an account that the store of a running worker
\* holds.  An account whose answer was lost never comes to light, nor does one
\* of a worker that is gone: nothing queued or read before a crash acts later.
OrphansStayHidden ==
  [][/\ \A k \in Host : secret'.entries[k] \notin {0, secret.entries[k]} =>
          \E h \in Host : WritesKey(h, k) /\ Holds(secret'.entries[k], h)
     /\ \A p \in Provider, b \in Base : record'[p][b] \notin {0, record[p][b]} =>
          \E h \in Host : h.base = b /\ Holds(record'[p][b], h)]_vars

\* Seen from outside, the workers together do what module Delegation promises,
\* whatever fails and crashes: every change of accounts, secret and records is
\* one it allows.  In particular a record is lost only while it is replaced.
Promise == INSTANCE Delegation WITH credentials <- secret.entries
ImplementsPromise == Promise!Spec

-----------------------------------------------------------------------------
(* One worker, under the stated conditions.                                *)

Idle ==
  \A w \in Worker :
    /\ up[w]
    /\ watch[w] = <<>>
    /\ domain_name_event_queue[w] = <<>>
    /\ registrar[w].pc = "get"
    /\ acme_dns_registration_queue[w] = <<>>
    /\ processor[w].i = 0

\* The challenge for h can be answered at provider p: cert-manager looks up
\* the name without "*.", and the record points at the account it finds.
Served(h, p) ==
  /\ secret.entries[Stripped(h)] # 0
  /\ record[p][h.base] = secret.entries[Stripped(h)]

\* The loop over the providers comes to position i with h: every provider so
\* far manages h, for one that does not ends the loop.
Reached(h, i) == \A j \in 1..i : h \in Managed[dns_providers[j]]

\* If updating the secret and the calls to providers do not fail, and no name
\* is registered both plain and as wildcard: once all threads are idle, every
\* name in the store can be solved at every provider that the loop reaches
\* with it, whatever crashes and events came before.
IdleAgreement ==
  Idle => \A w \in Worker, h \in Host, i \in DOMAIN dns_providers :
            Registered(w, h) /\ Reached(h, i) => Served(h, dns_providers[i])

\* A live Ingress asks for h, and acme-dns has a zone for it.
Requested(h) ==
  /\ h \in AcmeZone
  /\ \E g \in Ingress : /\ cluster[g] # Absent
                        /\ \E k \in DOMAIN extract_hosts(cluster[g]) :
                             extract_hosts(cluster[g])[k] = h

\* If neither acme-dns nor updating the secret fails: once all threads are idle,
\* the secret has credentials for every name that a live Ingress asks for.  The
\* first pass after a restart replaces the key by what an almost empty store
\* holds, so names that were published are gone from it; the watcher's listing
\* puts every one of them back.
IdleMeansPublished ==
  Idle => \A h \in Host : Requested(h) => secret.entries[Stripped(h)] # 0

\* If updating the secret never fails and no name is registered both plain and
\* as wildcard: a record is only ever turned to an account whose credentials
\* are already in the secret, so that a challenge is never delegated to an
\* account nobody can use.
CnameAfterSecret ==
  [][\A p \in Provider, b \in Base :
       record'[p][b] \notin {0, record[p][b]} =>
         \E k \in Host : k.base = b /\ secret.entries[k] = record'[p][b]]_vars

\* If no call to a provider fails and no name is registered both plain and as
\* wildcard: the provider that a registration reports really holds a record
\* with the registration's target.
ReportedCname ==
  \A w \in Worker, h \in Host, p \in Provider :
    registration_store[w][h].provider = p =>
      record[p][h.base] = registration_store[w][h].account

\* If no answer of acme-dns is lost: a name gets at most one account in each
\* life of each worker, however often its Ingresses are applied and deleted.
AccountsPerLife ==
  \A h \in Host :
    Cardinality({a \in DOMAIN accounts : accounts[a] = h})
      <= Cardinality(Worker) + crashes

\* Whatever fails: what a running worker has published under a key of the
\* secret is never lost while it runs, although every update replaces the
\* whole key with what the store holds.
PublishedStays ==
  [][\A w \in Worker, k \in Host :
       /\ up[w] /\ up'[w]
       /\ secret.entries[k] # 0
       /\ \E h \in Host : /\ WritesKey(h, k)
                          /\ secret.entries[k] = registration_store[w][h].account
       => secret'.entries[k] # 0]_vars

\* What a worker still has to do: watch events, name events, the rest of the
\* registrar's pass, registration events, the rest of the loop over providers.
StepsOfPass(pc) == CASE pc = "post"  -> 4
                     [] pc = "read"  -> 3
                     [] pc = "patch" -> 2
                     [] pc = "fire"  -> 1
                     [] OTHER        -> 0
ProvidersLeft(i) == IF i = 0 THEN 0 ELSE Len(dns_providers) + 1 - i
Work(w) == <<Len(watch[w]),
             Len(domain_name_event_queue[w]),
             StepsOfPass(registrar[w].pc),
             Len(acme_dns_registration_queue[w]),
             ProvidersLeft(processor[w].i)>>
\* Work is compared like words in a dictionary.
LessWork(a, b) ==
  \E i \in 1..5 : /\ a[i] < b[i]
                  /\ \A j \in 1..(i-1) : a[j] = b[j]

\* Whatever fails: as long as the cluster and the set of running workers stay
\* as they are, every step is one worker getting on with its work.  No failure
\* puts work back, no two threads keep each other busy: the updates of known
\* names, which put registrations and fire events again, come to an end.
WorkIsFinite ==
  [][UNCHANGED <<changes, up>> =>
       \E w \in Worker : /\ LessWork(Work(w)', Work(w))
                         /\ \A v \in Worker \ {w} : Work(v)' = Work(v)]_vars

\* With any faults: a worker handles everything it was told, no failure stops
\* a thread for good.
Settles == <>[]Idle

\* If every remote call returns without failing, the seeded secret has
\* annotations and no name is asked for both plain and as wildcard: a name that
\* stays in a live Ingress is eventually served for good at every provider that
\* the loop reaches, crashes or not.
Provisioned ==
  \A h \in Host, i \in DOMAIN dns_providers :
    Reached(h, i) => (<>[]Requested(h) => <>[]Served(h, dns_providers[i]))
-----------------------------------------------------------------------------
(* What the documentation says.                                            *)

\* README.md:42, "works with wildcards": once idle, a registered wildcard can
\* be solved.  It cannot if the plain name is registered too: both are served
\* by one record and one key, and the record follows the last event.
WildcardsWork ==
  Idle => \A w \in Worker, h \in Host, p \in Provider :
            h.wild /\ Registered(w, h) => Served(h, p)

\* dns-provider-config.yaml:39 "only manage dns CNAMEs for ... that matches":
\* once idle, a provider that manages a registered name holds its record.  It
\* does not if a provider before it does not manage the name.
ManagedNamesHaveRecords ==
  Idle => \A w \in Worker, h \in Host, p \in Provider :
            Registered(w, h) /\ h \in Managed[p] => record[p][h.base] # 0
=============================================================================

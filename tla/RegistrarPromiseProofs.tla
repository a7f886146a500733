------------------------ MODULE RegistrarPromiseProofs ------------------------
(***************************************************************************)
(* Proofs about the registration pipeline as others see it: it implements  *)
(* module Delegation, for any number of workers and whatever fails; one    *)
(* worker loses nothing it has published; acme-dns gets no more accounts   *)
(* than there are lives of workers; and the work of a worker comes to its  *)
(* end.                                                                    *)
(***************************************************************************)
EXTENDS RegistrarProofs, WellFoundedInduction

-----------------------------------------------------------------------------
(* The pipeline implements Delegation.                                     *)

LEMMA SameNames == Promise!Name = Host
  BY DEF Promise!Name, Host

\* The initial states are initial states of the promise.
LEMMA PromiseInit == Init => Promise!Init
  BY SameNames DEF Init, Promise!Init

\* An account of a name is one of the accounts of its base.
LEMMA AccountOfBase ==
  ASSUME NEW h \in Host, NEW a, AccountOf(a, h)
  PROVE  a \in Promise!AccountsOf(h.base)
  BY DEF AccountOf, Promise!AccountsOf

\* The answer of acme-dns, or its loss, is an account or nothing.
LEMMA RegisterPromise ==
  ASSUME SafetyInv, NEW w \in Worker, RegisterAccount(w) \/ RegisterFails(w)
  PROVE  [Promise!Next]_(Promise!vars)
<1>1. registrar[w].name \in Host
  BY RegistrarType DEF SafetyInv
<1>2. /\ UNCHANGED <<secret, record>>
      /\ accounts' \in {accounts, Append(accounts, registrar[w].name)}
  BY DEF RegisterAccount, RegisterFails, processor_vars
<1>3. CASE UNCHANGED accounts
  BY <1>2, <1>3 DEF Promise!vars
<1>4. CASE accounts' = Append(accounts, registrar[w].name)
  BY <1>1, <1>2, <1>4, SameNames DEF Promise!Register, Promise!Next
<1> QED BY <1>2, <1>3, <1>4

\* The patch of the secret publishes accounts under the names they are for.
LEMMA PatchPromise ==
  ASSUME SafetyInv, SafetyInv', NEW w \in Worker, PatchSecret(w)
  PROVE  Promise!Publish
<1>1. UNCHANGED <<accounts, record>> /\ secret'.entries \in [Host -> Nat]
  BY DEF PatchSecret, processor_vars, SafetyInv, TypeOK
<1>2. ASSUME NEW k \in Host, secret'.entries[k] # 0
      PROVE  /\ secret'.entries[k] \in Promise!AccountsOf(k.base)
             /\ k.wild => accounts[secret'.entries[k]].wild
  <2>1. PICK h \in Host : /\ WritesKey(h, k)
                          /\ AccountOf(secret'.entries[k], h)
    BY <1>1, <1>2 DEF SafetyInv, SecretTruth, AccountOf
  <2>2. h.base = k.base /\ (k.wild => h.wild)
    BY <2>1 DEF WritesKey, Stripped
  <2> QED BY <2>1, <2>2, AccountOfBase DEF AccountOf
<1> QED BY <1>1, <1>2, SameNames DEF Promise!Publish

\* Turning one record to the processor's target delegates it.
LEMMA DelegatePromise ==
  ASSUME SafetyInv, NEW w \in Worker, processor[w].i # 0,
         NEW p \in Provider, UNCHANGED <<accounts, secret>>,
         record' = [record EXCEPT ![p][processor[w].name.base] =
                      processor[w].target]
  PROVE  Promise!Next
<1>1. processor[w].name \in Host /\ processor[w].name.base \in Base
  BY TargetIsOwn DEF Host
<1>2. processor[w].target \in Promise!AccountsOf(processor[w].name.base)
  BY <1>1, TargetIsOwn, AccountOfBase
<1>3. Promise!Delegate(p, processor[w].name.base)
  BY <1>2 DEF Promise!Delegate
<1> QED BY <1>1, <1>3 DEF Promise!Next

\* A record that goes away had another target than the one that is to come.
LEMMA WithdrawPromise ==
  ASSUME SafetyInv, NEW w \in Worker, processor[w].i # 0,
         NEW p \in Replacing, UNCHANGED <<accounts, secret>>,
         record[p][processor[w].name.base] # processor[w].target,
         record' = [record EXCEPT ![p][processor[w].name.base] = 0]
  PROVE  [Promise!Next]_(Promise!vars)
<1> DEFINE b == processor[w].name.base
<1>1. b \in Base /\ p \in Provider
  BY TargetIsOwn, ConstantsAssumption DEF Host
<1>2. processor[w].target \in Promise!AccountsOf(b) \ {record[p][b]}
  BY TargetIsOwn, AccountOfBase
<1>3. record \in [Provider -> [Base -> Nat]]
  BY DEF SafetyInv, TypeOK
<1> HIDE DEF b
<1>4. CASE record[p][b] = 0
  <2>1. record' = record
    BY <1>1, <1>3, <1>4 DEF b
  <2> QED BY <2>1 DEF Promise!vars
<1>5. CASE record[p][b] # 0
  <2>1. Promise!Withdraw(p, b)
    BY <1>2, <1>5 DEF Promise!Withdraw, b
  <2> QED BY <1>1, <2>1 DEF Promise!Next
<1> QED BY <1>4, <1>5

\* A failed call leaves the record, turns it, or takes it away.
LEMMA FailurePromise ==
  ASSUME SafetyInv, NEW w \in Worker, EnsureCnameFails(w)
  PROVE  [Promise!Next]_(Promise!vars)
<1> DEFINE p == CurrentProvider(w)
           b == processor[w].name.base
<1>1. /\ processor[w].i # 0 /\ p \in Provider /\ b \in Base
      /\ UNCHANGED <<accounts, secret>>
      /\ record \in [Provider -> [Base -> Nat]]
  BY CurrentProviderType, TargetIsOwn
     DEF EnsureCnameFails, registrar_vars, SafetyInv, TypeOK, Host
<1>2. CASE UNCHANGED record
  BY <1>1, <1>2 DEF Promise!vars
<1>3. ASSUME NEW r \in AfterFailure(p, record[p][b], processor[w].target),
             record' = [record EXCEPT ![p][b] = r]
      PROVE  [Promise!Next]_(Promise!vars)
  <2>1. CASE r = record[p][b]
    <3>1. record' = record
      BY <1>1, <1>3, <2>1
    <3> QED BY <1>1, <3>1 DEF Promise!vars
  <2>2. CASE r = processor[w].target
    BY <1>1, <1>3, <2>2, DelegatePromise
  <2>3. CASE r = 0 /\ p \in Replacing /\ record[p][b] # processor[w].target
    BY <1>1, <1>3, <2>3, WithdrawPromise
  <2> QED BY <2>1, <2>2, <2>3 DEF AfterFailure
<1> QED BY <1>2, <1>3 DEF EnsureCnameFails

\* Every step is a step of the promise, or changes nothing it tells of.
LEMMA PromiseStep ==
  ASSUME SafetyInv, SafetyInv', [Next]_vars
  PROVE  [Promise!Next]_(Promise!vars)
<1>1. CASE UNCHANGED <<accounts, secret, record>>
  BY <1>1 DEF Promise!vars
<1>2. ASSUME NEW w \in Worker, Crash(w)
      PROVE  [Promise!Next]_(Promise!vars)
  <2>1. UNCHANGED <<accounts, secret>>
    BY <1>2 DEF Crash
  <2>2. CASE UNCHANGED record
    BY <1>1, <2>1, <2>2
  <2>3. CASE CutReplacement(w)
    BY <2>1, <2>3, WithdrawPromise DEF CutReplacement
  <2> QED BY <1>2, <2>2, <2>3 DEF Crash
<1>3. ASSUME NEW w \in Worker, ACMEDnsRegistrar(w)
      PROVE  [Promise!Next]_(Promise!vars)
  <2>1. CASE RegisterAccount(w) \/ RegisterFails(w)
    BY <2>1, RegisterPromise
  <2>2. CASE PatchSecret(w)
    BY <2>2, PatchPromise DEF Promise!Next
  <2>3. CASE UpdateRegistration(w) \/ DiscardEvent(w) \/ BeginRegistration(w)
    BY <1>1, <2>3 DEF UpdateRegistration, DiscardEvent, BeginRegistration,
       Take, processor_vars
  <2>4. CASE ReadSecret(w) \/ SecretStoreFails(w) \/ FireEvent(w)
    BY <1>1, <2>4 DEF ReadSecret, SecretStoreFails, FireEvent, processor_vars
  <2> QED BY <1>3, <2>1, <2>2, <2>3, <2>4 DEF ACMEDnsRegistrar
<1>4. ASSUME NEW w \in Worker, DnsProviderProcessor(w)
      PROVE  [Promise!Next]_(Promise!vars)
  <2>1. CASE ReceiveRegistrationEvent(w)
    BY <1>1, <2>1 DEF ReceiveRegistrationEvent, registrar_vars
  <2>2. CASE EnsureCname(w)
    <3>1. CurrentProvider(w) \in Provider
      BY <2>2, CurrentProviderType DEF EnsureCname, SafetyInv
    <3> QED BY <2>2, <3>1, DelegatePromise DEF EnsureCname, registrar_vars
  <2>3. CASE EnsureCnameFails(w)
    BY <2>3, FailurePromise
  <2> QED BY <1>4, <2>1, <2>2, <2>3 DEF DnsProviderProcessor
<1>5. ASSUME NEW g \in Ingress, NEW s \in IngressSpec, ApplyIngress(g, s)
      PROVE  [Promise!Next]_(Promise!vars)
  BY <1>1, <1>5 DEF ApplyIngress
<1>6. ASSUME NEW g \in Ingress, DeleteIngress(g)
      PROVE  [Promise!Next]_(Promise!vars)
  BY <1>1, <1>6 DEF DeleteIngress
<1>7. ASSUME NEW w \in Worker, Start(w) \/ handle_k8s_watch_event(w)
      PROVE  [Promise!Next]_(Promise!vars)
  BY <1>1, <1>7 DEF Start, handle_k8s_watch_event, registrar_vars,
     processor_vars
<1>8. CASE UNCHANGED vars
  BY <1>1, <1>8 DEF vars, registrar_vars, processor_vars
<1> QED BY <1>2, <1>3, <1>4, <1>5, <1>6, <1>7, <1>8 DEF Next, Environment

\* Whatever fails and however many workers run: accounts, secret and records
\* only change as module Delegation allows.
THEOREM PipelineKeepsPromise == Spec => ImplementsPromise
<1>1. Init => Promise!Init
  BY PromiseInit
<1>2. SafetyInv /\ SafetyInv' /\ [Next]_vars => [Promise!Next]_(Promise!vars)
  BY PromiseStep
<1> QED BY <1>1, <1>2, SafetyInvariant, PTL
        DEF Spec, ImplementsPromise, Promise!Spec

-----------------------------------------------------------------------------
(* One worker loses nothing it has published.                              *)

\* What a store writes under a key is not lost by writing the whole store.
LEMMA WrittenStays ==
  ASSUME NEW st \in [Host -> Registration], NEW k \in Host, NEW h \in Host,
         WritesKey(h, k), st[h].account # 0
  PROVE  SecretData(st)[k] # 0
<1>1. Writers(st, k) # {}
  BY DEF Writers
<1>2. LastOf(st, Writers(st, k)) \in Writers(st, k)
  BY <1>1, LastOfIsWriter
<1> QED BY <1>1, <1>2 DEF SecretData, Writers

\* Only the patch changes the secret.
LEMMA SecretKept ==
  ASSUME [Next]_vars, \A w \in Worker : ~PatchSecret(w)
  PROVE  UNCHANGED secret
<1>1. ASSUME NEW w \in Worker, ACMEDnsRegistrar(w) PROVE UNCHANGED secret
  BY <1>1 DEF ACMEDnsRegistrar, UpdateRegistration, DiscardEvent, Take,
     BeginRegistration, RegisterAccount, RegisterFails, ReadSecret,
     SecretStoreFails, FireEvent
<1>2. ASSUME NEW w \in Worker, DnsProviderProcessor(w) PROVE UNCHANGED secret
  BY <1>2 DEF DnsProviderProcessor, ReceiveRegistrationEvent, EnsureCname,
     EnsureCnameFails, registrar_vars
<1>3. CASE Environment
  BY <1>3 DEF Environment, ApplyIngress, DeleteIngress, Start, Crash
<1>4. ASSUME NEW w \in Worker, handle_k8s_watch_event(w)
      PROVE  UNCHANGED secret
  BY <1>4 DEF handle_k8s_watch_event, registrar_vars
<1>5. CASE UNCHANGED vars
  BY <1>5 DEF vars, registrar_vars
<1> QED BY <1>1, <1>2, <1>3, <1>4, <1>5 DEF Next

\* If there is one worker, whatever fails: what it has published under a key
\* stays published while it runs.
THEOREM PublishedIsKept ==
  ASSUME \A v, w \in Worker : v = w
  PROVE  Spec => PublishedStays
<1>1. ASSUME TypeOK, [Next]_vars, NEW w \in Worker, NEW k \in Host,
             secret.entries[k] # 0, NEW h \in Host, WritesKey(h, k),
             secret.entries[k] = registration_store[w][h].account
      PROVE  secret'.entries[k] # 0
  <2>1. CASE PatchSecret(w)
    BY <1>1, <2>1, StoreType, WrittenStays DEF PatchSecret
  <2>2. CASE ~PatchSecret(w)
    <3>1. \A v \in Worker : ~PatchSecret(v)
      BY <2>2
    <3> QED BY <1>1, <3>1, SecretKept
  <2> QED BY <2>1, <2>2
<1>2. TypeOK /\ [Next]_vars =>
        \A w \in Worker, k \in Host :
          /\ up[w] /\ up'[w]
          /\ secret.entries[k] # 0
          /\ \E h \in Host :
               /\ WritesKey(h, k)
               /\ secret.entries[k] = registration_store[w][h].account
          => secret'.entries[k] # 0
  BY <1>1
<1>3. TypeOK /\ [Next]_vars =>
        [\A w \in Worker, k \in Host :
           /\ up[w] /\ up'[w]
           /\ secret.entries[k] # 0
           /\ \E h \in Host :
                /\ WritesKey(h, k)
                /\ secret.entries[k] = registration_store[w][h].account
           => secret'.entries[k] # 0]_vars
  BY <1>2
<1> QED BY <1>3, TypeCorrect, PTL DEF Spec, PublishedStays

-----------------------------------------------------------------------------
(* Accounts are created once per life of a worker.                         *)

AccountsFor(h) == {a \in DOMAIN accounts : accounts[a] = h}
Holders(h) == {w \in Worker : Registered(w, h)}

\* Each account of a name was created in the present life of a worker that
\* holds it, or in a life that has ended by a crash.
AccountsInv ==
  \A h \in Host : Cardinality(AccountsFor(h)) <= Cardinality(Holders(h)) + crashes

\* Both sets are finite.
LEMMA CountsAreNumbers ==
  ASSUME TypeOK, IsFiniteSet(Worker), NEW h \in Host
  PROVE  /\ IsFiniteSet(AccountsFor(h)) /\ Cardinality(AccountsFor(h)) \in Nat
         /\ IsFiniteSet(Holders(h)) /\ Cardinality(Holders(h)) \in Nat
         /\ Cardinality(Holders(h)) <= Cardinality(Worker)
         /\ Cardinality(Worker) \in Nat
         /\ crashes \in Nat
<1>1. DOMAIN accounts = 1..Len(accounts) /\ Len(accounts) \in Nat
  BY DEF TypeOK
<1>2. IsFiniteSet(1..Len(accounts))
  BY <1>1, FS_Interval
<1>3. AccountsFor(h) \subseteq 1..Len(accounts)
  BY <1>1 DEF AccountsFor
<1>4. IsFiniteSet(AccountsFor(h))
  BY <1>2, <1>3, FS_Subset
<1>5. Holders(h) \subseteq Worker
  BY DEF Holders
<1>6. /\ IsFiniteSet(Holders(h))
      /\ Cardinality(Holders(h)) <= Cardinality(Worker)
  BY <1>5, FS_Subset
<1>7. crashes \in Nat
  BY Bounds DEF TypeOK
<1> QED BY <1>4, <1>6, <1>7, FS_CardinalityType

\* A step that creates no account and ends no life counts the same.
LEMMA SameCounts ==
  ASSUME AccountsInv, UNCHANGED <<accounts, crashes>>,
         \A w \in Worker, h \in Host :
           registration_store'[w][h].account = registration_store[w][h].account
  PROVE  AccountsInv'
<1>1. \A h \in Host : /\ AccountsFor(h)' = AccountsFor(h)
                      /\ Holders(h)' = Holders(h)
  BY DEF AccountsFor, Holders, Registered
<1> QED BY <1>1 DEF AccountsInv

\* A new account has a new holder, because the name was not registered.
LEMMA RegisterCounts ==
  ASSUME SafetyInv, TypeOK', AccountsInv, IsFiniteSet(Worker),
         NEW w \in Worker, RegisterAccount(w)
  PROVE  AccountsInv'
<1> DEFINE n == registrar[w].name
           a == Len(accounts')
<1>1. TypeOK /\ n \in Host
  BY RegistrarType DEF SafetyInv
<1>2. /\ accounts' = Append(accounts, n)
      /\ UNCHANGED crashes
      /\ a \in Nat \ {0}
      /\ accounts \in Seq(Host)
  BY <1>1, AppendedAccount DEF RegisterAccount, env_vars, TypeOK
<1>3. \A v \in Worker, h \in Host :
        registration_store'[v][h].account =
          IF v = w /\ h = n THEN a ELSE registration_store[v][h].account
  BY <1>1, StoreType DEF RegisterAccount
<1>4. ~Registered(w, n)
  BY DEF SafetyInv, PassInv, RegisterAccount
<1>5. ASSUME NEW h \in Host
      PROVE  Cardinality(AccountsFor(h))' <= Cardinality(Holders(h))' + crashes'
  <2> HIDE DEF n
  <2>1. CASE h # n
    <3>1. AccountsFor(h)' = AccountsFor(h)
      BY <1>2, <2>1 DEF AccountsFor
    <3>2. Holders(h)' = Holders(h)
      BY <1>3, <2>1 DEF Holders, Registered
    <3> QED BY <1>2, <3>1, <3>2 DEF AccountsInv
  <2>2. CASE h = n
    <3>1. /\ AccountsFor(h)' = AccountsFor(h) \cup {Len(accounts) + 1}
          /\ Len(accounts) + 1 \notin AccountsFor(h)
      BY <1>2, <2>2 DEF AccountsFor
    <3>2. /\ Holders(h)' = Holders(h) \cup {w}
          /\ w \notin Holders(h)
      BY <1>2, <1>3, <1>4, <2>2 DEF Holders, Registered
    <3>3. /\ Cardinality(AccountsFor(h)') = Cardinality(AccountsFor(h)) + 1
          /\ Cardinality(Holders(h)') = Cardinality(Holders(h)) + 1
      BY <1>1, <3>1, <3>2, CountsAreNumbers, FS_AddElement
    <3> QED BY <1>1, <1>2, <3>3, CountsAreNumbers DEF AccountsInv
  <2> QED BY <2>1, <2>2
<1> QED BY <1>5 DEF AccountsInv

\* A crash ends one life: one holder less at most, one crash more.
LEMMA CrashCounts ==
  ASSUME TypeOK, TypeOK', AccountsInv, IsFiniteSet(Worker),
         NEW w \in Worker, Crash(w)
  PROVE  AccountsInv'
<1>1. /\ UNCHANGED accounts
      /\ crashes' = crashes + 1
  BY DEF Crash
<1>2. \A v \in Worker, h \in Host :
        registration_store'[v][h].account =
          IF v = w THEN 0 ELSE registration_store[v][h].account
  BY DEF Crash, EmptyStore, NoRegistration, TypeOK
<1>3. ASSUME NEW h \in Host
      PROVE  Cardinality(AccountsFor(h))' <= Cardinality(Holders(h))' + crashes'
  <2>1. AccountsFor(h)' = AccountsFor(h)
    BY <1>1 DEF AccountsFor
  <2>2. Holders(h)' = Holders(h) \ {w}
    BY <1>2 DEF Holders, Registered
  <2>3. Cardinality(Holders(h) \ {w}) \in {Cardinality(Holders(h)),
                                           Cardinality(Holders(h)) - 1}
    <3>1. IsFiniteSet(Holders(h))
      BY CountsAreNumbers
    <3> QED BY <3>1, FS_RemoveElement
  <2> QED BY <1>1, <2>1, <2>2, <2>3, CountsAreNumbers DEF AccountsInv
<1> QED BY <1>3 DEF AccountsInv

\* Every other step changes no account in the stores.
LEMMA CountsStep ==
  ASSUME SafetyInv, SafetyInv', AccountsInv, IsFiniteSet(Worker),
         "post" \notin Faults, [Next]_vars
  PROVE  AccountsInv'
<1>1. TypeOK /\ TypeOK'
  BY DEF SafetyInv
<1>2. CASE UNCHANGED <<registration_store, accounts, crashes>>
  BY <1>2, SameCounts
<1>3. ASSUME NEW w \in Worker, Crash(w) PROVE AccountsInv'
  BY <1>1, <1>3, CrashCounts
<1>4. ASSUME NEW w \in Worker, ACMEDnsRegistrar(w) PROVE AccountsInv'
  <2>1. CASE RegisterAccount(w)
    BY <1>1, <2>1, RegisterCounts
  <2>2. CASE UpdateRegistration(w) \/ DiscardEvent(w) \/ BeginRegistration(w)
    BY <1>2, <2>2 DEF UpdateRegistration, DiscardEvent, BeginRegistration,
       Take, env_vars
  <2>3. CASE ReadSecret(w) \/ PatchSecret(w) \/ SecretStoreFails(w) \/ FireEvent(w)
    BY <1>2, <2>3 DEF ReadSecret, PatchSecret, SecretStoreFails, FireEvent,
       env_vars
  <2>4. ~RegisterFails(w)
    BY DEF RegisterFails
  <2> QED BY <1>4, <2>1, <2>2, <2>3, <2>4 DEF ACMEDnsRegistrar
<1>5. ASSUME NEW w \in Worker, DnsProviderProcessor(w) PROVE AccountsInv'
  <2>1. CASE ReceiveRegistrationEvent(w) \/ EnsureCnameFails(w)
    BY <1>2, <2>1 DEF ReceiveRegistrationEvent, EnsureCnameFails, env_vars,
       registrar_vars
  <2>2. CASE EnsureCname(w)
    <3>1. UNCHANGED <<accounts, crashes>>
      BY <2>2 DEF EnsureCname, env_vars, registrar_vars
    <3>2. \A v \in Worker, h \in Host :
            registration_store'[v][h].account = registration_store[v][h].account
      BY <1>1, <2>2, StoreType, ProcessorType DEF EnsureCname, Registration
    <3> QED BY <3>1, <3>2, SameCounts
  <2> QED BY <1>5, <2>1, <2>2 DEF DnsProviderProcessor
<1>6. CASE \/ \E g \in Ingress, s \in IngressSpec : ApplyIngress(g, s)
           \/ \E g \in Ingress : DeleteIngress(g)
           \/ \E w \in Worker : Start(w)
  BY <1>2, <1>6 DEF ApplyIngress, DeleteIngress, Start, worker_vars
<1>7. ASSUME NEW w \in Worker, handle_k8s_watch_event(w) PROVE AccountsInv'
  BY <1>2, <1>7 DEF handle_k8s_watch_event, env_vars, registrar_vars
<1>8. CASE UNCHANGED vars
  BY <1>2, <1>8 DEF vars, env_vars, registrar_vars
<1> QED BY <1>3, <1>4, <1>5, <1>6, <1>7, <1>8 DEF Next, Environment

\* If no answer of acme-dns is lost: a name gets at most one account per life
\* of a worker, for any names and any finite number of workers.
THEOREM OneAccountPerLife ==
  ASSUME IsFiniteSet(Worker), "post" \notin Faults
  PROVE  Spec => []AccountsPerLife
<1>1. Init => AccountsInv
  <2> SUFFICES ASSUME Init, NEW h \in Host
               PROVE  Cardinality(AccountsFor(h))
                        <= Cardinality(Holders(h)) + crashes
    BY DEF AccountsInv
  <2>1. AccountsFor(h) = {}
    BY DEF Init, AccountsFor
  <2> QED BY <2>1, TypeInit, CountsAreNumbers, FS_EmptySet
<1>2. SafetyInv /\ SafetyInv' /\ AccountsInv /\ [Next]_vars => AccountsInv'
  BY CountsStep
<1>3. SafetyInv /\ AccountsInv => AccountsPerLife
  <2> SUFFICES ASSUME TypeOK, AccountsInv, NEW h \in Host
               PROVE  Cardinality({a \in DOMAIN accounts : accounts[a] = h})
                        <= Cardinality(Worker) + crashes
    BY DEF AccountsPerLife, SafetyInv
  <2>1. Cardinality(AccountsFor(h)) <= Cardinality(Holders(h)) + crashes
    BY DEF AccountsInv
  <2>2. Cardinality(AccountsFor(h)) <= Cardinality(Worker) + crashes
    BY <2>1, CountsAreNumbers
  <2> QED BY <2>2 DEF AccountsFor
<1> QED BY <1>1, <1>2, <1>3, SafetyInvariant, PTL DEF Spec

-----------------------------------------------------------------------------
(* The work of the workers comes to an end.                                *)

\* What Work(v) is computed from.
Agenda(v) == <<watch[v], domain_name_event_queue[v], registrar[v].pc,
               acme_dns_registration_queue[v], processor[v].i>>
Alone(w) == \A v \in Worker \ {w} : Agenda(v)' = Agenda(v)
WorkStep(w) == /\ LessWork(Work(w)', Work(w))
               /\ \A v \in Worker \ {w} : Work(v)' = Work(v)

\* Work has the parts that LessWork compares, all of them numbers.
LEMMA WorkType ==
  ASSUME TypeOK, NEW w \in Worker PROVE Work(w) \in [1..5 -> Nat]
<1>1. /\ Len(watch[w]) \in Nat
      /\ Len(domain_name_event_queue[w]) \in Nat
      /\ Len(acme_dns_registration_queue[w]) \in Nat
  BY DEF TypeOK
<1>2. StepsOfPass(registrar[w].pc) \in Nat
  BY DEF StepsOfPass
<1>3. ProvidersLeft(processor[w].i) \in Nat
  BY ProcessorType, ConstantsAssumption DEF ProvidersLeft
<1> QED BY <1>1, <1>2, <1>3 DEF Work

\* A worker gets on if one part of its work shrinks and none before it grows.
LEMMA GetsOn ==
  ASSUME NEW w \in Worker, Alone(w),
         NEW i \in 1..5, Work(w)'[i] < Work(w)[i],
         \A j \in 1..(i-1) : Work(w)'[j] = Work(w)[j]
  PROVE  WorkStep(w)
<1>1. \A v \in Worker \ {w} : Work(v)' = Work(v)
  BY DEF Alone, Agenda, Work
<1> QED BY <1>1 DEF WorkStep, LessWork

\* The five ways to get on.
LEMMA GetsOnBy ==
  ASSUME TypeOK, NEW w \in Worker, Alone(w),
         \/ Len(watch'[w]) < Len(watch[w])
         \/ /\ watch'[w] = watch[w]
            /\ \/ Len(domain_name_event_queue'[w]) < Len(domain_name_event_queue[w])
               \/ /\ domain_name_event_queue'[w] = domain_name_event_queue[w]
                  /\ \/ StepsOfPass(registrar'[w].pc) < StepsOfPass(registrar[w].pc)
                     \/ /\ registrar'[w].pc = registrar[w].pc
                        /\ \/ Len(acme_dns_registration_queue'[w])
                                < Len(acme_dns_registration_queue[w])
                           \/ /\ acme_dns_registration_queue'[w]
                                   = acme_dns_registration_queue[w]
                              /\ ProvidersLeft(processor'[w].i)
                                   < ProvidersLeft(processor[w].i)
  PROVE  WorkStep(w)
<1> DEFINE a == Work(w)'
           b == Work(w)
<1>1. /\ a[1] = Len(watch'[w]) /\ b[1] = Len(watch[w])
      /\ a[2] = Len(domain_name_event_queue'[w])
      /\ b[2] = Len(domain_name_event_queue[w])
      /\ a[3] = StepsOfPass(registrar'[w].pc)
      /\ b[3] = StepsOfPass(registrar[w].pc)
      /\ a[4] = Len(acme_dns_registration_queue'[w])
      /\ b[4] = Len(acme_dns_registration_queue[w])
      /\ a[5] = ProvidersLeft(processor'[w].i)
      /\ b[5] = ProvidersLeft(processor[w].i)
  BY DEF Work
<1> HIDE DEF a, b
<1>2. \/ a[1] < b[1]
      \/ a[2] < b[2] /\ a[1] = b[1]
      \/ a[3] < b[3] /\ a[1] = b[1] /\ a[2] = b[2]
      \/ a[4] < b[4] /\ a[1] = b[1] /\ a[2] = b[2] /\ a[3] = b[3]
      \/ a[5] < b[5] /\ a[1] = b[1] /\ a[2] = b[2] /\ a[3] = b[3] /\ a[4] = b[4]
  BY <1>1
<1>3. /\ 1..(1-1) = {} /\ 1..(2-1) = {1} /\ 1..(3-1) = {1, 2}
      /\ 1..(4-1) = {1, 2, 3} /\ 1..(5-1) = {1, 2, 3, 4}
  OBVIOUS
<1>4. \E i \in 1..5 : a[i] < b[i] /\ \A j \in 1..(i-1) : a[j] = b[j]
  BY <1>2, <1>3
<1> QED BY <1>4, GetsOn DEF a, b

\* The watcher: one watch event less.
LEMMA HandleWork ==
  ASSUME TypeOK, NEW w \in Worker, handle_k8s_watch_event(w)
  PROVE  WorkStep(w)
<1>1. Len(watch'[w]) < Len(watch[w])
  <2>1. /\ watch[w] \in Seq(WatchEvent) /\ watch[w] # <<>>
        /\ watch'[w] = Tail(watch[w])
    BY DEF handle_k8s_watch_event, TypeOK
  <2> QED BY <2>1
<1>2. Alone(w)
  BY DEF handle_k8s_watch_event, TypeOK, Alone, Agenda, registrar_vars,
     processor_vars
<1> QED BY <1>1, <1>2, GetsOnBy

\* The registrar takes up an event: one name event less, whatever the pass
\* has before it.
LEMMA TakeWork ==
  ASSUME TypeOK, NEW w \in Worker,
         \/ UpdateRegistration(w) \/ DiscardEvent(w) \/ BeginRegistration(w)
  PROVE  WorkStep(w)
<1>1. Take(w)
  BY DEF UpdateRegistration, DiscardEvent, BeginRegistration
<1>2. \A v \in Worker \ {w} : registrar'[v] = registrar[v]
  BY RegistrarType
     DEF UpdateRegistration, DiscardEvent, BeginRegistration, Wait, Proceed
<1>3. Len(domain_name_event_queue'[w]) < Len(domain_name_event_queue[w])
  <2>1. /\ domain_name_event_queue[w] \in Seq(DomainNameEvent)
        /\ domain_name_event_queue[w] # <<>>
        /\ domain_name_event_queue'[w] = Tail(domain_name_event_queue[w])
    BY <1>1 DEF Take, TypeOK
  <2> QED BY <2>1
<1>4. Alone(w) /\ watch'[w] = watch[w]
  BY <1>1, <1>2 DEF Take, TypeOK, Alone, Agenda, processor_vars
<1> QED BY <1>3, <1>4, GetsOnBy

\* The pass goes on: whether a call succeeds or fails, fewer steps are left.
LEMMA PassWork ==
  ASSUME TypeOK, NEW w \in Worker,
         \/ RegisterAccount(w) \/ RegisterFails(w) \/ ReadSecret(w)
         \/ PatchSecret(w) \/ SecretStoreFails(w) \/ FireEvent(w)
  PROVE  WorkStep(w)
<1>1. StepsOfPass(registrar'[w].pc) < StepsOfPass(registrar[w].pc)
  <2>1. \/ registrar[w].pc = "post" /\ registrar'[w].pc \in {"read", "get"}
        \/ registrar[w].pc = "read" /\ registrar'[w].pc \in {"patch", "fire"}
        \/ registrar[w].pc = "patch" /\ registrar'[w].pc = "fire"
        \/ registrar[w].pc = "fire" /\ registrar'[w].pc = "get"
    BY RegistrarType
       DEF RegisterAccount, RegisterFails, ReadSecret, PatchSecret,
           SecretStoreFails, FireEvent, Wait, WaitingRegistrar, RegistrarLocals
  <2> QED BY <2>1 DEF StepsOfPass
<1>2. \A v \in Worker \ {w} :
        /\ registrar'[v] = registrar[v]
        /\ acme_dns_registration_queue'[v] = acme_dns_registration_queue[v]
  BY DEF RegisterAccount, RegisterFails, ReadSecret, PatchSecret,
         SecretStoreFails, FireEvent, Wait, TypeOK
<1>3. UNCHANGED <<watch, domain_name_event_queue, processor>>
  BY DEF RegisterAccount, RegisterFails, ReadSecret, PatchSecret,
         SecretStoreFails, FireEvent, watcher_vars, processor_vars
<1> QED BY <1>1, <1>2, <1>3, GetsOnBy DEF Alone, Agenda

\* The processor takes up an event, or is done with a provider.
LEMMA ProcessorWork ==
  ASSUME TypeOK, NEW w \in Worker, DnsProviderProcessor(w)
  PROVE  WorkStep(w)
<1>1. UNCHANGED <<watch, domain_name_event_queue, registrar>>
  BY DEF DnsProviderProcessor, ReceiveRegistrationEvent, EnsureCname,
         EnsureCnameFails, watcher_vars, registrar_vars
<1>2. \A v \in Worker \ {w} :
        /\ acme_dns_registration_queue'[v] = acme_dns_registration_queue[v]
        /\ processor'[v] = processor[v]
  BY ProcessorType
     DEF DnsProviderProcessor, ReceiveRegistrationEvent, EnsureCname,
         EnsureCnameFails, TypeOK
<1>3. Alone(w) /\ watch'[w] = watch[w] /\ registrar'[w].pc = registrar[w].pc
      /\ domain_name_event_queue'[w] = domain_name_event_queue[w]
  BY <1>1, <1>2 DEF Alone, Agenda
<1>4. CASE ReceiveRegistrationEvent(w)
  <2>1. /\ acme_dns_registration_queue[w] \in Seq(AcmeDnsRegistrationEvent)
        /\ acme_dns_registration_queue[w] # <<>>
        /\ acme_dns_registration_queue'[w] = Tail(acme_dns_registration_queue[w])
    BY <1>4 DEF ReceiveRegistrationEvent, TypeOK
  <2>2. Len(acme_dns_registration_queue'[w]) < Len(acme_dns_registration_queue[w])
    BY <2>1
  <2> QED BY <1>3, <2>2, GetsOnBy
<1>5. CASE EnsureCname(w) \/ EnsureCnameFails(w)
  <2>1. /\ acme_dns_registration_queue'[w] = acme_dns_registration_queue[w]
        /\ processor[w].i # 0
    BY <1>5 DEF EnsureCname, EnsureCnameFails
  <2>2. \/ processor'[w].i = 0
        \/ processor'[w].i = processor[w].i + 1 /\ processor[w].i < Len(dns_providers)
    BY <1>5, ProcessorType DEF EnsureCname, EnsureCnameFails, Advance, NewProcessor
  <2>3. processor[w].i \in 1..Len(dns_providers) /\ Len(dns_providers) \in Nat
    BY <2>1, ProcessorType, ConstantsAssumption
  <2>4. ProvidersLeft(processor'[w].i) < ProvidersLeft(processor[w].i)
    BY <2>2, <2>3 DEF ProvidersLeft
  <2> QED BY <1>3, <2>1, <2>4, GetsOnBy
<1> QED BY <1>4, <1>5 DEF DnsProviderProcessor

\* All other steps change the cluster or the set of running workers.
LEMMA EnvironmentCounts ==
  ASSUME TypeOK, Environment PROVE ~UNCHANGED <<changes, up>>
<1>1. ASSUME NEW w \in Worker, Start(w) PROVE up'[w] # up[w]
  BY <1>1 DEF Start, TypeOK
<1>2. ASSUME NEW w \in Worker, Crash(w) PROVE up'[w] # up[w]
  BY <1>2 DEF Crash, TypeOK
<1>3. changes \in Nat
  BY Bounds DEF TypeOK
<1>4. ASSUME changes' = changes + 1 PROVE changes' # changes
  BY <1>3, <1>4
<1> QED BY <1>1, <1>2, <1>4 DEF Environment, ApplyIngress, DeleteIngress

\* Whatever fails, every step of a worker is a step towards the end of its
\* work: WorkIsFinite.  Nothing is put back by an exception, and no thread's
\* work is more than what the threads before it have done.
THEOREM EveryStepGetsOn == Spec => WorkIsFinite
<1>1. ASSUME TypeOK, [Next]_vars
      PROVE  [UNCHANGED <<changes, up>> => \E w \in Worker : WorkStep(w)]_vars
  <2>1. CASE \E w \in Worker : \/ handle_k8s_watch_event(w)
                               \/ ACMEDnsRegistrar(w)
                               \/ DnsProviderProcessor(w)
    BY <1>1, <2>1, HandleWork, TakeWork, PassWork, ProcessorWork
       DEF ACMEDnsRegistrar
  <2>2. CASE Environment
    BY <1>1, <2>2, EnvironmentCounts
  <2>3. CASE UNCHANGED vars
    BY <2>3
  <2> QED BY <1>1, <2>1, <2>2, <2>3 DEF Next
<1>2. TypeOK /\ [Next]_vars
      => [UNCHANGED <<changes, up>> =>
            \E w \in Worker : /\ LessWork(Work(w)', Work(w))
                              /\ \A v \in Worker \ {w} : Work(v)' = Work(v)]_vars
  BY <1>1 DEF WorkStep
<1> QED BY <1>2, TypeCorrect, PTL DEF Spec, WorkIsFinite

\* The order that WorkIsFinite speaks of has no infinite descent.
LEMMA LessWorkIsWellFounded ==
  ~ \E f \in [Nat -> [1..5 -> Nat]] : \A n \in Nat : LessWork(f[n + 1], f[n])
<1> DEFINE Works == [1..5 -> Nat]
           Shorter == LexProductOrdering(OpToRel(<, Nat), Nat, 5)
<1>1. IsWellFoundedOn(Shorter, Works)
  BY NatLessThanWellFounded, WFLexProductOrdering
<1>2. ASSUME NEW a \in Works, NEW b \in Works, LessWork(a, b)
      PROVE  <<a, b>> \in Shorter
  BY <1>2 DEF LessWork, LexProductOrdering, OpToRel
<1> HIDE DEF Shorter
<1>3. ASSUME NEW f \in [Nat -> Works], \A n \in Nat : LessWork(f[n + 1], f[n])
      PROVE  \A n \in Nat : <<f[n + 1], f[n]>> \in Shorter
  <2>1. \A n \in Nat : f[n] \in Works /\ f[n + 1] \in Works
    <3> HIDE DEF Works
    <3> QED BY <1>3
  <2> QED BY <1>2, <1>3, <2>1
<1> QED BY <1>1, <1>3 DEF IsWellFoundedOn
=============================================================================

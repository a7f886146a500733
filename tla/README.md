# Verification of kubernetes-acme-dns-registrar

TLA+ models of the registrar (`src/` is the repository), TLC configurations
that check them on small instances, and TLAPS proofs that hold for every value
of the constants. All line numbers below are lines of files under `src/`.

## 1. The system and its parts

The program watches Kubernetes for Ingresses, registers each TLS host at an
acme-dns server, publishes all accounts in the secret that cert-manager's
acme-dns solver reads, and points `_acme-challenge.<host>` at the account's
domain in each configured DNS provider.

| component | source | state | operations |
|---|---|---|---|
| watcher and `DomainNameEventCreator` | `core/k8s.py` | none of its own | one `DomainNameEvent` per host of an Ingress event |
| `ACMEDnsRegistrar` (thread) | `core/acmedns.py` | locals of the current pass | update or register a name, patch the secret, fire an event |
| `DictRegistrationStore` | `core/store.py:33-52` | dict of `Registration` | put, get, get all; no lock |
| `AcmeDnsK8sSecretStore` | `core/store.py:55-146` | none; the secret is in the cluster | read, then patch the whole key |
| `DnsProviderProcessor` (thread) | `core/__init__.py:23-100` | locals of the current event | ask each provider in turn, update the registration |
| Cloudflare provider | `core/dnsprovider/cloudflare` | API clients | POST, GET, DELETE, POST |
| Azure providers | `core/dnsprovider/azure.py`, `azuredns`, `azureprivatedns` | API clients | create_or_update |
| provider configuration | `core/dnsprovider/__init__.py`, `core/utils.py` | `zone_configs`, `zone_clients` | merge files, inherit settings, compile patterns, build clients, find a name's zone |
| `RegistrarService`, bootstrap | `core/__init__.py:102-177`, `main.py:47-65` | queues, store, threads, globals of `main` | construct and start all of the above, part by part |
| registrations API | `main.py:133-171` | none | serve the live store |
| OAuth2, JWT, IdP | `main.py:70-131, 187-225`, `core/security.py`, `core/idp.py` | principals and signing key, read once at start-up | issue and check tokens |
| settings | `core/settings.py` | none; environment and mounted files | a value, None or an exception for each constructor |
| health | `core/health.py`, `core/__init__.py:145-149` | its route | always reports success |
| logging | `core/logging.py` | none | - |

How they interact: the watcher puts `DomainNameEvent`s in one unbounded queue;
the registrar thread takes them, writes the store and puts
`AcmeDnsRegistationEvent`s in a second unbounded queue; the processor thread
takes those and writes the store too; the event loop reads the store for the
API. Everything is in the memory of one uvicorn worker, and each worker runs
the whole pipeline (`main.py:59`). Workers share only the cluster, acme-dns,
the secret, the DNS zones, the mounted files and the tokens that clients hold.

What is hard:

- **order**: accounts, secret and records are written by different threads,
  connected by queues; the record must not precede the credentials;
- **partial failure**: every remote call may fail before or after its effect;
  failures are swallowed at three different levels, with different
  consequences for the rest of the pass;
- **crash and restart**: all that the program knows is in memory;
- **start-up**: constructors that raise half-way leave a process that serves
  requests with some of its threads, and a watcher that fills a queue nobody
  reads;
- **time and revocation**: tokens outlive the worker that issued them, a
  replaced key or principal reaches a worker only when it restarts, and a
  token's expiry is computed in local time;
- **several workers**: whole-key replacement of the secret and
  delete-then-create of records by processes that do not know each other;
- **no lock**: three threads share the `Registration` objects;
- **names**: a wildcard and its plain name are two registrations but one
  record and one key of the secret.

What makes each part correct is stated in the modules' property sections and
summarised in section 3.

## 2. Modules

| module | models | kind |
|---|---|---|
| `Registrar` | watcher, registrar, store, secret store, processor, life of workers | the pipeline: state and actions |
| `RegistrarRequirements` | | its properties |
| `Delegation` | what others can see of the pipeline | abstract specification; `Registrar` implements it |
| `MCRegistrar` | | small instances of the pipeline |
| `RegistrarProofs` | | types, the truths and what comes to light, whatever fails |
| `RegistrarPromiseProofs` | | the refinement, `PublishedStays`, `AccountsPerLife`, `WorkIsFinite` |
| `RegistrarAgreementProofs` | | what one worker guarantees under conditions, and when the documentation is right |
| `EnsureCname` | the contract of `ensure_cname_for_acme_dns` | abstract specification |
| `Cloudflare`, `CloudflareProofs` | `cloudflare/__init__.py` call by call | implements `EnsureCname` |
| `AzureDns`, `AzureDnsProofs` | `azure.py` | implements `EnsureCname` |
| `DnsProviderConfig`, `DnsProviderConfigProofs` | `init_config`, `post_config_init`, `find_config` | sequential algorithm |
| `RecordNames`, `MCDnsProviderConfig` | `get_relative_recordset_name` | algorithm on names, and its small instance |
| `RegistrationsApi`, `MCRegistrationsApi`, `RegistrationsApiProofs` | the store's objects field by field, with both threads and an API request | fine-grained view of the store |
| `Bootstrap` | the import of `main.py`, `RegistrarService.run`, `SmartSettings` | how a worker comes up, or half up |
| `Server`, `MCServer`, `ServerProofs` | token endpoint, JWT, principals, access to the API; composed with `Bootstrap` | tokens over several lives of workers |

Operators whose comment begins with *Mutant* are wrong on purpose: each is the
definition after it with a plausible bug, and shows that a property of the runs
would notice that bug. They are part of no specification.

### Registrar

One pass of `do_processing` is cut where another thread, another worker or the
outside world can be noticed:

| `registrar[w].pc` | next action | code |
|---|---|---|
| `get` | `UpdateRegistration`, `DiscardEvent`, `BeginRegistration` | `acmedns.py:66-90` |
| `post` | `RegisterAccount`, `RegisterFails` | `acmedns.py:96-133` |
| `read` | `ReadSecret`, `SecretStoreFails` | `store.py:107-117` |
| `patch` | `PatchSecret`, `SecretStoreFails` | `store.py:121-146` |
| `fire` | `FireEvent` | `acmedns.py:138-142` |

`UpdateRegistration` includes the log line at `acmedns.py:133`, which reads a
local that this branch does not assign: if no pass of the thread had bound it,
the pass would end there. `PatchSecret` replaces the key by `SecretData`, which
walks the store in the order of insertion as `patch_k8s_secret` does.
`processor[w].i` is the position in `dns_providers`; `EnsureCname` is a call
that returned a result together with the update of the registration, and
`EnsureCnameFails` the `AttributeError` on None that abandons the event.
`CutReplacement` is a crash between Cloudflare's DELETE and POST.

Data is reduced to what the properties tell apart: an account is its number in
the order of creation, a host a base name plus a flag for `*.`, a record or a
key of the secret the number of an account. The parts of a `Registration` that
no decision reads (times, event type, JSON copies) are in `RegistrationsApi`.

`Delegation` states the same system without workers, threads, queues and
stores: accounts are only ever added, the secret shows an account under the
names it is for, and a record is turned to an account of its name, or withdrawn
by a replacing provider while another account waits for its place. `Promise`
in `RegistrarRequirements` maps `credentials` to `secret.entries` and the rest
to itself; `ImplementsPromise` is checked by TLC and proved.

### Cloudflare, AzureDns and EnsureCname

`Registrar` treats a call to a provider as one step with the outcomes of
`EnsureCname`. `Cloudflare` splits it into API requests of concurrent callers,
each of which may fail before or after taking effect, and TLC and TLAPS both
show that it implements `EnsureCname`; `AzureDns` is the same for the single
`create_or_update`. The APIs themselves are external: one record per name, ids
that are never reused, 81053 if an A, AAAA or CNAME record is in the way.

### DnsProviderConfig

Each turn of the loops at `dnsprovider/__init__.py:79-82` is a step, and so are
the compiling of all patterns (`:87`) and the client of each zone. The value of a
setting is where it was written, which is all that precedence is about; the
reference definition is `Effective`. The constructor may raise at each of these
places: on a provider without secrets or zones, on a setting that is nowhere, on
a pattern that `re` refuses (`malformed`), and on a value that the client library
refuses (`refused`, a choice of the environment: which values these are is not in
this repository). `FailsExactlyIfUnusable` compares that with `Unusable`, which
looks at the files only and knows no order. `Managed` of `Registrar` comes from here
(`Manages`).

`RecordNames` adds how a record is named: `Registrar` keeps records by the host
without `*.`, and `RecordNamesHost` is why that is right. A name is its sequence
of labels; removing the zone's name, which the code does wherever it occurs,
and the `*` leave empty labels, and `strip('.')` takes those at both ends.

### RegistrationsApi

A step is one field assigned or encoded, the grain at which CPython threads can
interleave. `get_all` returns the dict itself; the framework's iterator is made
later, together with the first item (`BeginWalk`), and raises at any later item,
or at the end, if the dict has grown since. `FieldsNeverGoBack` justifies the coarser `Registrar`, in which
registrar and processor update a registration atomically.

### Bootstrap and Server

| state | code |
|---|---|
| `installed` | environment variables and mounted files, as `SmartSettings` would see them now |
| `main[w]` | the next statement of `main.py`'s try block (`main.py:47-65`), or its outcome: `serving`, or `limping` after an exception that the block logs |
| `jwt_key[w]`, `principals[w]` | `JWTService.jwt_encoding_key` and `DefaultIdpService.principals`, read once |
| `service[w]`, `threads[w]` | the next statement of `RegistrarService.run` (`core/__init__.py:110-136`), and the threads that run |
| `domain_name_events[w]`, `registration_events[w]` | lengths of the two queues |
| `now`, `tokens` | the clock, and the tokens in the hands of clients |

Each statement of the import and of `run` that can raise is a step, which reads
`installed` at that moment; `Needs` says what it loads. The exceptions go where
the code lets them go: `AppSettingsRaises` ends the process, because the
decorators after the try block need `app`; `BootstrapRaises` leaves it serving
without the rest of the services; `ServiceDies` ends the thread of `run` and
leaves the watcher running. A key file that is missing is no exception but a key
None (`settings.py:30`), so `JWTService` succeeds. What `Registrar` does in one
step `Start` is the successful course of `Bootstrap`; `Register` and `Delegate`
stand for whole passes of its threads.

`Server` adds the clock and the tokens. `Install` replaces files under running
workers, and `current` holds the workers begun since. A token's expiry goes
through local time as in `security.py:76`: `Local` and `timestamp` know one hour,
at `FallBack`, in which the clock is turned back, so that a token issued just
before lives two hours. `get_registrations` is the status of an answer: 500 where
the code lets an unexpected exception out, 401, or 200.

## 3. Runs

All runs were made with two TLC workers; `pipeline` takes two to three minutes,
each other one at most a minute.

| run | bounds | shows |
|---|---|---|
| `pipeline` | 2 workers, interchangeable, 2 base names (4 hosts), 1 Ingress, 1 change, 1 crash, lost answers of acme-dns and failing providers | types; `StoreOwnsAccounts`, `EventsHaveRegistrations`, `LoggedTargetBound`, `SecretTruth`, `CnameTruth`; `OrphansStayHidden`: only accounts that a running worker knows come to light, and nothing of a crashed one |
| `agreement` | 1 worker, 2 providers of which the second manages fewer hosts, 2 changes, 1 crash, a tls entry without hosts, no faults | `IdleAgreement`, `CnameAfterSecret`, `ReportedCname`, `AccountsPerLife`; `IdleMeansPublished`: the secret is whole again once idle; `Provisioned`: a requested name is eventually served for good at each provider that the loop reaches with it |
| `settles` | as above, all faults, a seed secret with or without annotations, names without zone | `Settles`: every event is handled, whatever fails; `WorkIsFinite`: no failure makes work again; `PublishedStays`; `ImplementsPromise` |
| `cloudflare` | 2 callers, 2 targets, 4 calls, failing requests | `RecordSurvives`, `RemovesOnlyOutdated`, `ResultIsLive`, `CallsEnd`, `ImplementsContract` |
| `azure` | 2 callers, 2 targets, 3 calls | `ImplementsContract` |
| `config` | 2 zones, 2 settings, all files, zones with a pattern that does not compile, at most one value refused, 5 hosts | `EffectiveValues`, `FailsExactlyIfUnusable`, `ZonesHaveClients`, `RecordNamesHost` |
| `api` | 3 names, interchangeable, 3 events, 1 request | `FieldsNeverGoBack`, `ViewComplete`, `TimestampIsLast`, `RequestsGetOn` |
| `server` | 1 worker, 2 installations, 1 event, 2 crashes, 2 keys, 1 principal, clock 0..3, hour 1, 1 token | `HalfBuiltIsInert`, `TokensLastAsTold`, `RevocationTakesEffect`, `AnswersStay`; `RestsOnlyWhenUp`, `StartIsFinite`: whatever is missing, a start ends, and half-way only with a trace; `PipelineComesUp`: with nothing missing, all threads run and work off what came before |

Why the bounds are enough: one crash is the shortest way to a store that knows
less than the secret, and a second adds nothing new since a crash resets all
local state. In `pipeline` the crash comes at any point of one worker's work while
the other's store knows other accounts, so that what the dead one had queued or
read could still act if the code let it. `TwoSpecs` there has a name and the
wildcard of another, one at a time, so that the workers list different states of
the Ingress. Its faults are those that leave something behind: an account nobody
knows, a record turned or lost. An update of the secret that fails changes nothing
(the theorems hold with it); it is in `settles`, and so is a wildcard with its own
plain name: `ImplementsPromise` there includes what `SecretTruth` and `CnameTruth` say
of new keys and records. Two changes let an Ingress be created and replaced, or replaced and
deleted, between any two steps. The Ingress contents (`PairSpecs`,
`PlainBareSpecs`) hold two hosts so that passes of different names follow each
other, a wildcard with its plain name, or a wildcard without it. Two providers
are needed for an abandoned event to matter; in `agreement` the second manages
only some of the hosts, so that the loop also ends early. Four Cloudflare calls let a caller
call again, and replace again, between the two requests of a replacement by the
other. The variable `failed` of `Cloudflare` is a history variable: it lets one
run state `RecordSurvives` for the behaviours in which no request has raised.
Three API events let the third name be registered, or one of the others updated,
while a request walks over two. One refused value is enough for `config`, since
clients are built one after the other and the first refusal ends it. In
`server` one worker is enough since workers meet only in the files and the
tokens: a later life of the worker, begun after an installation, stands for the
other. Two installations change a thing and put it back, or change key and
principals one after the other; `MCDeployment` has one thing missing at a time,
and two in a row between two statements. The clock is turned back at 2 of
0..3, so that tokens are issued before, within and after the hour that local
time has twice. The runs
do not check deadlock: when the bounded changes are used up and all is handled,
the system waits.

### What the code does not guarantee

Four runs look for something that a document says and find it violated. For
three of them a theorem says when the document is right.

| run | document | what TLC shows | when the document is right |
|---|---|---|---|
| `wildcard_and_plain` | README.md:42 | `*.foo` and `foo`: the record follows the last event, the key of the secret the later registration | `WildcardsWorkAlone`: one worker, no name is asked for both ways, every provider manages it, nothing but acme-dns fails |
| `skipped_provider` | dns-provider-config.yaml:39 | a provider that does not manage a name hides the name from the next | `ManagedNamesServedInOrder`: one worker, no provider manages a name that one before it does not, no name is asked for both ways, no call to a provider fails |
| `secrets_replace_zones` | dns-provider-secrets.yaml:12 | a zone override in the secrets replaces the zones of the config | `SecretsWithoutZonesAreMerged`: the secrets have no zones, and zones are keyed by their names |
| `api_view_fails` | README.md:224 | a registration during GET /registrations makes the request fail | if the request is for one name, or no name is registered between the first item and the end: `NextItem` has no other way to fail |

Five more limits follow from the code; the properties are stated around them:

- with several workers (README.md:147) each registers every name for itself, so
  the secret's key and the record of a name may come from different workers:
  `pipeline` claims that both are the name's own, not that they agree;
- the first update after a restart publishes only what has been registered
  since (README.md:253 says the secret contains all registrations):
  `PublishedStays` speaks of a worker while it runs, and `IdleMeansPublished` says
  that what is still asked for is back when all is handled;
- a seed secret without annotations is never patched (`store.py:113`; the manifest
  in docs/setup.md has none, though `kubectl apply` adds one): what is claimed of
  the secret assumes an annotated seed, and `settles` shows only that the rest of
  the pipeline goes on;
- what was registered is known to memory only, so a restarted worker registers
  anew (README.md:76 says registered names are not): `AccountsPerLife` counts one
  account per life;
- one tls entry without `hosts` hides all hosts of its Ingress (`k8s.py:33`):
  `Provisioned` promises only what `extract_hosts` returns.

`IdleMeansPublished` is stated for one worker, an acme-dns that answers and a
secret that can be updated. `IdleAgreement`, `CnameAfterSecret` and `ReportedCname`
are stated for one worker and names that are not asked for both ways, the first two for a
secret that can be updated (the store swallows a failure), the first and the last
for providers that answer. That a provider does not manage a name is no failure:
`IdleAgreement` and `Provisioned` speak of the providers that the loop reaches with
it (`Reached`), up to the first that does not manage it. `PublishedStays` holds with any fault but, of course,
only for the one worker that runs on. `RevocationTakesEffect` speaks of workers
begun after the change: a running one keeps the key and the principals that it
read (`idp.py:41`), whatever the files say. A worker without a signing key and
one whose import failed answer every request with an error but keep running; one
that has once answered a client has its store, its key and its principals for
good, and `AnswersStay` says that no death of a thread in it turns that client away
with a 500. The 500 of a worker whose store is not assigned yet ends with the
assignment (`PipelineComesUp`). The health check of a worker whose `RegistrarService` died reports success
(`core/__init__.py:148`): `PipelineComesUp` therefore assumes that no setting is
ever missing, and `RestsOnlyWhenUp` lists what is seen of a worker when one was
(`Degraded`).

### Fairness

`Fairness` is weak fairness of each thread of each worker and of `Start`. The
threads loop forever and catch every exception; a dead container is restarted
by its Deployment (`helm/templates/deployment.yaml`). Weak fairness of a thread
includes that **every remote call answers or raises**. For acme-dns the code
sees to that (`timeout=30`, `acmedns.py:96`); the Kubernetes and Cloudflare
clients are called without a timeout, so there it is an assumption. `Crash` and
the changes of the cluster are not fair. In `Server` the import (with the start
of a process that ended), `RegistrarService.run` and the two threads are weakly
fair; installations, requests and the clock are not. In `Cloudflare` each caller's next
request is fair. `RegistrationsApi` has no fairness: its properties are about what
a step may do.

## 4. Proofs

Proved with TLAPS, from the assumptions named in the modules
(`ConstantsAssumption`, `CloudflareAssumption`, `AzureDnsAssumption`,
`DnsProviderConfigAssumption`, `NamesAssumption`, `ApiAssumption`, `BootAssumption`,
`TimeAssumption`) and the conditions that a theorem states.

**RegistrarProofs**: `TypeCorrect` and the five truths, for any number of workers,
names, Ingresses and providers and any set of faults. The truths are not
inductive by themselves. `FireEvent` reads the store for the name of the pass, so
`PassInv` adds what each `pc` knows: in `post` the name is not registered (no
other thread registers it in between), in `read`, `patch` and `fire` it is.
With it, `EventsHaveRegistrations` follows because the store's account of a
registered name never changes, and `SecretTruth` and `CnameTruth` because
accounts are only appended, so that `AccountOf` is never falsified. A lemma per
group of actions proves what the group preserves; `SafetyInvariant` joins them. `OrphansStayUnseen` follows step by
step: what `PatchSecret` writes is the store's, and so is the processor's target
by `EventsHaveRegistrations`.

**RegistrarPromiseProofs**: `SafetyInv` is enough to map every step to a step of
`Delegation` or to a stutter; the delicate ones are `PatchSecret`, whose keys
must be accounts of their names, and a replacement that is cut, which needs that
the old target and the new one are two accounts of the name.
`PublishedIsKept` (one worker): what the store writes under a key it writes again.
`OneAccountPerLife` (finitely many workers, no lost answer): `AccountsInv` bounds the
accounts of a name by the workers that hold a registration for it plus the
crashes; each new account makes a holder, each lost holder is a crash.
`EveryStepGetsOn` compares what a worker has to do before and after each step, five
numbers in the order of their weight: watch events, name events, steps of the
pass, registration events, providers left. A pass turns one name event into at
most one registration event, and that into at most one loop, so each step makes
an earlier number smaller; failures and the putting of known names again
included. That such an order is well-founded is a fact about numbers
(`LessWorkIsWellFounded`, from the library's theorem on lexicographic products);
`Settles` adds only that the threads get their turns.

**RegistrarAgreementProofs**: for one worker, and names asked for one way
(`NoneTwice`). `NamesInv` says that only names of Ingresses are dealt with.
`PublishInv` says that each registered name is in the secret or in the pass that
is about to write it, and the name of each queued or handled event is in the
secret; it needs that the data written holds each name under the key that is
looked up (`OneWriter`), and that `ReadSecret` never finds a secret without
annotations. Hence `CredentialsBeforeCname`. `RecordsInv` says that for each
registered name and each position of `dns_providers` the record agrees, or the
name is pending: in a pass, in a queued event, or in the loop at this position or
before; a position that the loop does not reach with the name needs nothing. When
the worker is idle nothing is pending, and `PublishInv` and `RecordsInv` meet in
`IdleMeansServed`. `RequestedIsPublished` adds `ListedInv`, for any number of
workers: a running worker has each requested name in its store, in its pass, in a
name event or in a watch event that is no deletion; a worker that starts gets it
from the listing, since a list of as many objects as there are, each once, has
them all (`AllListed`). `WildcardsWorkAlone` and `ManagedNamesServedInOrder` are the same
as `IdleMeansServed` for every position, under the conditions in section 3. `ReportsAreTrue` adds to `ReportedCname` that
only registered names report a provider, so that no two reports share a record.

**CloudflareProofs**: the invariant says that the zone's id is at most
`last_id`, that a record read by a caller either is still the zone's or has an id
that will not come back, and that it was outdated when read. `RemovesOnlyOutdated`,
`ForeignStays` and `ResultIsLive` follow step by step; `RecordSurvives` needs
in addition that, while no request has raised, an empty zone has a caller that is
about to create. `CallsOnlyGetOn`: each
request of a call leads to a later one or to its end, so that callers that want
different targets cannot keep each other going. The refinement maps each request
to a step of `EnsureCname` or to a stutter.

**AzureDnsProofs**: the same contract for the one-request provider.

**DnsProviderConfigProofs**: `CopyInv` says that the settings before the loops'
positions are effective and the others as written; with `MergeInv`, `CompileInv` and
`ClientInv` it yields the properties of `DnsProviderConfig` for any files.
`FailuresHaveReasons` goes both ways: each place that raises has a reason in the
files as they were before the loops, and a provider that got to its end has passed
all places that could raise, with the effective values.
`NamesTheHost` is about a recursive function on sequences of labels of any length,
for which there is no usable induction theorem. Instead `ScanUnique` shows that
the function is determined by its equation: two solutions that differ anywhere
differ at a last place, which the equation forbids. If the zone's name occurs
once, at the end, then the host without it is such a solution (`ReplaceAtEnd`).
What `strip('.')` then takes off is counted from both ends.

**RegistrationsApiProofs**: `ThreadInv` says that each thread works on its latest
pass and on a name of the store, `ObjectInv` that no field is of a later pass than
its thread's and no CNAME older than its time, `ViewInv` the same of what a request
has encoded and still has to encode, and `WalkInv` that it has visited each name
at most once and will visit the rest of those that it found. The three
properties follow. `RequestsOnlyGetOn` adds that no step of the threads lengthens
what a request has left.

**ServerProofs**: `HalfBuiltIsInert` needs that no thread but the watcher runs
before `run` reaches its last statements (`ProcessInv`). For the tokens,
`LoadedInv` says that a worker that is `current` has loaded what is installed, and
`TokensInv` that a token's expiry is an hour after its issue or later, for any
place of the clock's change. `NoHalfwayRest` needs in addition how main, `run` and
the threads go together (`StartedInv`); `CompleteDeploymentsComeUp` is its
consequence if nothing is ever missing, and the safety part of
`PipelineComesUp`. `StartsAdvance` is for a start what `EveryStepGetsOn` is for the
work. `AnswersAreForGood`: a worker that honours a token is past the assignment of
the store, with a key and principals, and only the end of its process takes any of
them away.

Only model-checked: the liveness properties (`Settles`, `Provisioned`, `CallsEnd`,
`PipelineComesUp`), which are out of the prover's reach. What can be
proved of each is: that work, calls, requests and starts get less with each step
(`WorkIsFinite`, `CallsGetOn`, `RequestsGetOn`, `StartIsFinite`), and that where
nothing is left to do all is as it should be (`IdleAgreement`,
`IdleMeansPublished`, `CompleteDeploymentsComeUp`). What remains to TLC is that a step is possible
(ENABLED) and is taken (fairness). A few things are proved and not run: types of
the smaller modules, `CallsGetOn` (the run checks `CallsEnd`), and `ForeignStays`, a consequence of `RemovesOnlyOutdated`.

## 5. Not modelled

- Regular expressions: the patterns are the sets of hosts that they match, or do
  not compile.
- Which values the Azure and Cloudflare libraries refuse: any may be refused.
- A zone's name that ends inside a label of the host (`example.org` in
  `myexample.org`), and one that occurs twice in it: `RecordNamesHost` is about the
  others.
- `check_registrar_health`: it returns success without reading any state. Its
  route is modelled, since a worker may lack it.
- The texts of error answers of the token endpoint, and requests that are
  malformed: they change nothing.
- Which of two threads loads the process-wide kube configuration first
  (`store.py:80`): when k8swatcher creates its clients is not in this repository.
- The retry and reconnect logic of k8swatcher and of the client libraries.
- Dead code: `get_acme_dns_registrations_k8s_secret_data`, the second
  `get_authorized_principal` of `main.py`.
- `.env` files, logging and its configuration.

## 6. What is left

The components that decide anything are modelled, and each safety property that
a passing run checks has a theorem. What would add most:

1. `AccountsPerLife` with lost answers: a bound on the accounts in the number of
   lost answers.
2. What several workers agree on once they are idle: today only that each key
   and each record is the name's own, and was known to a running worker when it
   appeared.
3. Patterns as languages rather than sets of hosts, if the syntax of includes
   and excludes grows.

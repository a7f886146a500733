------------------------------- MODULE Bootstrap -------------------------------
(***************************************************************************)
(* How a worker process comes up.  Importing main.py constructs the        *)
(* services one after the other and starts RegistrarService, a thread that *)
(* constructs the watcher, the ACMEDnsRegistrar and the                    *)
(* DnsProviderProcessor and starts them.  Each constructor reads its       *)
(* settings: environment variables, most of them references to files that  *)
(* an operator may replace at any time.  A constructor that raises ends    *)
(* the import's try block or the RegistrarService thread, and the process  *)
(* serves requests nevertheless.                                           *)
(*                                                                         *)
(* What the started threads do with an event is module Registrar's         *)
(* subject; here an event is a number in a queue's length.                 *)
(***************************************************************************)
EXTENDS Naturals, FiniteSets

CONSTANTS
  Worker,       \* server processes
  Key,          \* keys that may sign tokens
  NoKey,        \* SmartSettings.get returns None: the file@ is not there
  Principal,    \* client ids
  Secret,       \* client secrets
  NoSecret,     \* the principal is not in the database
  Undefined,    \* a global of main.py that was never assigned
  Deployment,   \* what operators may deploy: environment and files
  MaxInstalls,  \* bound on replacements of the files
  MaxEvents,    \* bound on changes of the cluster
  MaxCrashes    \* bound on crashes

\* The variables of the environment whose value makes SmartSettings' own
\* constructor raise: KADR_OAUTH2_TOKEN_BASIC_AUTH_ENABLED, if it is no
\* boolean, and KADR_JWT_SECRET_KEY, if it is not set.
EnvSetting == {"app", "jwt"}
\* The YAML files and the kube config.  A file that is missing, malformed or
\* not referenced makes the constructor that loads it raise.
FileSetting == {"idp", "kube", "watcher", "acme", "dns"}
Database == [Principal -> Secret \cup {NoSecret}]

ASSUME BootAssumption ==
  /\ NoKey \notin Key
  /\ NoSecret \notin Secret
  /\ Undefined \notin Key \cup {NoKey}
  /\ Undefined \notin Database
  /\ Deployment \subseteq [wrong_env : SUBSET EnvSetting,
                           bad_files : SUBSET FileSetting,
                           jwt_key : Key \cup {NoKey},
                           principals : Database]
  /\ MaxInstalls \in Nat
  /\ MaxEvents \in Nat
  /\ MaxCrashes \in Nat

VARIABLES
  installed,    \* the environment and the files as they are now
  main,         \* the import of main.py: the next statement, or its outcome
  jwt_key,      \* JWTService.jwt_encoding_key
  principals,   \* DefaultIdpService.principals
  service,      \* RegistrarService.run(): the next statement, or its outcome
  threads,      \* the threads it has started
  domain_name_events,   \* the length of its domain_name_event_queue
  registration_events,  \* the length of its acme_dns_registration_queue
  installs, changes, crashes,   \* how often each has happened
  current       \* workers whose process began after the last installation

process_vars == <<main, jwt_key, principals>>
service_vars == <<service, threads, domain_name_events, registration_events>>
count_vars == <<installs, changes, crashes>>
boot_vars == <<installed, process_vars, service_vars, count_vars, current>>

-----------------------------------------------------------------------------
(* Values.                                                                 *)

\* "serving" and "limping" are served by uvicorn; the latter met an exception,
\* which is logged, and has no /health route.
MainStep == {"down", "AppSettings", "JWTService", "IdpService",
             "RegistrarService", "HealthcheckService", "serving", "limping"}
ServiceStep == {"none", "store", "init_configs", "watcher", "secret store",
                "registrar", "processor", "start registrar", "start processor",
                "join", "dead"}
Thread == {"watcher", "registrar", "processor"}

Serving(w) == main[w] \in {"serving", "limping"}
HasHealthRoute(w) == main[w] = "serving"
\* Mutant: the store is asked of a service that still runs.
HasRunningStore(w) == service[w] \notin {"none", "store", "dead"}

\* RegistrarService.registration_store has been assigned, and is there to stay.
HasStore(w) == service[w] \notin {"none", "store"}

BootInit ==
  /\ installed \in Deployment
  /\ main = [w \in Worker |-> "down"]
  /\ jwt_key = [w \in Worker |-> Undefined]
  /\ principals = [w \in Worker |-> Undefined]
  /\ service = [w \in Worker |-> "none"]
  /\ threads = [w \in Worker |-> {}]
  /\ domain_name_events = [w \in Worker |-> 0]
  /\ registration_events = [w \in Worker |-> 0]
  /\ installs = 0 /\ changes = 0 /\ crashes = 0
  /\ current = {}

-----------------------------------------------------------------------------
(* The environment.                                                        *)

\* An operator replaces files; the environment of the processes stays.
Install(d) ==
  /\ installs < MaxInstalls
  /\ d.wrong_env = installed.wrong_env
  /\ installed' = d
  /\ installs' = installs + 1
  /\ current' = {}
  /\ UNCHANGED <<process_vars, service_vars, changes, crashes>>

\* An Ingress with a host changes: every watcher tells its own queue.
ChangeCluster ==
  /\ changes < MaxEvents
  /\ changes' = changes + 1
  /\ domain_name_events' =
       [w \in Worker |-> domain_name_events[w]
                           + (IF "watcher" \in threads[w] THEN 1 ELSE 0)]
  /\ UNCHANGED <<installed, process_vars, service, threads,
                 registration_events, installs, crashes, current>>

\* The process ends, and with it all it has in memory.
Die(w) ==
  /\ main' = [main EXCEPT ![w] = "down"]
  /\ jwt_key' = [jwt_key EXCEPT ![w] = Undefined]
  /\ principals' = [principals EXCEPT ![w] = Undefined]
  /\ service' = [service EXCEPT ![w] = "none"]
  /\ threads' = [threads EXCEPT ![w] = {}]
  /\ domain_name_events' = [domain_name_events EXCEPT ![w] = 0]
  /\ registration_events' = [registration_events EXCEPT ![w] = 0]
  /\ current' = current \ {w}
  /\ UNCHANGED <<installed, installs, changes>>

Crash(w) ==
  /\ main[w] # "down"
  /\ crashes < MaxCrashes
  /\ crashes' = crashes + 1
  /\ Die(w)

-----------------------------------------------------------------------------
(* The import of main.py.                                                  *)

\* The process begins.
Exec(w) ==
  /\ main[w] = "down"
  /\ main' = [main EXCEPT ![w] = "AppSettings"]
  /\ current' = current \cup {w}
  /\ UNCHANGED <<installed, jwt_key, principals, service_vars, count_vars>>

\* Without an app the decorators below raise outside of the try block, and
\* the process ends.
AppSettingsRaises(w) ==
  /\ main[w] = "AppSettings"
  /\ "app" \in installed.wrong_env
  /\ Die(w)
  /\ UNCHANGED crashes

AppSettings(w) ==
  /\ main[w] = "AppSettings"
  /\ "app" \notin installed.wrong_env
  /\ main' = [main EXCEPT ![w] = "JWTService"]
  /\ UNCHANGED <<installed, jwt_key, principals, service_vars, count_vars,
                 current>>

\* JWTService(): a file@ reference to no file gives None, silently.
JWTService(w) ==
  /\ main[w] = "JWTService"
  /\ "jwt" \notin installed.wrong_env
  /\ jwt_key' = [jwt_key EXCEPT ![w] = installed.jwt_key]
  /\ main' = [main EXCEPT ![w] = "IdpService"]
  /\ UNCHANGED <<installed, principals, service_vars, count_vars, current>>

\* DefaultIdpService(), and OAuth2Service(), which cannot raise.
IdpService(w) ==
  /\ main[w] = "IdpService"
  /\ "idp" \notin installed.bad_files
  /\ principals' = [principals EXCEPT ![w] = installed.principals]
  /\ main' = [main EXCEPT ![w] = "RegistrarService"]
  /\ UNCHANGED <<installed, jwt_key, service_vars, count_vars, current>>

\* A constructor raises: the except clause logs it, and the rest of the try
\* block is skipped.
BootstrapRaises(w) ==
  /\ \/ main[w] = "JWTService" /\ "jwt" \in installed.wrong_env
     \/ main[w] = "IdpService" /\ "idp" \in installed.bad_files
  /\ main' = [main EXCEPT ![w] = "limping"]
  /\ UNCHANGED <<installed, jwt_key, principals, service_vars, count_vars,
                 current>>

\* RegistrarService().start(): run() goes on in a thread of its own.
StartRegistrarService(w) ==
  /\ main[w] = "RegistrarService"
  /\ service' = [service EXCEPT ![w] = "store"]
  /\ main' = [main EXCEPT ![w] = "HealthcheckService"]
  /\ UNCHANGED <<installed, jwt_key, principals, threads, domain_name_events,
                 registration_events, count_vars, current>>

\* HealthcheckService adds the /health route; the import is over.
AddHealthRoute(w) ==
  /\ main[w] = "HealthcheckService"
  /\ main' = [main EXCEPT ![w] = "serving"]
  /\ UNCHANGED <<installed, jwt_key, principals, service_vars, count_vars,
                 current>>

-----------------------------------------------------------------------------
(* RegistrarService.run().                                                 *)

\* The files a statement of run() loads.
Needs(step) ==
  CASE step = "init_configs" -> {"watcher"}
    [] step = "watcher"      -> {"kube"}
    [] step = "secret store" -> {"acme", "kube"}
    [] step = "registrar"    -> {"acme"}
    [] step = "processor"    -> {"dns"}
    [] OTHER                 -> {}

\* run() goes on from step to next, if what it loads is there.
GoesOn(w, step, next) ==
  /\ service[w] = step
  /\ Needs(step) \cap installed.bad_files = {}
  /\ service' = [service EXCEPT ![w] = next]
  /\ UNCHANGED <<installed, process_vars, count_vars, current>>

\* run() goes on and changes nothing that others see.
Constructs(w, step, next) ==
  /\ GoesOn(w, step, next)
  /\ UNCHANGED <<threads, domain_name_events, registration_events>>

\* The queues and the empty DictRegistrationStore.
CreateStore(w) == Constructs(w, "store", "init_configs")

init_configs(w) == Constructs(w, "init_configs", "watcher")

\* The watcher's thread runs from here on: it lists what exists, one Ingress
\* with one host.
init_k8s_watcher_service(w) ==
  /\ GoesOn(w, "watcher", "secret store")
  /\ threads' = [threads EXCEPT ![w] = @ \cup {"watcher"}]
  /\ domain_name_events' = [domain_name_events EXCEPT ![w] = @ + 1]
  /\ UNCHANGED registration_events

\* The first statement of ACMEDnsRegistrar() that can raise.
AcmeDnsK8sSecretStore(w) == Constructs(w, "secret store", "registrar")

\* Mutant: the registrar starts as soon as it is constructed.
StartWhenConstructed(w) ==
  /\ GoesOn(w, "registrar", "processor")
  /\ threads' = [threads EXCEPT ![w] = @ \cup {"registrar"}]
  /\ UNCHANGED <<domain_name_events, registration_events>>

ConstructRegistrar(w) == Constructs(w, "registrar", "processor")

ConstructProcessor(w) == Constructs(w, "processor", "start registrar")

\* Mutant: join() is called on the registrar before the processor is started.
StartAndJoin(w) ==
  /\ GoesOn(w, "start registrar", "join")
  /\ threads' = [threads EXCEPT ![w] = @ \cup {"registrar"}]
  /\ UNCHANGED <<domain_name_events, registration_events>>

StartRegistrar(w) ==
  /\ GoesOn(w, "start registrar", "start processor")
  /\ threads' = [threads EXCEPT ![w] = @ \cup {"registrar"}]
  /\ UNCHANGED <<domain_name_events, registration_events>>

StartProcessor(w) ==
  /\ GoesOn(w, "start processor", "join")
  /\ threads' = [threads EXCEPT ![w] = @ \cup {"processor"}]
  /\ UNCHANGED <<domain_name_events, registration_events>>

\* Mutant: run() starts over when a constructor raised.
ServiceTriesAgain(w) ==
  /\ Needs(service[w]) \cap installed.bad_files # {}
  /\ service' = [service EXCEPT ![w] = "store"]
  /\ UNCHANGED <<installed, process_vars, threads, domain_name_events,
                 registration_events, count_vars, current>>

\* A constructor raises in run(): the thread ends, and what it has started
\* goes on without it.
ServiceDies(w) ==
  /\ Needs(service[w]) \cap installed.bad_files # {}
  /\ service' = [service EXCEPT ![w] = "dead"]
  /\ UNCHANGED <<installed, process_vars, threads, domain_name_events,
                 registration_events, count_vars, current>>

-----------------------------------------------------------------------------
(* The threads, at work.                                                   *)

\* A pass of the ACMEDnsRegistrar ends with a registration event or drops
\* the domain name event.
Register(w) ==
  /\ "registrar" \in threads[w]
  /\ domain_name_events[w] > 0
  /\ domain_name_events' = [domain_name_events EXCEPT ![w] = @ - 1]
  /\ \E n \in {0, 1} :
       registration_events' = [registration_events EXCEPT ![w] = @ + n]
  /\ UNCHANGED <<installed, process_vars, service, threads, count_vars, current>>

\* Mutant: the queue is read without waiting for an event.
DelegateEmpty(w) ==
  /\ "processor" \in threads[w]
  /\ registration_events' = [registration_events EXCEPT ![w] = @ - 1]
  /\ UNCHANGED <<installed, process_vars, service, threads,
                 domain_name_events, count_vars, current>>

\* The DnsProviderProcessor handles a registration event.
Delegate(w) ==
  /\ "processor" \in threads[w]
  /\ registration_events[w] > 0
  /\ registration_events' = [registration_events EXCEPT ![w] = @ - 1]
  /\ UNCHANGED <<installed, process_vars, service, threads,
                 domain_name_events, count_vars, current>>

-----------------------------------------------------------------------------

Import(w) ==
  \/ Exec(w)
  \/ AppSettingsRaises(w)
  \/ AppSettings(w)
  \/ JWTService(w)
  \/ IdpService(w)
  \/ BootstrapRaises(w)
  \/ StartRegistrarService(w)
  \/ AddHealthRoute(w)

RunService(w) ==
  \/ CreateStore(w)
  \/ init_configs(w)
  \/ init_k8s_watcher_service(w)
  \/ AcmeDnsK8sSecretStore(w)
  \/ ConstructRegistrar(w)
  \/ ConstructProcessor(w)
  \/ StartRegistrar(w)
  \/ StartProcessor(w)
  \/ ServiceDies(w)

BootNext ==
  \/ \E d \in Deployment : Install(d)
  \/ ChangeCluster
  \/ \E w \in Worker : \/ Crash(w)
                       \/ Import(w)
                       \/ RunService(w)
                       \/ Register(w)
                       \/ Delegate(w)
=============================================================================

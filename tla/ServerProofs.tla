------------------------------ MODULE ServerProofs ------------------------------
(***************************************************************************)
(* Proofs about the server: types, that a worker which came up by half is  *)
(* inert and shows it, that a start comes to an end, and how long tokens   *)
(* are good, for any number of workers, keys, principals and deployments.  *)
(***************************************************************************)
EXTENDS Server, WellFoundedInduction, TLAPS

-----------------------------------------------------------------------------
(* Values.                                                                 *)

LEMMA Bounds ==
  /\ MaxInstalls \in Nat /\ MaxEvents \in Nat /\ MaxCrashes \in Nat
  /\ MaxTime \in Nat /\ MaxTokens \in Nat
  BY BootAssumption, TimeAssumption

\* What a deployment holds.
LEMMA DeploymentType ==
  ASSUME NEW d \in Deployment
  PROVE  /\ d.wrong_env \subseteq EnvSetting
         /\ d.bad_files \subseteq FileSetting
         /\ d.jwt_key \in Key \cup {NoKey}
         /\ d.principals \in Database
  BY BootAssumption

\* The hour on the local clock is an hour or, across the change, two.
LEMMA ExpiryIsLater ==
  ASSUME now \in Nat
  PROVE  Expiry \in Nat /\ Expiry >= now + Hour
  BY TimeAssumption DEF Expiry, timestamp, Local

\* When a request is answered with 200.
LEMMA StatusOK ==
  ASSUME NEW w \in Worker, NEW t
  PROVE  get_registrations(w, t) = 200 <=>
           /\ ~Raises(w, t)
           /\ decode_validate_jwt_token(w, t)
           /\ get_authorized_principal(w, t)
<1>1. CASE Raises(w, t)
  BY <1>1 DEF get_registrations
<1>2. CASE /\ ~Raises(w, t)
           /\ decode_validate_jwt_token(w, t)
           /\ get_authorized_principal(w, t)
  BY <1>2 DEF get_registrations
<1>3. CASE /\ ~Raises(w, t)
           /\ ~(decode_validate_jwt_token(w, t) /\ get_authorized_principal(w, t))
  BY <1>3 DEF get_registrations
<1> QED BY <1>1, <1>2, <1>3

-----------------------------------------------------------------------------
(* The type invariant.                                                     *)

\* The end of a process preserves the types.
LEMMA DieType ==
  ASSUME TypeOK, NEW w \in Worker, Die(w), crashes' \in 0..MaxCrashes,
         UNCHANGED <<now, tokens>>
  PROVE  TypeOK'
<1>1. /\ main' \in [Worker -> MainStep]
      /\ jwt_key' \in [Worker -> Key \cup {NoKey, Undefined}]
      /\ principals' \in [Worker -> Database \cup {Undefined}]
  BY DEF Die, TypeOK, MainStep
<1>2. /\ service' \in [Worker -> ServiceStep]
      /\ threads' \in [Worker -> SUBSET Thread]
  BY DEF Die, TypeOK, ServiceStep
<1>3. /\ domain_name_events' \in [Worker -> Nat]
      /\ registration_events' \in [Worker -> Nat]
  BY DEF Die, TypeOK
<1> QED BY <1>1, <1>2, <1>3 DEF Die, TypeOK

\* Importing main.py preserves the types.
LEMMA ImportType ==
  ASSUME TypeOK, NEW w \in Worker, Import(w), UNCHANGED <<now, tokens>>
  PROVE  TypeOK'
<1>1. CASE Exec(w)
  BY <1>1 DEF Exec, TypeOK, MainStep, service_vars, count_vars
<1>2. CASE AppSettingsRaises(w)
  BY <1>2, DieType DEF AppSettingsRaises, TypeOK
<1>3. CASE AppSettings(w) \/ BootstrapRaises(w) \/ AddHealthRoute(w)
  BY <1>3 DEF AppSettings, BootstrapRaises, AddHealthRoute, TypeOK, MainStep,
     service_vars, count_vars
<1>4. CASE JWTService(w)
  BY <1>4, DeploymentType DEF JWTService, TypeOK, MainStep, service_vars,
     count_vars
<1>5. CASE IdpService(w)
  BY <1>5, DeploymentType DEF IdpService, TypeOK, MainStep, service_vars,
     count_vars
<1>6. CASE StartRegistrarService(w)
  BY <1>6 DEF StartRegistrarService, TypeOK, MainStep, ServiceStep, count_vars
<1> QED BY <1>1, <1>2, <1>3, <1>4, <1>5, <1>6 DEF Import

\* RegistrarService.run() preserves the types.
LEMMA RunServiceType ==
  ASSUME TypeOK, NEW w \in Worker, RunService(w), UNCHANGED <<now, tokens>>
  PROVE  TypeOK'
<1>1. ASSUME NEW step, NEW next \in ServiceStep, GoesOn(w, step, next)
      PROVE  service' \in [Worker -> ServiceStep]
  BY <1>1 DEF GoesOn, TypeOK
<1>2. ASSUME NEW step, NEW next \in ServiceStep, Constructs(w, step, next)
      PROVE  TypeOK'
  BY <1>1, <1>2 DEF Constructs, GoesOn, TypeOK, process_vars, count_vars
<1>3. CASE \/ CreateStore(w) \/ init_configs(w)
           \/ AcmeDnsK8sSecretStore(w) \/ ConstructRegistrar(w)
           \/ ConstructProcessor(w)
  BY <1>2, <1>3 DEF CreateStore, init_configs, AcmeDnsK8sSecretStore,
     ConstructRegistrar, ConstructProcessor, ServiceStep
<1>4. CASE init_k8s_watcher_service(w)
  <2>1. service' \in [Worker -> ServiceStep]
    <3>1. GoesOn(w, "watcher", "secret store")
      BY <1>4 DEF init_k8s_watcher_service
    <3>2. "secret store" \in ServiceStep
      BY DEF ServiceStep
    <3> QED BY <1>1, <3>1, <3>2
  <2>2. threads' \in [Worker -> SUBSET Thread]
    BY <1>4 DEF init_k8s_watcher_service, TypeOK, Thread
  <2>3. domain_name_events' \in [Worker -> Nat]
    <3>1. domain_name_events[w] + 1 \in Nat
      BY DEF TypeOK
    <3> QED BY <1>4, <3>1 DEF init_k8s_watcher_service, TypeOK
  <2> QED BY <1>4, <2>1, <2>2, <2>3 DEF init_k8s_watcher_service, GoesOn,
             TypeOK, process_vars, count_vars
<1>5. CASE StartRegistrar(w) \/ StartProcessor(w)
  <2>1. service' \in [Worker -> ServiceStep]
    BY <1>1, <1>5 DEF StartRegistrar, StartProcessor, ServiceStep
  <2>2. threads' \in [Worker -> SUBSET Thread]
    <3>1. /\ threads[w] \cup {"registrar"} \in SUBSET Thread
          /\ threads[w] \cup {"processor"} \in SUBSET Thread
      BY DEF TypeOK, Thread
    <3> QED BY <1>5, <3>1 DEF StartRegistrar, StartProcessor, TypeOK
  <2> QED BY <1>5, <2>1, <2>2 DEF StartRegistrar, StartProcessor, GoesOn,
             TypeOK, process_vars, count_vars
<1>6. CASE ServiceDies(w)
  BY <1>6 DEF ServiceDies, TypeOK, ServiceStep, process_vars, count_vars
<1> QED BY <1>3, <1>4, <1>5, <1>6 DEF RunService

\* The threads at work preserve the types.
LEMMA ThreadsType ==
  ASSUME TypeOK, NEW w \in Worker, Register(w) \/ Delegate(w),
         UNCHANGED <<now, tokens>>
  PROVE  TypeOK'
<1>1. CASE Register(w)
  BY <1>1 DEF Register, TypeOK, process_vars, count_vars
<1>2. CASE Delegate(w)
  BY <1>2 DEF Delegate, TypeOK, process_vars, count_vars
<1> QED BY <1>1, <1>2

\* A new token has the type.
LEMMA TokenType ==
  ASSUME TypeOK, NEW w \in Worker, NEW p \in Principal, NEW s \in Secret,
         oauth2_token(w, p, s)
  PROVE  TypeOK'
<1> DEFINE t == [key |-> jwt_key[w], sub |-> p, iat |-> now, exp |-> Expiry]
<1>1. t \in Token
  BY ExpiryIsLater, Bounds DEF oauth2_token, TypeOK, Token
<1>2. UNCHANGED <<boot_vars, now>> /\ tokens' = tokens \cup {t}
  BY DEF oauth2_token
<1> HIDE DEF t
<1> QED BY <1>1, <1>2 DEF TypeOK, boot_vars, process_vars, service_vars,
           count_vars

\* Every step preserves the types.
LEMMA TypeStep == TypeOK /\ [Next]_vars => TypeOK'
<1> SUFFICES ASSUME TypeOK, [Next]_vars PROVE TypeOK'
  OBVIOUS
<1>1. ASSUME NEW d \in Deployment, Install(d), UNCHANGED <<now, tokens>>
      PROVE  TypeOK'
  BY <1>1, Bounds DEF Install, TypeOK, process_vars, service_vars
<1>2. CASE ChangeCluster /\ UNCHANGED <<now, tokens>>
  BY <1>2, Bounds DEF ChangeCluster, TypeOK, process_vars
<1>3. ASSUME NEW w \in Worker, Crash(w), UNCHANGED <<now, tokens>>
      PROVE  TypeOK'
  <2>1. crashes' \in 0..MaxCrashes
    BY <1>3, Bounds DEF Crash, TypeOK
  <2> QED BY <1>3, <2>1, DieType DEF Crash
<1>4. CASE Tick
  BY <1>4, Bounds DEF Tick, TypeOK, boot_vars, process_vars, service_vars,
     count_vars
<1>5. CASE UNCHANGED vars
  BY <1>5 DEF vars, TypeOK, boot_vars, process_vars, service_vars, count_vars
<1> QED BY <1>1, <1>2, <1>3, <1>4, <1>5, ImportType, RunServiceType,
           ThreadsType, TokenType DEF Next, BootNext

\* Every variable always has its type.
THEOREM TypeCorrect == Spec => []TypeOK
<1>1. Init => TypeOK
  BY Bounds DEF Init, BootInit, TypeOK, MainStep, ServiceStep
<1>2. TypeOK /\ [Next]_vars => TypeOK'
  BY TypeStep
<1> QED BY <1>1, <1>2, PTL DEF Spec

-----------------------------------------------------------------------------
(* A worker that came up by half is inert.                                 *)

\* Only a worker whose import got to start the RegistrarService has one, and
\* only one whose constructors are all through has more than the watcher.
ProcessInv ==
  \A w \in Worker :
    /\ main[w] \in {"HealthcheckService", "serving"} \/ service[w] = "none"
    /\ \/ threads[w] \subseteq {"watcher"}
       \/ service[w] \in {"start processor", "join"}
    /\ "registrar" \in threads[w] \/ registration_events[w] = 0

LEMMA ImportProcess ==
  ASSUME TypeOK, ProcessInv, NEW w \in Worker, Import(w)
  PROVE  ProcessInv'
<1>1. CASE AppSettingsRaises(w)
  BY <1>1 DEF AppSettingsRaises, Die, TypeOK, ProcessInv
<1>2. CASE Exec(w) \/ AppSettings(w) \/ BootstrapRaises(w) \/ AddHealthRoute(w)
  BY <1>2 DEF Exec, AppSettings, BootstrapRaises, AddHealthRoute, TypeOK,
     ProcessInv, service_vars
<1>3. CASE JWTService(w) \/ IdpService(w)
  BY <1>3 DEF JWTService, IdpService, TypeOK, ProcessInv, service_vars
<1>4. CASE StartRegistrarService(w)
  BY <1>4 DEF StartRegistrarService, TypeOK, ProcessInv
<1> QED BY <1>1, <1>2, <1>3, <1>4 DEF Import

\* A statement of run() that starts no thread of the pipeline.
LEMMA EarlyStatement ==
  ASSUME TypeOK, ProcessInv, NEW w \in Worker, NEW next,
         service[w] \notin {"none", "start processor", "join"},
         service' = [service EXCEPT ![w] = next],
         UNCHANGED <<process_vars, registration_events>>,
         threads' \in {threads, [threads EXCEPT ![w] = @ \cup {"watcher"}]}
  PROVE  ProcessInv'
<1>1. ASSUME NEW v \in Worker, v # w
      PROVE  service'[v] = service[v] /\ threads'[v] = threads[v]
  BY <1>1 DEF TypeOK
<1>2. threads'[w] \in {threads[w], threads[w] \cup {"watcher"}}
  BY DEF TypeOK
<1>3. threads[w] \subseteq {"watcher"}
  BY DEF ProcessInv
<1> QED BY <1>1, <1>2, <1>3 DEF ProcessInv, process_vars

LEMMA RunServiceProcess ==
  ASSUME TypeOK, ProcessInv, NEW w \in Worker, RunService(w)
  PROVE  ProcessInv'
<1>1. CASE \/ CreateStore(w) \/ init_configs(w)
           \/ AcmeDnsK8sSecretStore(w) \/ ConstructRegistrar(w)
           \/ ConstructProcessor(w)
  BY <1>1, EarlyStatement DEF CreateStore, init_configs, AcmeDnsK8sSecretStore,
     ConstructRegistrar, ConstructProcessor, Constructs, GoesOn
<1>2. CASE init_k8s_watcher_service(w)
  BY <1>2, EarlyStatement DEF init_k8s_watcher_service, GoesOn
<1>3. CASE StartRegistrar(w)
  BY <1>3 DEF StartRegistrar, GoesOn, TypeOK, ProcessInv, process_vars
<1>4. CASE StartProcessor(w)
  BY <1>4 DEF StartProcessor, GoesOn, TypeOK, ProcessInv, process_vars
<1>5. CASE ServiceDies(w)
  <2>1. service[w] \notin {"none", "start processor", "join"}
    BY <1>5 DEF ServiceDies, Needs
  <2> QED BY <1>5, <2>1, EarlyStatement DEF ServiceDies
<1> QED BY <1>1, <1>2, <1>3, <1>4, <1>5 DEF RunService

\* A step of the environment, of the clock or of a client.
LEMMA OtherProcess ==
  ASSUME ProcessInv, UNCHANGED <<main, service, threads, registration_events>>
  PROVE  ProcessInv'
  BY DEF ProcessInv

LEMMA ProcessStep == TypeOK /\ ProcessInv /\ [Next]_vars => ProcessInv'
<1> SUFFICES ASSUME TypeOK, ProcessInv, [Next]_vars PROVE ProcessInv'
  OBVIOUS
<1>1. ASSUME NEW w \in Worker, Crash(w) PROVE ProcessInv'
  BY <1>1 DEF Crash, Die, TypeOK, ProcessInv
<1>2. ASSUME NEW w \in Worker, Register(w) \/ Delegate(w) PROVE ProcessInv'
  <2>1. CASE Register(w)
    BY <1>2, <2>1 DEF Register, TypeOK, ProcessInv, process_vars
  <2>2. CASE Delegate(w)
    <3>1. registration_events[w] # 0
      BY <2>2 DEF Delegate
    <3>2. "registrar" \in threads[w]
      BY <3>1 DEF ProcessInv
    <3>3. \A v \in Worker :
            v # w => registration_events'[v] = registration_events[v]
      BY <2>2 DEF Delegate, TypeOK
    <3> QED BY <2>2, <3>2, <3>3 DEF Delegate, ProcessInv, process_vars
  <2> QED BY <1>2, <2>1, <2>2
<1>3. CASE (\E d \in Deployment : Install(d)) \/ ChangeCluster
  BY <1>3, OtherProcess DEF Install, ChangeCluster, process_vars, service_vars
<1>4. CASE \/ Tick
           \/ \E w \in Worker, p \in Principal, s \in Secret : oauth2_token(w, p, s)
           \/ UNCHANGED vars
  BY <1>4, OtherProcess DEF Tick, oauth2_token, vars, boot_vars, process_vars,
     service_vars
<1> QED BY <1>1, <1>2, <1>3, <1>4, ImportProcess, RunServiceProcess
           DEF Next, BootNext

\* Whatever is missing and whenever: a worker that came up by half has no
\* thread that registers hosts or changes records.
THEOREM HalfBuiltWorkersAreInert == Spec => []HalfBuiltIsInert
<1>1. Init => ProcessInv
  BY DEF Init, BootInit, ProcessInv
<1>2. TypeOK /\ ProcessInv /\ [Next]_vars => ProcessInv'
  BY ProcessStep
<1>3. ProcessInv => HalfBuiltIsInert
  BY DEF ProcessInv, HalfBuiltIsInert
<1> QED BY <1>1, <1>2, <1>3, TypeCorrect, PTL DEF Spec

-----------------------------------------------------------------------------
(* How long tokens are good.                                               *)

\* What a worker has loaded, by the progress of its import; a worker whose
\* process began after the last change has loaded what is installed.
LoadedInv ==
  \A w \in Worker :
    /\ main[w] = "down" => jwt_key[w] = Undefined /\ principals[w] = Undefined
    /\ main[w] = "IdpService" => jwt_key[w] # Undefined
    /\ main[w] \in {"RegistrarService", "HealthcheckService", "serving"} =>
         jwt_key[w] # Undefined /\ principals[w] # Undefined
    /\ w \in current =>
         /\ jwt_key[w] \in {Undefined, installed.jwt_key}
         /\ principals[w] \in {Undefined, installed.principals}

\* Tokens were issued in the past, and expire an hour or more after that.
TokensInv == \A t \in tokens : t.iat <= now /\ t.iat + Hour <= t.exp

ServerInv == TypeOK /\ ProcessInv /\ LoadedInv /\ TokensInv

\* None and the installed values are something else than Undefined.
LEMMA InstalledIsDefined ==
  ASSUME TypeOK
  PROVE  installed.jwt_key # Undefined /\ installed.principals # Undefined
<1>1. /\ installed.jwt_key \in Key \cup {NoKey}
      /\ installed.principals \in Database
  BY DeploymentType DEF TypeOK
<1> QED BY <1>1, BootAssumption

LEMMA ImportLoads ==
  ASSUME TypeOK, LoadedInv, NEW w \in Worker, Import(w)
  PROVE  LoadedInv'
<1>1. CASE AppSettingsRaises(w)
  BY <1>1 DEF AppSettingsRaises, Die, TypeOK, LoadedInv
<1>2. CASE Exec(w)
  BY <1>2 DEF Exec, TypeOK, LoadedInv
<1>3. CASE AppSettings(w) \/ BootstrapRaises(w) \/ AddHealthRoute(w)
  BY <1>3 DEF AppSettings, BootstrapRaises, AddHealthRoute, TypeOK, LoadedInv
<1>4. CASE JWTService(w)
  BY <1>4, InstalledIsDefined DEF JWTService, TypeOK, LoadedInv
<1>5. CASE IdpService(w)
  BY <1>5, InstalledIsDefined DEF IdpService, TypeOK, LoadedInv
<1>6. CASE StartRegistrarService(w)
  BY <1>6 DEF StartRegistrarService, TypeOK, LoadedInv
<1> QED BY <1>1, <1>2, <1>3, <1>4, <1>5, <1>6 DEF Import

LEMMA LoadedStep == TypeOK /\ LoadedInv /\ [Next]_vars => LoadedInv'
<1> SUFFICES ASSUME TypeOK, LoadedInv, [Next]_vars PROVE LoadedInv'
  OBVIOUS
<1>1. CASE UNCHANGED <<installed, process_vars, current>>
  BY <1>1 DEF LoadedInv, process_vars
<1>2. ASSUME NEW w \in Worker, Crash(w) PROVE LoadedInv'
  BY <1>2 DEF Crash, Die, TypeOK, LoadedInv
<1>3. ASSUME NEW d \in Deployment, Install(d) PROVE LoadedInv'
  BY <1>3 DEF Install, LoadedInv, process_vars
<1>4. ASSUME NEW w \in Worker, RunService(w) PROVE LoadedInv'
  BY <1>1, <1>4 DEF RunService, CreateStore, init_configs,
     AcmeDnsK8sSecretStore, ConstructRegistrar,
     ConstructProcessor, Constructs, init_k8s_watcher_service, StartRegistrar,
     StartProcessor, GoesOn, ServiceDies
<1>5. ASSUME NEW w \in Worker, Register(w) \/ Delegate(w) PROVE LoadedInv'
  BY <1>1, <1>5 DEF Register, Delegate
<1>6. CASE \/ ChangeCluster \/ Tick
           \/ \E w \in Worker, p \in Principal, s \in Secret : oauth2_token(w, p, s)
           \/ UNCHANGED vars
  BY <1>1, <1>6 DEF ChangeCluster, Tick, oauth2_token, vars, boot_vars
<1> QED BY <1>2, <1>3, <1>4, <1>5, <1>6, ImportLoads DEF Next, BootNext

LEMMA TokensStep == TypeOK /\ TokensInv /\ [Next]_vars => TokensInv'
<1> SUFFICES ASSUME TypeOK, TokensInv, [Next]_vars PROVE TokensInv'
  OBVIOUS
<1>1. now \in Nat /\ tokens \subseteq Token
  BY Bounds DEF TypeOK
<1>2. CASE UNCHANGED <<now, tokens>>
  BY <1>2 DEF TokensInv
<1>3. CASE Tick
  <2>1. now' = now + 1 /\ UNCHANGED tokens
    BY <1>3 DEF Tick
  <2> QED BY <1>1, <2>1 DEF TokensInv, Token
<1>4. ASSUME NEW w \in Worker, NEW p \in Principal, NEW s \in Secret,
             oauth2_token(w, p, s)
      PROVE  TokensInv'
  <2>1. Expiry \in Nat /\ Expiry >= now + Hour
    BY <1>1, ExpiryIsLater
  <2>2. /\ UNCHANGED now
        /\ \A t \in tokens' : t \in tokens \/ (t.iat = now /\ t.exp = Expiry)
    BY <1>4 DEF oauth2_token
  <2>3. now + Hour <= Expiry
    BY <1>1, <2>1, TimeAssumption
  <2> QED BY <1>1, <2>2, <2>3 DEF TokensInv
<1>5. CASE UNCHANGED vars
  BY <1>2, <1>5 DEF vars
<1> QED BY <1>2, <1>3, <1>4, <1>5 DEF Next

\* The inductive invariant of the server.
THEOREM ServerInvariant == Spec => []ServerInv
<1>1. Init => ProcessInv /\ LoadedInv /\ TokensInv
  BY DEF Init, BootInit, ProcessInv, LoadedInv, TokensInv
<1>2. TypeOK /\ ProcessInv /\ [Next]_vars => ProcessInv'
  BY ProcessStep
<1>3. TypeOK /\ LoadedInv /\ [Next]_vars => LoadedInv'
  BY LoadedStep
<1>4. TypeOK /\ TokensInv /\ [Next]_vars => TokensInv'
  BY TokensStep
<1> QED BY <1>1, <1>2, <1>3, <1>4, TypeCorrect, PTL DEF Spec, ServerInv

\* A worker that is up to date has loaded what is installed.
LEMMA UpToDateLoaded ==
  ASSUME ServerInv, NEW w \in Worker, UpToDate(w)
  PROVE  jwt_key[w] = installed.jwt_key /\ principals[w] = installed.principals
<1>1. service[w] # "none" /\ w \in current
  BY DEF UpToDate, HasStore
<1>2. main[w] \in {"HealthcheckService", "serving"}
  BY <1>1 DEF ServerInv, ProcessInv
<1> QED BY <1>1, <1>2 DEF ServerInv, LoadedInv

\* A token is good at every up-to-date worker for as long as its holder was
\* told, while its key and its principal stay installed.
THEOREM TokensAreGoodAsTold == Spec => []TokensLastAsTold
<1>1. ServerInv => TokensLastAsTold
  <2> SUFFICES ASSUME ServerInv, NEW t \in tokens
               PROVE  /\ expires_in(t) >= Hour
                      /\ \A w \in Worker :
                           UpToDate(w) /\ StillInstalled(t)
                             /\ now - t.iat <= expires_in(t) => Honours(w, t)
    BY DEF TokensLastAsTold
  <2>1. /\ t.iat \in Nat /\ t.exp \in Nat /\ now \in Nat
        /\ t.key \in Key /\ t.sub \in Principal
    BY Bounds DEF ServerInv, TypeOK, Token
  <2>2. t.iat <= now /\ t.iat + Hour <= t.exp
    BY DEF ServerInv, TokensInv
  <2>3. expires_in(t) >= Hour
    BY <2>1, <2>2, TimeAssumption DEF expires_in
  <2>4. ASSUME NEW w \in Worker, UpToDate(w), StillInstalled(t),
               now - t.iat <= expires_in(t)
        PROVE  Honours(w, t)
    <3>1. jwt_key[w] = installed.jwt_key /\ principals[w] = installed.principals
      BY <2>4, UpToDateLoaded
    <3>2. now <= t.exp
      BY <2>1, <2>4 DEF expires_in
    <3>3. decode_validate_jwt_token(w, t)
      BY <2>2, <2>4, <3>1, <3>2 DEF decode_validate_jwt_token, StillInstalled
    <3>4. principals[w] # Undefined
      BY <3>1, InstalledIsDefined DEF ServerInv
    <3>5. get_authorized_principal(w, t)
      BY <2>4, <3>1, <3>4 DEF get_authorized_principal, StillInstalled
    <3>6. jwt_key[w] \in Key
      BY <2>1, <2>4, <3>1 DEF StillInstalled
    <3>7. ~Raises(w, t)
      BY <2>4, <3>4, <3>6 DEF Raises, UpToDate
    <3> QED BY <2>4, <3>3, <3>5, <3>7, StatusOK DEF Honours, UpToDate
  <2> QED BY <2>3, <2>4
<1> QED BY <1>1, ServerInvariant, PTL

\* Removed keys and principals are out once a worker was started again.
THEOREM RevocationsTakeEffect == Spec => []RevocationTakesEffect
<1>1. ServerInv => RevocationTakesEffect
  <2> SUFFICES ASSUME ServerInv, NEW t \in tokens, NEW w \in Worker,
                      UpToDate(w), Honours(w, t)
               PROVE  StillInstalled(t) /\ now - t.iat <= expires_in(t)
    BY DEF RevocationTakesEffect
  <2>1. t.iat \in Nat /\ t.exp \in Nat /\ now \in Nat
    BY Bounds DEF ServerInv, TypeOK, Token
  <2>2. jwt_key[w] = installed.jwt_key /\ principals[w] = installed.principals
    BY UpToDateLoaded
  <2>3. decode_validate_jwt_token(w, t) /\ get_authorized_principal(w, t)
    BY StatusOK DEF Honours
  <2>4. StillInstalled(t)
    BY <2>2, <2>3 DEF decode_validate_jwt_token, get_authorized_principal,
       StillInstalled
  <2>5. now - t.iat <= expires_in(t)
    BY <2>1, <2>3 DEF decode_validate_jwt_token, expires_in
  <2> QED BY <2>4, <2>5
<1> QED BY <1>1, ServerInvariant, PTL

-----------------------------------------------------------------------------
(* A worker comes up, or shows that it does not.                           *)

\* The threads that run() has started by the time it reaches a statement.
StartedInv ==
  \A w \in Worker :
    /\ service[w] \in {"secret store", "registrar", "processor",
                       "start registrar", "start processor", "join"} =>
         "watcher" \in threads[w]
    /\ service[w] \in {"start processor", "join"} => "registrar" \in threads[w]
    /\ service[w] = "join" => "processor" \in threads[w]
    /\ main[w] \in {"HealthcheckService", "serving"} => service[w] # "none"

\* A statement of run(): threads are only added.
LEMMA StatementStarted ==
  ASSUME TypeOK, StartedInv, NEW w \in Worker, NEW next \in ServiceStep \ {"none"},
         service' = [service EXCEPT ![w] = next], UNCHANGED main,
         NEW started \in SUBSET Thread,
         threads' = [threads EXCEPT ![w] = @ \cup started],
         \/ next \in {"init_configs", "watcher", "dead"}
         \/ next = "secret store" /\ "watcher" \in started
         \/ next = "registrar" /\ service[w] = "secret store"
         \/ next = "processor" /\ service[w] = "registrar"
         \/ next = "start registrar" /\ service[w] = "processor"
         \/ /\ next = "start processor" /\ service[w] = "start registrar"
            /\ "registrar" \in started
         \/ /\ next = "join" /\ service[w] = "start processor"
            /\ "processor" \in started
  PROVE  StartedInv'
<1>1. ASSUME NEW v \in Worker, v # w
      PROVE  /\ service'[v] = service[v] /\ threads'[v] = threads[v]
             /\ main'[v] = main[v]
  BY <1>1 DEF TypeOK
<1>2. /\ service'[w] = next /\ threads'[w] = threads[w] \cup started
      /\ main'[w] = main[w]
  BY DEF TypeOK
<1>3. /\ next \in {"secret store", "registrar", "processor", "start registrar",
                   "start processor", "join"} => "watcher" \in threads'[w]
      /\ next \in {"start processor", "join"} => "registrar" \in threads'[w]
      /\ next = "join" => "processor" \in threads'[w]
  BY <1>2 DEF StartedInv
<1> QED BY <1>1, <1>2, <1>3 DEF StartedInv

LEMMA RunServiceStarted ==
  ASSUME TypeOK, StartedInv, NEW w \in Worker, RunService(w)
  PROVE  StartedInv'
<1>0. threads = [threads EXCEPT ![w] = @ \cup {}]
  BY DEF TypeOK
<1>1. CASE \/ CreateStore(w) \/ init_configs(w)
           \/ AcmeDnsK8sSecretStore(w) \/ ConstructRegistrar(w)
           \/ ConstructProcessor(w)
  <2>1. PICK next \in {"init_configs", "watcher", "registrar", "processor",
                       "start registrar"} :
          /\ service' = [service EXCEPT ![w] = next]
          /\ next = "registrar" => service[w] = "secret store"
          /\ next = "processor" => service[w] = "registrar"
          /\ next = "start registrar" => service[w] = "processor"
    BY <1>1 DEF CreateStore, init_configs, AcmeDnsK8sSecretStore,
       ConstructRegistrar, ConstructProcessor, Constructs, GoesOn
  <2>2. UNCHANGED <<main, threads>>
    BY <1>1 DEF CreateStore, init_configs, AcmeDnsK8sSecretStore,
       ConstructRegistrar, ConstructProcessor, Constructs, GoesOn, process_vars
  <2>3. next \in ServiceStep \ {"none"}
    BY DEF ServiceStep
  <2>4. threads' = [threads EXCEPT ![w] = @ \cup {}] /\ {} \in SUBSET Thread
    BY <1>0, <2>2
  <2> QED BY <2>1, <2>2, <2>3, <2>4, StatementStarted
<1>2. CASE init_k8s_watcher_service(w)
  <2>1. {"watcher"} \in SUBSET Thread /\ "secret store" \in ServiceStep \ {"none"}
    BY DEF Thread, ServiceStep
  <2> QED BY <1>2, <2>1, StatementStarted
          DEF init_k8s_watcher_service, GoesOn, process_vars
<1>3. CASE StartRegistrar(w)
  <2>1. {"registrar"} \in SUBSET Thread /\ "start processor" \in ServiceStep \ {"none"}
    BY DEF Thread, ServiceStep
  <2> QED BY <1>3, <2>1, StatementStarted
          DEF StartRegistrar, GoesOn, process_vars
<1>4. CASE StartProcessor(w)
  <2>1. {"processor"} \in SUBSET Thread /\ "join" \in ServiceStep \ {"none"}
    BY DEF Thread, ServiceStep
  <2> QED BY <1>4, <2>1, StatementStarted
          DEF StartProcessor, GoesOn, process_vars
<1>5. CASE ServiceDies(w)
  <2>1. {} \in SUBSET Thread /\ "dead" \in ServiceStep \ {"none"}
    BY DEF ServiceStep
  <2>2. threads' = [threads EXCEPT ![w] = @ \cup {}]
    BY <1>0, <1>5 DEF ServiceDies
  <2> QED BY <1>5, <2>1, <2>2, StatementStarted DEF ServiceDies, process_vars
<1> QED BY <1>1, <1>2, <1>3, <1>4, <1>5 DEF RunService

LEMMA StartedStep == TypeOK /\ StartedInv /\ [Next]_vars => StartedInv'
<1> SUFFICES ASSUME TypeOK, StartedInv, [Next]_vars PROVE StartedInv'
  OBVIOUS
<1>1. CASE UNCHANGED <<main, service, threads>>
  BY <1>1 DEF StartedInv
<1>2. ASSUME NEW w \in Worker, Die(w) PROVE StartedInv'
  BY <1>2 DEF Die, TypeOK, StartedInv
<1>3. ASSUME NEW w \in Worker, Import(w) PROVE StartedInv'
  <2>1. CASE Exec(w) \/ AppSettings(w) \/ BootstrapRaises(w) \/ AddHealthRoute(w)
    BY <2>1 DEF Exec, AppSettings, BootstrapRaises, AddHealthRoute, TypeOK,
       StartedInv, service_vars
  <2>2. CASE JWTService(w) \/ IdpService(w)
    BY <2>2 DEF JWTService, IdpService, TypeOK, StartedInv, service_vars
  <2>3. CASE StartRegistrarService(w)
    BY <2>3 DEF StartRegistrarService, TypeOK, StartedInv
  <2> QED BY <1>2, <1>3, <2>1, <2>2, <2>3 DEF Import, AppSettingsRaises
<1>4. ASSUME NEW w \in Worker, Register(w) \/ Delegate(w) PROVE StartedInv'
  BY <1>1, <1>4 DEF Register, Delegate, process_vars
<1>5. CASE (\E d \in Deployment : Install(d)) \/ ChangeCluster
  BY <1>1, <1>5 DEF Install, ChangeCluster, process_vars, service_vars
<1>6. CASE \/ Tick
           \/ \E w \in Worker, p \in Principal, s \in Secret : oauth2_token(w, p, s)
           \/ UNCHANGED vars
  BY <1>1, <1>6 DEF Tick, oauth2_token, vars, boot_vars, process_vars,
     service_vars
<1> QED BY <1>2, <1>3, <1>4, <1>5, <1>6, RunServiceStarted
           DEF Next, BootNext, Crash

\* A worker that can answer has raised if it answers with 500.
LEMMA StatusError ==
  ASSUME NEW w \in Worker, NEW t, ~Raises(w, t)
  PROVE  get_registrations(w, t) # 500
<1>1. CASE /\ decode_validate_jwt_token(w, t)
           /\ get_authorized_principal(w, t)
  BY <1>1 DEF get_registrations
<1>2. CASE ~(decode_validate_jwt_token(w, t) /\ get_authorized_principal(w, t))
  BY <1>2 DEF get_registrations
<1> QED BY <1>1, <1>2

\* What a worker needs to answer any request but with 500.
CanAnswer(w) == /\ jwt_key[w] \in Key
                /\ principals[w] # Undefined
                /\ HasStore(w)

LEMMA AnswersWithoutError ==
  \A w \in Worker, t \in Token : CanAnswer(w) => get_registrations(w, t) # 500
<1>1. ASSUME NEW w \in Worker, NEW t \in Token, CanAnswer(w)
      PROVE  ~Raises(w, t)
  BY <1>1 DEF CanAnswer, Raises
<1> QED BY <1>1, StatusError

\* No statement of run() goes back to before the store was there.
LEMMA RunServiceKeepsStore ==
  ASSUME TypeOK, NEW v \in Worker, RunService(v), NEW w \in Worker, HasStore(w)
  PROVE  HasStore(w)' /\ UNCHANGED process_vars
<1>1. /\ UNCHANGED process_vars
      /\ \E next \in {"init_configs", "watcher", "secret store", "registrar",
                      "processor", "start registrar", "start processor",
                      "join", "dead"} :
           service' = [service EXCEPT ![v] = next]
  BY DEF RunService, CreateStore, init_configs, init_k8s_watcher_service,
     AcmeDnsK8sSecretStore, ConstructRegistrar, ConstructProcessor,
     StartRegistrar, StartProcessor, Constructs, GoesOn, ServiceDies
<1> QED BY <1>1 DEF TypeOK, HasStore

\* What another worker's import or death leaves alone.
LEMMA ImportOfAnother ==
  ASSUME TypeOK, NEW v \in Worker, Import(v) \/ Crash(v),
         NEW w \in Worker, w # v
  PROVE  /\ jwt_key'[w] = jwt_key[w] /\ principals'[w] = principals[w]
         /\ service'[w] = service[w]
<1>1. CASE Crash(v) \/ AppSettingsRaises(v)
  BY <1>1 DEF Crash, AppSettingsRaises, Die, TypeOK
<1>2. CASE Exec(v) \/ AppSettings(v) \/ BootstrapRaises(v) \/ AddHealthRoute(v)
  BY <1>2 DEF Exec, AppSettings, BootstrapRaises, AddHealthRoute, service_vars
<1>3. CASE JWTService(v) \/ IdpService(v) \/ StartRegistrarService(v)
  BY <1>3 DEF JWTService, IdpService, StartRegistrarService, TypeOK, service_vars
<1> QED BY <1>1, <1>2, <1>3 DEF Import

LEMMA KeepsAnswering ==
  ASSUME TypeOK, [Next]_vars,
         NEW w \in Worker, CanAnswer(w), Serving(w), Serving(w)'
  PROVE  CanAnswer(w)'
<1>1. ASSUME NEW v \in Worker, Import(v) \/ Crash(v)
      PROVE  CanAnswer(w)'
  <2>1. CASE v = w
    <3>1. ~Import(w)
      BY DEF Serving, Import, Exec, AppSettingsRaises, AppSettings, JWTService,
         IdpService, BootstrapRaises, StartRegistrarService, AddHealthRoute
    <3>2. ~Crash(w)
      BY DEF Crash, Die, TypeOK, Serving
    <3> QED BY <1>1, <2>1, <3>1, <3>2
  <2>2. CASE v # w
    BY <1>1, <2>2, ImportOfAnother DEF CanAnswer, HasStore
  <2> QED BY <2>1, <2>2
<1>2. ASSUME NEW v \in Worker, RunService(v)
      PROVE  CanAnswer(w)'
  BY <1>2, RunServiceKeepsStore DEF CanAnswer, process_vars
<1>3. CASE UNCHANGED <<jwt_key, principals, service>>
  BY <1>3 DEF CanAnswer, HasStore
<1> QED BY <1>1, <1>2, <1>3 DEF Next, BootNext, Install, ChangeCluster, Register,
           Delegate, Tick, oauth2_token, vars, boot_vars, process_vars,
           service_vars

\* Whatever becomes of the RegistrarService's thread, of the files and of the
\* clock: who was answered is not turned away with a 500 by the same process.
THEOREM AnswersAreForGood == Spec => AnswersStay
<1>1. TypeOK /\ [Next]_vars
      => [\A t \in tokens, w \in Worker :
            Honours(w, t) => ~Serving(w)' \/ CanAnswer(w)']_vars
  <2> SUFFICES ASSUME TypeOK, [Next]_vars, NEW t \in tokens, NEW w \in Worker,
                      Honours(w, t), Serving(w)'
               PROVE  CanAnswer(w)'
    OBVIOUS
  <2>1. Serving(w) /\ ~Raises(w, t)
    BY StatusOK DEF Honours
  <2>2. decode_validate_jwt_token(w, t) /\ get_authorized_principal(w, t)
    BY StatusOK DEF Honours
  <2>3. CanAnswer(w)
    BY <2>1, <2>2 DEF Raises, CanAnswer, get_authorized_principal
  <2> QED BY <2>1, <2>3, KeepsAnswering
<1>2. (\A w \in Worker, t \in Token : CanAnswer(w) => get_registrations(w, t) # 500)'
  BY AnswersWithoutError, PTL
<1>3. TypeOK /\ [Next]_vars
      => [\A t \in tokens, w \in Worker :
            Honours(w, t) => ~Serving(w)' \/ get_registrations(w, t)' # 500]_vars
  <2>1. TypeOK => \A t \in tokens : t \in Token
    BY DEF TypeOK
  <2> QED BY <1>1, <1>2, <2>1
<1> QED BY <1>3, TypeCorrect, PTL DEF Spec, AnswersStay

\* Whatever is missing and whenever: a worker with nothing left to do is up, or
\* lacks its /health route, its RegistrarService or its key.
THEOREM NoHalfwayRest == Spec => []RestsOnlyWhenUp
<1>1. Init => StartedInv
  BY DEF Init, BootInit, StartedInv
<1>2. TypeOK /\ StartedInv /\ [Next]_vars => StartedInv'
  BY StartedStep
<1>3. ServerInv /\ StartedInv => RestsOnlyWhenUp
  <2> SUFFICES ASSUME ServerInv, StartedInv, NEW w \in Worker,
                      AtRest(w), ~Degraded(w)
               PROVE  IsUp(w)
    BY DEF RestsOnlyWhenUp
  <2>1. /\ main[w] = "serving" /\ service[w] = "join" /\ jwt_key[w] \in Key
    BY DEF AtRest, Degraded, HasHealthRoute, StartedInv
  <2>2. threads[w] = Thread
    BY <2>1 DEF StartedInv, ServerInv, TypeOK, Thread
  <2>3. domain_name_events[w] = 0 /\ registration_events[w] = 0
    BY <2>2 DEF AtRest, Thread
  <2>4. principals[w] # Undefined /\ HasStore(w)
    BY <2>1 DEF ServerInv, LoadedInv, HasStore
  <2>5. \A t \in tokens : get_registrations(w, t) # 500
    BY <2>1, <2>4, StatusError DEF Raises
  <2> QED BY <2>2, <2>3, <2>5 DEF IsUp, Degraded
<1> QED BY <1>1, <1>2, <1>3, TypeCorrect, ServerInvariant, PTL DEF Spec

\* Nothing is ever missing.
CompleteDeployments ==
  \A d \in Deployment :
    d.wrong_env = {} /\ d.bad_files = {} /\ d.jwt_key \in Key

\* No worker is, or will be, degraded.
CompleteInv ==
  \A w \in Worker : /\ main[w] # "limping"
                    /\ service[w] # "dead"
                    /\ jwt_key[w] \in Key \cup {Undefined}

LEMMA CompleteStep ==
  ASSUME CompleteDeployments, TypeOK, CompleteInv, [Next]_vars
  PROVE  CompleteInv'
<1>1. installed.wrong_env = {} /\ installed.bad_files = {} /\ installed.jwt_key \in Key
  BY DEF TypeOK, CompleteDeployments
<1>2. CASE UNCHANGED <<main, jwt_key, service>>
  BY <1>2 DEF CompleteInv
<1>3. ASSUME NEW w \in Worker, Die(w) PROVE CompleteInv'
  BY <1>3 DEF Die, TypeOK, CompleteInv
<1>4. ASSUME NEW w \in Worker, Import(w) PROVE CompleteInv'
  <2>1. CASE Exec(w) \/ AppSettings(w) \/ AddHealthRoute(w)
    BY <2>1 DEF Exec, AppSettings, AddHealthRoute, TypeOK, CompleteInv,
       service_vars
  <2>2. CASE BootstrapRaises(w)
    BY <1>1, <2>2 DEF BootstrapRaises
  <2>3. CASE JWTService(w) \/ IdpService(w)
    BY <1>1, <2>3 DEF JWTService, IdpService, TypeOK, CompleteInv, service_vars
  <2>4. CASE StartRegistrarService(w)
    BY <2>4 DEF StartRegistrarService, TypeOK, CompleteInv
  <2> QED BY <1>3, <1>4, <2>1, <2>2, <2>3, <2>4 DEF Import, AppSettingsRaises
<1>5. ASSUME NEW w \in Worker, RunService(w) PROVE CompleteInv'
  <2>1. ~ServiceDies(w)
    BY <1>1 DEF ServiceDies
  <2>2. PICK next \in ServiceStep \ {"dead"} :
          service' = [service EXCEPT ![w] = next] /\ UNCHANGED process_vars
    BY <1>5, <2>1 DEF RunService, CreateStore, init_configs,
       AcmeDnsK8sSecretStore, ConstructRegistrar, ConstructProcessor,
       Constructs, init_k8s_watcher_service, StartRegistrar, StartProcessor,
       GoesOn, ServiceStep
  <2> QED BY <2>2 DEF TypeOK, CompleteInv, process_vars
<1>6. ASSUME NEW w \in Worker, Register(w) \/ Delegate(w) PROVE CompleteInv'
  BY <1>2, <1>6 DEF Register, Delegate, process_vars
<1>7. CASE (\E d \in Deployment : Install(d)) \/ ChangeCluster
  BY <1>2, <1>7 DEF Install, ChangeCluster, process_vars, service_vars
<1>8. CASE \/ Tick
           \/ \E w \in Worker, p \in Principal, s \in Secret : oauth2_token(w, p, s)
           \/ UNCHANGED vars
  BY <1>2, <1>8 DEF Tick, oauth2_token, vars, boot_vars, process_vars,
     service_vars
<1> QED BY <1>3, <1>4, <1>5, <1>6, <1>7, <1>8 DEF Next, BootNext, Crash

\* If nothing is ever missing, a worker with nothing left to do is up: of what
\* PipelineComesUp says, this is all but that the threads get their turns.
THEOREM CompleteDeploymentsComeUp ==
  ASSUME CompleteDeployments
  PROVE  Spec => []((\A w \in Worker : AtRest(w)) => AllComeUp)
<1>1. Init => CompleteInv
  BY DEF Init, BootInit, CompleteInv
<1>2. TypeOK /\ CompleteInv /\ [Next]_vars => CompleteInv'
  BY CompleteStep
<1>3. ServerInv /\ CompleteInv /\ RestsOnlyWhenUp
      => ((\A w \in Worker : AtRest(w)) => AllComeUp)
  <2> SUFFICES ASSUME ServerInv, CompleteInv, RestsOnlyWhenUp,
                      NEW w \in Worker, AtRest(w)
               PROVE  IsUp(w)
    BY DEF AllComeUp
  <2>1. main[w] = "serving" /\ service[w] # "dead"
    BY DEF AtRest, Serving, CompleteInv
  <2>2. jwt_key[w] \in Key
    BY <2>1 DEF ServerInv, LoadedInv, CompleteInv
  <2> QED BY <2>1, <2>2 DEF RestsOnlyWhenUp, Degraded, HasHealthRoute
<1> QED BY <1>1, <1>2, <1>3, TypeCorrect, ServerInvariant, NoHalfwayRest, PTL
        DEF Spec

-----------------------------------------------------------------------------
(* A worker's start and its events come to an end.                         *)

\* What Left(v) is computed from.
Agenda(v) == <<main[v], service[v], domain_name_events[v],
               registration_events[v]>>
Advances(w) == /\ Less(Left(w)', Left(w))
               /\ \A v \in Worker \ {w} : Left(v)' = Left(v)

\* The four ways to advance.
LEMMA AdvancesBy ==
  ASSUME NEW w \in Worker, \A v \in Worker \ {w} : Agenda(v)' = Agenda(v),
         \/ StepsOfImport(main'[w]) < StepsOfImport(main[w])
         \/ /\ main'[w] = main[w]
            /\ \/ StepsOfRun(service'[w]) < StepsOfRun(service[w])
               \/ /\ service'[w] = service[w]
                  /\ \/ domain_name_events'[w] < domain_name_events[w]
                     \/ /\ domain_name_events'[w] = domain_name_events[w]
                        /\ registration_events'[w] < registration_events[w]
  PROVE  Advances(w)
<1> DEFINE a == Left(w)'
           b == Left(w)
<1>1. /\ a[1] = StepsOfImport(main'[w]) /\ b[1] = StepsOfImport(main[w])
      /\ a[2] = StepsOfRun(service'[w]) /\ b[2] = StepsOfRun(service[w])
      /\ a[3] = domain_name_events'[w] /\ b[3] = domain_name_events[w]
      /\ a[4] = registration_events'[w] /\ b[4] = registration_events[w]
  BY DEF Left
<1>2. \A v \in Worker \ {w} : Left(v)' = Left(v)
  BY DEF Agenda, Left
<1> HIDE DEF a, b
<1>3. \/ a[1] < b[1]
      \/ a[2] < b[2] /\ a[1] = b[1]
      \/ a[3] < b[3] /\ a[1] = b[1] /\ a[2] = b[2]
      \/ a[4] < b[4] /\ a[1] = b[1] /\ a[2] = b[2] /\ a[3] = b[3]
  BY <1>1
<1>4. 1..(1-1) = {} /\ 1..(2-1) = {1} /\ 1..(3-1) = {1, 2} /\ 1..(4-1) = {1, 2, 3}
  OBVIOUS
<1>5. Less(a, b)
  BY <1>3, <1>4 DEF Less
<1> QED BY <1>2, <1>5 DEF Advances, a, b

\* The import goes on, or is cut short.
LEMMA ImportAdvances ==
  ASSUME TypeOK, NEW w \in Worker, Import(w), "app" \notin installed.wrong_env
  PROVE  Advances(w)
<1>1. /\ \/ main[w] = "down" /\ main'[w] = "AppSettings"
         \/ main[w] = "AppSettings" /\ main'[w] = "JWTService"
         \/ main[w] = "JWTService" /\ main'[w] \in {"IdpService", "limping"}
         \/ main[w] = "IdpService" /\ main'[w] \in {"RegistrarService", "limping"}
         \/ main[w] = "RegistrarService" /\ main'[w] = "HealthcheckService"
         \/ main[w] = "HealthcheckService" /\ main'[w] = "serving"
      /\ \A v \in Worker \ {w} : main'[v] = main[v]
  BY DEF Import, Exec, AppSettingsRaises, AppSettings, JWTService, IdpService,
     BootstrapRaises, StartRegistrarService, AddHealthRoute, TypeOK
<1>2. /\ \A v \in Worker \ {w} : service'[v] = service[v]
      /\ UNCHANGED <<domain_name_events, registration_events>>
  BY DEF Import, Exec, AppSettingsRaises, AppSettings, JWTService, IdpService,
     BootstrapRaises, StartRegistrarService, AddHealthRoute, TypeOK,
     service_vars
<1>3. StepsOfImport(main'[w]) < StepsOfImport(main[w])
  BY <1>1 DEF StepsOfImport
<1> QED BY <1>1, <1>2, <1>3, AdvancesBy DEF Agenda

\* The statements of run() that are left.
LEMMA RunSteps ==
  /\ StepsOfRun("store") = 8 /\ StepsOfRun("init_configs") = 7
  /\ StepsOfRun("watcher") = 6 /\ StepsOfRun("secret store") = 5
  /\ StepsOfRun("registrar") = 4 /\ StepsOfRun("processor") = 3
  /\ StepsOfRun("start registrar") = 2 /\ StepsOfRun("start processor") = 1
  /\ StepsOfRun("join") = 0 /\ StepsOfRun("dead") = 0
<1>1. /\ StepsOfRun("store") = 8 /\ StepsOfRun("init_configs") = 7
      /\ StepsOfRun("watcher") = 6 /\ StepsOfRun("secret store") = 5
      /\ StepsOfRun("registrar") = 4
  BY DEF StepsOfRun
<1>2. /\ StepsOfRun("processor") = 3 /\ StepsOfRun("start registrar") = 2
      /\ StepsOfRun("start processor") = 1
      /\ StepsOfRun("join") = 0 /\ StepsOfRun("dead") = 0
  BY DEF StepsOfRun
<1> QED BY <1>1, <1>2

\* run() goes on, or its thread ends.
LEMMA RunServiceAdvances ==
  ASSUME TypeOK, NEW w \in Worker, RunService(w)
  PROVE  Advances(w)
<1>1. \/ service[w] = "store" /\ service'[w] = "init_configs"
      \/ service[w] = "init_configs" /\ service'[w] = "watcher"
      \/ service[w] = "watcher" /\ service'[w] = "secret store"
      \/ service[w] = "secret store" /\ service'[w] = "registrar"
      \/ service[w] = "registrar" /\ service'[w] = "processor"
      \/ service[w] = "processor" /\ service'[w] = "start registrar"
      \/ service[w] = "start registrar" /\ service'[w] = "start processor"
      \/ service[w] = "start processor" /\ service'[w] = "join"
      \/ /\ service[w] \in {"init_configs", "watcher", "secret store",
                            "registrar", "processor"}
         /\ service'[w] = "dead"
  <2>1. CASE ServiceDies(w)
    <3>1. Needs(service[w]) # {} /\ service'[w] = "dead"
      BY <2>1 DEF ServiceDies, TypeOK
    <3>2. service[w] \in {"init_configs", "watcher", "secret store",
                          "registrar", "processor"}
      BY <3>1 DEF Needs
    <3> QED BY <3>1, <3>2
  <2>2. ASSUME NEW step, NEW next, GoesOn(w, step, next)
        PROVE  service[w] = step /\ service'[w] = next
    BY <2>2 DEF GoesOn, TypeOK
  <2>3. CASE \/ CreateStore(w) \/ init_configs(w)
             \/ AcmeDnsK8sSecretStore(w) \/ ConstructRegistrar(w)
             \/ ConstructProcessor(w)
    BY <2>2, <2>3 DEF CreateStore, init_configs, AcmeDnsK8sSecretStore,
       ConstructRegistrar, ConstructProcessor, Constructs
  <2>4. CASE \/ init_k8s_watcher_service(w) \/ StartRegistrar(w)
             \/ StartProcessor(w)
    BY <2>2, <2>4 DEF init_k8s_watcher_service, StartRegistrar, StartProcessor
  <2> QED BY <2>1, <2>3, <2>4 DEF RunService
<1>2. StepsOfRun(service'[w]) < StepsOfRun(service[w])
  <2>1. ASSUME NEW s, NEW t, NEW m, NEW n, service[w] = s, service'[w] = t,
               StepsOfRun(s) = m, StepsOfRun(t) = n, n < m
        PROVE  StepsOfRun(service'[w]) < StepsOfRun(service[w])
    BY <2>1, Zenon
  <2>2. 7 < 8 /\ 6 < 7 /\ 5 < 6 /\ 4 < 5 /\ 3 < 4 /\ 2 < 3 /\ 1 < 2 /\ 0 < 1
    OBVIOUS
  <2>3. 0 < 7 /\ 0 < 6 /\ 0 < 5 /\ 0 < 4 /\ 0 < 3
    OBVIOUS
  <2>4. CASE service[w] = "store" /\ service'[w] = "init_configs"
    BY <2>1, <2>2, <2>4, RunSteps, Zenon
  <2>5. CASE service[w] = "init_configs" /\ service'[w] = "watcher"
    BY <2>1, <2>2, <2>5, RunSteps, Zenon
  <2>6. CASE service[w] = "watcher" /\ service'[w] = "secret store"
    BY <2>1, <2>2, <2>6, RunSteps, Zenon
  <2>7. CASE service[w] = "secret store" /\ service'[w] = "registrar"
    BY <2>1, <2>2, <2>7, RunSteps, Zenon
  <2>8. CASE service[w] = "registrar" /\ service'[w] = "processor"
    BY <2>1, <2>2, <2>8, RunSteps, Zenon
  <2>9. CASE service[w] = "processor" /\ service'[w] = "start registrar"
    BY <2>1, <2>2, <2>9, RunSteps, Zenon
  <2>10. CASE /\ service[w] = "start registrar"
              /\ service'[w] = "start processor"
    BY <2>1, <2>2, <2>10, RunSteps, Zenon
  <2>11. CASE service[w] = "start processor" /\ service'[w] = "join"
    BY <2>1, <2>2, <2>11, RunSteps, Zenon
  <2>12. CASE /\ service[w] \in {"init_configs", "watcher", "secret store",
                                 "registrar", "processor"}
              /\ service'[w] = "dead"
    BY <2>1, <2>3, <2>12, RunSteps, Zenon
  <2> QED BY <1>1, <2>4, <2>5, <2>6, <2>7, <2>8, <2>9, <2>10, <2>11, <2>12
<1>3. /\ UNCHANGED <<main, registration_events>>
      /\ \A v \in Worker \ {w} :
           /\ service'[v] = service[v]
           /\ domain_name_events'[v] = domain_name_events[v]
  BY DEF RunService, CreateStore, init_configs, AcmeDnsK8sSecretStore,
     ConstructRegistrar, ConstructProcessor, Constructs,
     init_k8s_watcher_service, StartRegistrar, StartProcessor, ServiceDies,
     GoesOn, TypeOK, process_vars
<1> QED BY <1>2, <1>3, AdvancesBy DEF Agenda

\* A thread handles an event.
LEMMA ThreadsAdvance ==
  ASSUME TypeOK, NEW w \in Worker, Register(w) \/ Delegate(w)
  PROVE  Advances(w)
<1>1. UNCHANGED <<main, service>>
  BY DEF Register, Delegate, process_vars
<1>2. domain_name_events[w] \in Nat /\ registration_events[w] \in Nat
  BY DEF TypeOK
<1>3. /\ \/ domain_name_events'[w] = domain_name_events[w] - 1
         \/ /\ domain_name_events'[w] = domain_name_events[w]
            /\ registration_events'[w] = registration_events[w] - 1
      /\ \A v \in Worker \ {w} :
           /\ domain_name_events'[v] = domain_name_events[v]
           /\ registration_events'[v] = registration_events[v]
  BY DEF Register, Delegate, TypeOK
<1> QED BY <1>1, <1>2, <1>3, AdvancesBy DEF Agenda

\* Whatever is missing: the steps of a worker lead to where it has nothing left
\* to do, until the files, the cluster or the process change.
THEOREM StartsAdvance == Spec => StartIsFinite
<1>1. ASSUME TypeOK, [Next]_vars, "app" \notin installed.wrong_env,
             UNCHANGED <<installed, count_vars>>
      PROVE  UNCHANGED boot_vars \/ \E w \in Worker : Advances(w)
  <2>1. ~\E d \in Deployment : Install(d)
    BY <1>1, Bounds DEF Install, TypeOK, count_vars
  <2>2. ~ChangeCluster
    BY <1>1, Bounds DEF ChangeCluster, TypeOK, count_vars
  <2>3. ~\E w \in Worker : Crash(w)
    BY <1>1, Bounds DEF Crash, TypeOK, count_vars
  <2>4. CASE \E w \in Worker : \/ Import(w) \/ RunService(w)
                               \/ Register(w) \/ Delegate(w)
    BY <1>1, <2>4, ImportAdvances, RunServiceAdvances, ThreadsAdvance
  <2>5. CASE UNCHANGED boot_vars
    BY <2>5
  <2> QED BY <1>1, <2>1, <2>2, <2>3, <2>4, <2>5
          DEF Next, BootNext, Tick, oauth2_token, vars
<1>2. TypeOK /\ [Next]_vars
      => [/\ "app" \notin installed.wrong_env
          /\ UNCHANGED <<installed, count_vars>>
          => \/ UNCHANGED boot_vars
             \/ \E w \in Worker :
                  /\ Less(Left(w)', Left(w))
                  /\ \A v \in Worker \ {w} : Left(v)' = Left(v)]_vars
  BY <1>1 DEF Advances
<1> QED BY <1>2, TypeCorrect, PTL DEF Spec, StartIsFinite

\* What is left is always four numbers.
LEMMA LeftType ==
  ASSUME TypeOK, NEW w \in Worker PROVE Left(w) \in [1..4 -> Nat]
<1>1. StepsOfImport(main[w]) \in Nat
  BY DEF StepsOfImport
<1>2. StepsOfRun(service[w]) \in Nat
  BY DEF StepsOfRun
<1>3. domain_name_events[w] \in Nat /\ registration_events[w] \in Nat
  BY DEF TypeOK
<1> QED BY <1>1, <1>2, <1>3 DEF Left

\* And four numbers do not become less for ever: the order that StartIsFinite
\* speaks of has no infinite descent.
LEMMA LessIsWellFounded ==
  ~ \E f \in [Nat -> [1..4 -> Nat]] : \A n \in Nat : Less(f[n + 1], f[n])
<1> DEFINE Lefts == [1..4 -> Nat]
           Shorter == LexProductOrdering(OpToRel(<, Nat), Nat, 4)
<1>1. IsWellFoundedOn(Shorter, Lefts)
  BY NatLessThanWellFounded, WFLexProductOrdering
<1>2. ASSUME NEW a \in Lefts, NEW b \in Lefts, Less(a, b)
      PROVE  <<a, b>> \in Shorter
  BY <1>2 DEF Less, LexProductOrdering, OpToRel
<1> HIDE DEF Shorter
<1>3. ASSUME NEW f \in [Nat -> Lefts], \A n \in Nat : Less(f[n + 1], f[n])
      PROVE  \A n \in Nat : <<f[n + 1], f[n]>> \in Shorter
  <2>1. \A n \in Nat : f[n] \in Lefts /\ f[n + 1] \in Lefts
    <3> HIDE DEF Lefts
    <3> QED BY <1>3
  <2> QED BY <1>2, <1>3, <2>1
<1> QED BY <1>1, <1>3 DEF IsWellFoundedOn
=============================================================================

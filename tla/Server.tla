--------------------------------- MODULE Server ---------------------------------
(***************************************************************************)
(* The HTTP API of the workers of module Bootstrap: access tokens are      *)
(* issued by POST /oauth2/token and open GET /registrations.  A token is   *)
(* signed and holds all a worker needs to judge it, so that one issued by  *)
(* a worker is good for the others and survives restarts.                  *)
(*                                                                         *)
(* The handlers never wait for anything, so each is one step of the event  *)
(* loop.  Requests that change nothing are functions of the state.         *)
(***************************************************************************)
EXTENDS Bootstrap

CONSTANTS
  Hour,       \* the length of an hour, in the units of the clock
  FallBack,   \* when the local clock is turned back by an hour
  MaxTime,    \* bound on the clock
  MaxTokens   \* bound on the tokens issued

ASSUME TimeAssumption ==
  /\ Hour \in Nat \ {0}
  /\ FallBack \in Nat /\ FallBack >= Hour
  /\ MaxTime \in Nat
  /\ MaxTokens \in Nat

VARIABLES
  now,        \* time.time()
  tokens      \* the access tokens issued so far

vars == <<boot_vars, now, tokens>>

\* A token's signature is the key it was signed with.  aud, iss, nbf (which
\* is iat) and scope are the same in every token.
Token == [key : Key, sub : Principal, iat : Nat, exp : Nat]

Init ==
  /\ BootInit
  /\ now = 0
  /\ tokens = {}

Tick ==
  /\ now < MaxTime
  /\ now' = now + 1
  /\ UNCHANGED <<boot_vars, tokens>>

-----------------------------------------------------------------------------
(* JWTService.get_jwt_payload.                                             *)

\* datetime.now() of a time, and timestamp() of a local time: of the two
\* times that the hour before the change names, the first.
Local(t) == IF t < FallBack THEN t ELSE t - Hour
timestamp(l) == IF l < FallBack THEN l ELSE l + Hour

\* Mutant: utcnow() is taken for the local time, in a zone an hour ahead.
UtcExpiry == timestamp(Local(now))

\* An hour later on the local clock: two hours, if it is turned back between.
Expiry == timestamp(Local(now) + Hour)

-----------------------------------------------------------------------------
(* POST /oauth2/token.                                                     *)

authenticate_principal(w, p, s) ==
  /\ principals[w] # Undefined
  /\ s # NoSecret
  /\ principals[w][p] = s

\* A request with the right client_id and client_secret.  Any other request,
\* one to a worker without services, and one to a worker that has no key to
\* sign with are answered with an error and change nothing.
oauth2_token(w, p, s) ==
  /\ Serving(w)
  /\ authenticate_principal(w, p, s)
  /\ jwt_key[w] \in Key
  /\ Cardinality(tokens) < MaxTokens
  /\ tokens' = tokens \cup {[key |-> jwt_key[w], sub |-> p,
                             iat |-> now, exp |-> Expiry]}
  /\ UNCHANGED <<boot_vars, now>>

\* expires_in of the answer that carried the token.
expires_in(t) == t.exp - t.iat

-----------------------------------------------------------------------------
(* GET /registrations.                                                     *)

\* jwt.decode: signature, exp and nbf.
decode_validate_jwt_token(w, t) ==
  /\ t.key = jwt_key[w]
  /\ t.iat <= now
  /\ now <= t.exp

\* Mutant: the principal of a signed token is not looked up.
TrustToken(w, t) == principals[w] # Undefined

get_authorized_principal(w, t) ==
  principals[w] # Undefined /\ principals[w][t.sub] # NoSecret

\* An exception that is none of the expected ones: no usable key or database,
\* or a store that the RegistrarService has not created yet, or never will.
Raises(w, t) ==
  \/ jwt_key[w] \notin Key
  \/ /\ decode_validate_jwt_token(w, t)
     /\ principals[w] = Undefined
  \/ /\ decode_validate_jwt_token(w, t)
     /\ get_authorized_principal(w, t)
     /\ ~HasStore(w)

\* The status of worker w's answer to a request with token t.
get_registrations(w, t) ==
  CASE Raises(w, t) -> 500
    [] /\ ~Raises(w, t)
       /\ decode_validate_jwt_token(w, t)
       /\ get_authorized_principal(w, t) -> 200
    [] OTHER -> 401

-----------------------------------------------------------------------------
(* The specification.                                                      *)

Next ==
  \/ BootNext /\ UNCHANGED <<now, tokens>>
  \/ Tick
  \/ \E w \in Worker, p \in Principal, s \in Secret : oauth2_token(w, p, s)

Spec == Init /\ [][Next]_vars

\* Threads that can go on do, and a process that ended is started again.
Fairness ==
  \A w \in Worker : /\ WF_vars(Import(w) /\ UNCHANGED <<now, tokens>>)
                    /\ WF_vars(RunService(w) /\ UNCHANGED <<now, tokens>>)
                    /\ WF_vars(Register(w) /\ UNCHANGED <<now, tokens>>)
                    /\ WF_vars(Delegate(w) /\ UNCHANGED <<now, tokens>>)

FairSpec == Spec /\ Fairness

-----------------------------------------------------------------------------
(* Properties.                                                             *)

\* Every variable has its type.
TypeOK ==
  /\ installed \in Deployment
  /\ main \in [Worker -> MainStep]
  /\ jwt_key \in [Worker -> Key \cup {NoKey, Undefined}]
  /\ principals \in [Worker -> Database \cup {Undefined}]
  /\ service \in [Worker -> ServiceStep]
  /\ threads \in [Worker -> SUBSET Thread]
  /\ domain_name_events \in [Worker -> Nat]
  /\ registration_events \in [Worker -> Nat]
  /\ installs \in 0..MaxInstalls
  /\ changes \in 0..MaxEvents
  /\ crashes \in 0..MaxCrashes
  /\ current \subseteq Worker
  /\ now \in 0..MaxTime
  /\ tokens \subseteq Token

\* A worker that came up by half registers nothing at acme-dns and touches no
\* DNS record: neither one whose import met an exception nor one whose
\* RegistrarService died, whatever file was missing and when.  Otherwise it
\* would create accounts that nobody delegates to.
HalfBuiltIsInert ==
  \A w \in Worker :
    main[w] = "limping" \/ service[w] = "dead" =>
      threads[w] \subseteq {"watcher"} /\ registration_events[w] = 0

\* w's process began after the last change of the files, and can answer.
UpToDate(w) == w \in current /\ Serving(w) /\ HasStore(w)
Honours(w, t) == Serving(w) /\ get_registrations(w, t) = 200
StillInstalled(t) ==
  t.key = installed.jwt_key /\ installed.principals[t.sub] # NoSecret

\* A client may rely on expires_in, which is an hour or more: while the key and
\* the client are not changed, every worker takes the token, also one that did
\* not issue it or was restarted since.
TokensLastAsTold ==
  \A t \in tokens :
    /\ expires_in(t) >= Hour
    /\ \A w \in Worker :
         UpToDate(w) /\ StillInstalled(t) /\ now - t.iat <= expires_in(t) =>
           Honours(w, t)

\* Once a worker's process began after a change of the key or of the
\* principals, the worker takes no token of a former key or of a principal
\* that was removed, and none that is older than it was to become.
RevocationTakesEffect ==
  \A t \in tokens, w \in Worker :
    UpToDate(w) /\ Honours(w, t) =>
      StillInstalled(t) /\ now - t.iat <= expires_in(t)

\* A client that a worker has answered is never turned away by it with a 500
\* while the process lives, whatever becomes of the RegistrarService's thread,
\* of the files and of the clock: the store outlives the thread that made it,
\* and the worker keeps its key and its principals.
AnswersStay ==
  [][\A t \in tokens, w \in Worker :
       Honours(w, t) => ~Serving(w)' \/ get_registrations(w, t)' # 500]_vars

\* All threads run, /health is served, all events are handled, those of before
\* the threads ran included, and no request is answered with 500.
IsUp(w) ==
  /\ HasHealthRoute(w)
  /\ threads[w] = Thread
  /\ domain_name_events[w] = 0
  /\ registration_events[w] = 0
  /\ \A t \in tokens : get_registrations(w, t) # 500

\* What can be seen of a worker that met a missing setting.
Degraded(w) ==
  ~HasHealthRoute(w) \/ service[w] = "dead" \/ jwt_key[w] \notin Key
\* The import and run() are over, and no thread has an event to handle.
AtRest(w) ==
  /\ Serving(w)
  /\ service[w] \in {"none", "join", "dead"}
  /\ "registrar" \in threads[w] => domain_name_events[w] = 0
  /\ "processor" \in threads[w] => registration_events[w] = 0

\* A worker never stops half way without a trace: with nothing left to do, it
\* is up, or one of three things is wrong that an operator can look at.  No
\* event waits for a thread that nobody started.
RestsOnlyWhenUp == \A w \in Worker : AtRest(w) => Degraded(w) \/ IsUp(w)

\* What is left of a worker's start, and of its events.
StepsOfImport(step) ==
  CASE step = "down"               -> 6
    [] step = "AppSettings"        -> 5
    [] step = "JWTService"         -> 4
    [] step = "IdpService"         -> 3
    [] step = "RegistrarService"   -> 2
    [] step = "HealthcheckService" -> 1
    [] OTHER                       -> 0
StepsOfRun(step) ==
  CASE step = "store"           -> 8
    [] step = "init_configs"    -> 7
    [] step = "watcher"         -> 6
    [] step = "secret store"    -> 5
    [] step = "registrar"       -> 4
    [] step = "processor"       -> 3
    [] step = "start registrar" -> 2
    [] step = "start processor" -> 1
    [] OTHER                    -> 0
Left(w) == <<StepsOfImport(main[w]), StepsOfRun(service[w]),
             domain_name_events[w], registration_events[w]>>
\* The first part that differs decides.
Less(a, b) ==
  \E i \in 1..4 : /\ a[i] < b[i]
                  /\ \A j \in 1..(i-1) : a[j] = b[j]

\* Whatever is missing but the setting that ends the process: as long as nobody
\* changes the files or the cluster and nothing crashes, every step of a worker
\* leaves less to do.  An exception never makes a thread try again.
StartIsFinite ==
  [][/\ "app" \notin installed.wrong_env
     /\ UNCHANGED <<installed, count_vars>>
     => \/ UNCHANGED boot_vars
        \/ \E w \in Worker : /\ Less(Left(w)', Left(w))
                             /\ \A v \in Worker \ {w} : Left(v)' = Left(v)]_vars

\* If no setting is ever missing: every worker comes up.
AllComeUp == \A w \in Worker : IsUp(w)
NothingMissing ==
  /\ installed.wrong_env = {}
  /\ installed.bad_files = {}
  /\ installed.jwt_key \in Key
PipelineComesUp == []NothingMissing => <>[]AllComeUp
=============================================================================

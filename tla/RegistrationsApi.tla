-------------------------- MODULE RegistrationsApi ---------------------------
(***************************************************************************)
(* One worker's DictRegistrationStore as three threads use it without a    *)
(* lock: the ACMEDnsRegistrar inserts Registration objects and updates     *)
(* them in place, the DnsProviderProcessor updates them in place, and the  *)
(* event loop answers GET /registrations by walking the live dict and      *)
(* encoding each Registration field by field.                              *)
(*                                                                         *)
(* A step is what CPython does without giving another thread a turn: one   *)
(* assignment, or one field encoded.  The value of a field is the number   *)
(* of the pass, of the thread that owns the field, that wrote it; 0 is the *)
(* None of a field not written yet.  A pass whose remote calls fail writes *)
(* nothing, and is left out but for ResultIsNone.                          *)
(***************************************************************************)
EXTENDS Integers, Sequences, SequencesExt, FiniteSets

CONSTANTS
  Name,       \* domain names
  MaxEvents,  \* bound on the domain name events
  MaxReads    \* bound on the API requests

ASSUME ApiAssumption ==
  /\ IsFiniteSet(Name)
  /\ MaxEvents \in Nat
  /\ MaxReads \in Nat

\* The fields the registrar assigns in an update, in this order, and those the
\* processor assigns.  The others never change once the object is there.
EventFields == <<"updated_at", "last_event_type", "source_domain_name_event">>
\* Mutant: the time of the update is assigned first.
DatedCnameFields == <<"dns_cname_updated_at", "dns_cname_id",
                      "dns_cname_provider", "dns_cname_record_json">>

CnameFields == <<"dns_cname_id", "dns_cname_provider", "dns_cname_record_json",
                 "dns_cname_updated_at">>
\* The order in which class Registration declares them, and dict() visits them.
Declared == <<"updated_at", "last_event_type", "dns_cname_updated_at",
              "dns_cname_id", "dns_cname_provider", "dns_cname_record_json",
              "source_domain_name_event">>
Field == Range(Declared)
Registration == [Field -> Nat]

VARIABLES
  store,      \* the names in the dict, in the order of insertion
  object,     \* the Registration object of each name in the store
  registrar,  \* ACMEDnsRegistrar: name and number of its pass, next field
  events,     \* domain name events so far
  acme_dns_registration_queue,
  processor,  \* DnsProviderProcessor: its event, number of its pass, next field
  updates,    \* passes of the processor so far
  request,    \* the API request being answered
  reads       \* API requests so far

vars == <<store, object, registrar, events, acme_dns_registration_queue,
          processor, updates, request, reads>>

Idle == [name |-> "none", pass |-> 0, next |-> 0]
NoRequest == [pc |-> "none", before |-> {}, left |-> <<>>, size |-> 0,
              next |-> 0, view |-> <<>>]

Init ==
  /\ store = <<>>
  /\ object = [n \in Name |-> [f \in Field |-> 0]]
  /\ registrar = Idle
  /\ events = 0
  /\ acme_dns_registration_queue = <<>>
  /\ processor = Idle
  /\ updates = 0
  /\ request = NoRequest
  /\ reads = 0

-----------------------------------------------------------------------------
(* The ACMEDnsRegistrar thread.                                            *)

\* get_registration found n: the update in place begins.
BeginUpdate(n) ==
  /\ registrar = Idle
  /\ events < MaxEvents
  /\ n \in Range(store)
  /\ events' = events + 1
  /\ registrar' = [name |-> n, pass |-> events', next |-> 1]
  /\ UNCHANGED <<store, object, acme_dns_registration_queue, processor, updates,
                 request, reads>>

\* It did not: a Registration is built and put under its name.
PutNew(n) ==
  /\ registrar = Idle
  /\ events < MaxEvents
  /\ n \notin Range(store)
  /\ events' = events + 1
  /\ store' = Append(store, n)
  /\ object' = [object EXCEPT ![n] =
                  [f \in Field |-> IF f \in Range(EventFields) THEN events'
                                                               ELSE 0]]
  /\ registrar' = [name |-> n, pass |-> events', next |-> 0]
  /\ UNCHANGED <<acme_dns_registration_queue, processor, updates, request, reads>>

AssignEventField ==
  /\ registrar.next # 0
  /\ object' = [object EXCEPT
                  ![registrar.name][EventFields[registrar.next]] = registrar.pass]
  /\ registrar' = [registrar EXCEPT
                     !.next = IF @ < Len(EventFields) THEN @ + 1 ELSE 0]
  /\ UNCHANGED <<store, events, acme_dns_registration_queue, processor, updates,
                 request, reads>>

\* put_registration of an object that is in the dict changes nothing.  The
\* event takes a shallow copy of the registration as it is now.
FireEvent ==
  /\ registrar.pass # 0
  /\ registrar.next = 0
  /\ acme_dns_registration_queue' =
       Append(acme_dns_registration_queue,
              [name |-> registrar.name, copy |-> object[registrar.name]])
  /\ registrar' = Idle
  /\ UNCHANGED <<store, object, events, processor, updates, request, reads>>

-----------------------------------------------------------------------------
(* The DnsProviderProcessor thread, for one provider.                      *)

\* Mutant: the copy that came with the event is put back into the store.
BeginCnameOnCopy ==
  LET e == Head(acme_dns_registration_queue)
  IN /\ processor = Idle
     /\ acme_dns_registration_queue # <<>>
     /\ updates' = updates + 1
     /\ processor' = [name |-> e.name, pass |-> updates', next |-> 1]
     /\ object' = [object EXCEPT ![e.name] = e.copy]
     /\ acme_dns_registration_queue' = Tail(acme_dns_registration_queue)
     /\ UNCHANGED <<store, registrar, events, request, reads>>

\* A provider returned a result for the event's name.
BeginCname ==
  /\ processor = Idle
  /\ acme_dns_registration_queue # <<>>
  /\ updates' = updates + 1
  /\ processor' = [name |-> Head(acme_dns_registration_queue).name,
                   pass |-> updates', next |-> 1]
  /\ acme_dns_registration_queue' = Tail(acme_dns_registration_queue)
  /\ UNCHANGED <<store, object, registrar, events, request, reads>>

\* It returned None: reading dns_cname_id raises before any assignment.
ResultIsNone ==
  /\ processor = Idle
  /\ acme_dns_registration_queue # <<>>
  /\ acme_dns_registration_queue' = Tail(acme_dns_registration_queue)
  /\ UNCHANGED <<store, object, registrar, events, processor, updates, request,
                 reads>>

\* Mutant: one assignment too many.
AssignOneMore ==
  /\ processor.next # 0
  /\ object' = [object EXCEPT
                  ![processor.name][CnameFields[processor.next]] = processor.pass]
  /\ processor' = IF processor.next <= Len(CnameFields)
                  THEN [processor EXCEPT !.next = @ + 1]
                  ELSE Idle
  /\ UNCHANGED <<store, registrar, events, acme_dns_registration_queue, updates,
                 request, reads>>

\* The object of the store is updated, not the copy that came with the event;
\* putting it again changes nothing.
AssignCnameField ==
  /\ processor.next # 0
  /\ object' = [object EXCEPT
                  ![processor.name][CnameFields[processor.next]] = processor.pass]
  /\ processor' = IF processor.next < Len(CnameFields)
                  THEN [processor EXCEPT !.next = @ + 1]
                  ELSE Idle
  /\ UNCHANGED <<store, registrar, events, acme_dns_registration_queue, updates,
                 request, reads>>

-----------------------------------------------------------------------------
(* The event loop: GET /registrations and GET /registrations/{name}.       *)

Answering == request.pc \in {"waiting", "busy"}

\* get_all returns the dict itself.
get_all ==
  /\ ~Answering
  /\ reads < MaxReads
  /\ reads' = reads + 1
  /\ request' = [NoRequest EXCEPT !.pc = "waiting", !.before = Range(store)]
  /\ UNCHANGED <<store, object, registrar, events, acme_dns_registration_queue,
                 processor, updates>>

\* An item as the iterator returns it, with nothing encoded yet.
Item(n) == [name |-> n, shown |-> [f \in Field |-> 0]]

\* The framework makes an iterator of it and asks it for the first item, which
\* gives no other thread a turn.
BeginWalk ==
  /\ request.pc = "waiting"
  /\ request' =
       IF store = <<>> THEN [request EXCEPT !.pc = "200"]
       ELSE [request EXCEPT !.pc = "busy", !.size = Len(store),
                            !.view = <<Item(Head(store))>>,
                            !.left = Tail(store), !.next = 1]
  /\ UNCHANGED <<store, object, registrar, events, acme_dns_registration_queue,
                 processor, updates, reads>>

\* get_by_name returns one object, in a dict of the request's own.
get_by_name(n) ==
  /\ ~Answering
  /\ reads < MaxReads
  /\ reads' = reads + 1
  /\ request' = IF n \in Range(store)
                THEN [NoRequest EXCEPT !.pc = "busy", !.before = {n},
                                       !.left = <<n>>, !.size = -1]
                ELSE [NoRequest EXCEPT !.pc = "404"]
  /\ UNCHANGED <<store, object, registrar, events, acme_dns_registration_queue,
                 processor, updates>>

\* The iterator of the dict raises if the dict's size changed since it was
\* made; size -1 is the dict of a request by name.
SizeChanged == request.size \notin {-1, Len(store)}

\* Mutant: the iterator's error ends the answer.
NextItemOrEnd ==
  /\ request.pc = "busy"
  /\ request.next = 0
  /\ request' =
       IF request.left = <<>> \/ SizeChanged THEN [request EXCEPT !.pc = "200"]
       ELSE [request EXCEPT
               !.view = Append(@, Item(Head(request.left))),
               !.left = Tail(@), !.next = 1]
  /\ UNCHANGED <<store, object, registrar, events, acme_dns_registration_queue,
                 processor, updates, reads>>

\* Mutant: the walk starts over with the old iterator.
NextItemOrAgain ==
  /\ request.pc = "busy"
  /\ request.next = 0
  /\ request' =
       IF SizeChanged THEN [request EXCEPT !.left = store, !.view = <<>>]
       ELSE IF request.left = <<>> THEN [request EXCEPT !.pc = "200"]
       ELSE [request EXCEPT
               !.view = Append(@, Item(Head(request.left))),
               !.left = Tail(@), !.next = 1]
  /\ UNCHANGED <<store, object, registrar, events, acme_dns_registration_queue,
                 processor, updates, reads>>

\* The iterator is asked for the next item, or says that there is none.
NextItem ==
  /\ request.pc = "busy"
  /\ request.next = 0
  /\ request' =
       IF request.left = <<>> /\ ~SizeChanged THEN [request EXCEPT !.pc = "200"]
       ELSE IF SizeChanged THEN [request EXCEPT !.pc = "500"]
       ELSE [request EXCEPT
               !.view = Append(@, Item(Head(request.left))),
               !.left = Tail(@), !.next = 1]
  /\ UNCHANGED <<store, object, registrar, events, acme_dns_registration_queue,
                 processor, updates, reads>>

\* One more field of the current registration is encoded.
EncodeField ==
  /\ request.next # 0
  /\ LET k == Len(request.view)
         f == Declared[request.next]
     IN request' = [request EXCEPT
          !.view[k].shown[f] = object[request.view[k].name][f],
          !.next = IF @ < Len(Declared) THEN @ + 1 ELSE 0]
  /\ UNCHANGED <<store, object, registrar, events, acme_dns_registration_queue,
                 processor, updates, reads>>

-----------------------------------------------------------------------------

Registrar == AssignEventField \/ FireEvent
Processor == BeginCname \/ ResultIsNone \/ AssignCnameField
Answer == BeginWalk \/ NextItem \/ EncodeField

Next ==
  \/ \E n \in Name : BeginUpdate(n) \/ PutNew(n) \/ get_by_name(n)
  \/ get_all
  \/ Registrar
  \/ Processor
  \/ Answer

Spec == Init /\ [][Next]_vars

-----------------------------------------------------------------------------
(* Properties.                                                             *)

\* Every variable has its type.
TypeOK ==
  /\ store \in Seq(Name)
  /\ object \in [Name -> Registration]
  /\ registrar \in {Idle} \cup [name : Name, pass : 1..MaxEvents,
                                next : 0..Len(EventFields)]
  /\ events \in 0..MaxEvents
  /\ acme_dns_registration_queue \in Seq([name : Name, copy : Registration])
  /\ processor \in {Idle} \cup [name : Name, pass : 1..MaxEvents,
                                next : 1..Len(CnameFields)]
  /\ updates \in 0..MaxEvents
  /\ request \in [pc : {"none", "waiting", "busy", "200", "404", "500"},
                  before : SUBSET Name, left : Seq(Name),
                  size : -1..Cardinality(Name), next : 0..Len(Declared),
                  view : Seq([name : Name, shown : Registration])]
  /\ reads \in 0..MaxReads

\* Two threads update the same object at the same time and put it again, yet
\* no field ever returns to an earlier value: neither thread's update is undone
\* by the other's, nor by a new registration.
FieldsNeverGoBack ==
  [][\A n \in Name, f \in Field : object'[n][f] >= object[n][f]]_vars

\* An answered GET /registrations shows every name that was registered when the
\* request came, each once, in spite of registrations made meanwhile.
ViewComplete ==
  request.pc = "200" =>
    /\ request.before \subseteq {request.view[k].name : k \in DOMAIN request.view}
    /\ \A a, b \in DOMAIN request.view :
         request.view[a].name = request.view[b].name => a = b

\* What the API shows may be of different passes, but the processor assigns
\* dns_cname_updated_at last and dict() visits it before the fields it dates:
\* a shown CNAME is never older than the time shown with it.
TimestampIsLast ==
  \A k \in DOMAIN request.view :
    LET shown == request.view[k].shown
    IN k < Len(request.view) \/ request.next = 0 =>
         /\ shown["dns_cname_id"] >= shown["dns_cname_updated_at"]
         /\ shown["dns_cname_provider"] >= shown["dns_cname_updated_at"]
         /\ shown["dns_cname_record_json"] >= shown["dns_cname_updated_at"]

\* The steps to the end of the answer: each item left and its fields, the
\* fields left of the current item, and the end.
StepsLeft(r) ==
  IF r.pc # "busy" THEN 0
  ELSE 1 + (1 + Len(Declared)) * Len(r.left)
         + (IF r.next = 0 THEN 0 ELSE 1 + Len(Declared) - r.next)

\* A walk only gets on: nothing that the two threads do starts it over or adds
\* to it, so that however busy they are it takes at most the steps for the names
\* that were there when it began.
RequestsGetOn ==
  [][request.pc = "busy" =>
       request' = request \/ StepsLeft(request') < StepsLeft(request)]_vars

\* README.md:224, "GET /registrations[/{name}] - View the registrar's
\* Registration database records": a request is answered with the records.  It
\* fails when a name is registered while the dict is being walked.
ViewNeverFails == request.pc # "500"
=============================================================================

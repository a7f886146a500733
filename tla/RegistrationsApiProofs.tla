------------------------ MODULE RegistrationsApiProofs ------------------------
(***************************************************************************)
(* Proofs about the store that three threads share without a lock, and     *)
(* what the API shows of it, and that it gets on: for any names and any    *)
(* number of events and requests, whatever turns the threads take.         *)
(***************************************************************************)
EXTENDS RegistrationsApi, TLAPS, FiniteSetTheorems

-----------------------------------------------------------------------------
(* Lemmas about sequences and the fields.                                  *)

\* Appending adds one value to the range.
LEMMA RangeOfAppend ==
  ASSUME NEW S, NEW s \in Seq(S), NEW x \in S
  PROVE  /\ Append(s, x) \in Seq(S)
         /\ Range(Append(s, x)) = Range(s) \cup {x}
         /\ x \notin Range(s) /\ IsInjective(s) => IsInjective(Append(s, x))
<1>1. /\ Append(s, x) \in Seq(S)
      /\ Len(Append(s, x)) = Len(s) + 1
      /\ DOMAIN Append(s, x) = 1..Len(s) + 1 /\ DOMAIN s = 1..Len(s)
      /\ Append(s, x)[Len(s) + 1] = x
      /\ \A i \in 1..Len(s) : Append(s, x)[i] = s[i]
  OBVIOUS
<1>2. Range(Append(s, x)) = Range(s) \cup {x}
  BY <1>1 DEF Range
<1>3. ASSUME x \notin Range(s), IsInjective(s)
      PROVE  IsInjective(Append(s, x))
  <2>1. \A i \in 1..Len(s) : s[i] # x
    BY <1>1, <1>3 DEF Range
  <2> QED BY <1>1, <1>3, <2>1 DEF IsInjective
<1> QED BY <1>1, <1>2, <1>3

\* The head and the tail of a sequence without repetitions.
LEMMA RangeOfTail ==
  ASSUME NEW S, NEW s \in Seq(S), s # <<>>
  PROVE  /\ Head(s) \in S /\ Tail(s) \in Seq(S)
         /\ Range(s) = Range(Tail(s)) \cup {Head(s)}
         /\ IsInjective(s) => IsInjective(Tail(s)) /\ Head(s) \notin Range(Tail(s))
<1>1. /\ Head(s) = s[1] /\ Head(s) \in S /\ Tail(s) \in Seq(S)
      /\ Len(s) \in Nat /\ Len(s) > 0
      /\ DOMAIN Tail(s) = 1..Len(s) - 1 /\ DOMAIN s = 1..Len(s)
      /\ \A i \in 1..Len(s) - 1 : Tail(s)[i] = s[i + 1]
  OBVIOUS
<1>2. Range(s) = Range(Tail(s)) \cup {Head(s)}
  <2>1. ASSUME NEW i \in 1..Len(s)
        PROVE  s[i] \in Range(Tail(s)) \cup {Head(s)}
    <3>1. CASE i = 1
      BY <1>1, <3>1
    <3>2. CASE i # 1
      <4>1. i - 1 \in 1..Len(s) - 1 /\ Tail(s)[i - 1] = s[i]
        BY <1>1, <3>2
      <4> QED BY <1>1, <4>1 DEF Range
    <3> QED BY <3>1, <3>2
  <2>2. ASSUME NEW i \in 1..Len(s) - 1
        PROVE  Tail(s)[i] \in Range(s)
    BY <1>1 DEF Range
  <2>3. Head(s) \in Range(s)
    BY <1>1 DEF Range
  <2> QED BY <1>1, <2>1, <2>2, <2>3 DEF Range
<1>3. ASSUME IsInjective(s)
      PROVE  IsInjective(Tail(s)) /\ Head(s) \notin Range(Tail(s))
  <2>1. IsInjective(Tail(s))
    BY <1>1, <1>3 DEF IsInjective
  <2>2. ASSUME NEW i \in 1..Len(s) - 1 PROVE Tail(s)[i] # Head(s)
    BY <1>1, <1>3 DEF IsInjective
  <2> QED BY <1>1, <2>1, <2>2 DEF Range
<1> QED BY <1>1, <1>2, <1>3

\* The elements of a sequence that is not empty.
LEMMA ElementsOf ==
  ASSUME NEW S, NEW s \in Seq(S), s # <<>>
  PROVE  /\ Len(s) \in Nat \ {0} /\ DOMAIN s = 1..Len(s)
         /\ 1 \in DOMAIN s /\ Head(s) = s[1] /\ Head(s) \in S
         /\ Len(s) \in DOMAIN s /\ s[Len(s)] \in S
         /\ Tail(s) \in Seq(S) /\ Len(Tail(s)) = Len(s) - 1
         /\ \A i \in DOMAIN Tail(s) : i + 1 \in DOMAIN s /\ Tail(s)[i] = s[i + 1]
         /\ \A x \in S : [s EXCEPT ![Len(s)] = x] \in Seq(S)
  OBVIOUS

\* A sequence of different names is no longer than there are names.
LEMMA DistinctNames ==
  ASSUME NEW s \in Seq(Name), IsInjective(s)
  PROVE  Len(s) \in 0..Cardinality(Name)
<1>0. Len(s) \in Nat /\ s \in [1..Len(s) -> Name]
  OBVIOUS
<1>1. s \in Injection(1..Len(s), Name) /\ Len(s) \in Nat
  BY <1>0 DEF Injection
<1>2. Cardinality(1..Len(s)) = Len(s)
  <2>1. 1 \in Int /\ Len(s) \in Int
    BY <1>1
  <2>2. Cardinality(1..Len(s)) = IF 1 > Len(s) THEN 0 ELSE Len(s) - 1 + 1
    BY <2>1, FS_Interval, Zenon
  <2> QED BY <1>1, <2>2
<1>3. Cardinality(Name) \in Nat
  BY ApiAssumption, FS_CardinalityType
<1>4. Cardinality(1..Len(s)) <= Cardinality(Name)
  BY <1>1, ApiAssumption, FS_Injection
<1> QED BY <1>1, <1>2, <1>3, <1>4

\* The fields that dns_cname_updated_at dates.
Content == {"dns_cname_id", "dns_cname_provider", "dns_cname_record_json"}

\* Who assigns which fields.
LEMMA EventFieldNames ==
  Range(EventFields) = {"updated_at", "last_event_type", "source_domain_name_event"}
  BY DEF Range, EventFields

LEMMA CnameFieldNames ==
  Range(CnameFields) = {"dns_cname_id", "dns_cname_provider",
                        "dns_cname_record_json", "dns_cname_updated_at"}
  BY DEF Range, CnameFields

LEMMA FieldNames == Field = Range(EventFields) \cup Range(CnameFields)
<1>1. Field = {"updated_at", "last_event_type", "dns_cname_updated_at",
               "dns_cname_id", "dns_cname_provider", "dns_cname_record_json",
               "source_domain_name_event"}
  BY DEF Field, Range, Declared
<1> QED BY <1>1, EventFieldNames, CnameFieldNames

LEMMA FieldsApart ==
  /\ Range(EventFields) \cap Range(CnameFields) = {}
  /\ Range(EventFields) \subseteq Field /\ Range(CnameFields) \subseteq Field
  BY EventFieldNames, CnameFieldNames, FieldNames

LEMMA Lengths == Len(EventFields) = 3 /\ Len(CnameFields) = 4 /\ Len(Declared) = 7
  BY DEF EventFields, CnameFields, Declared

\* The fields one after the other.
LEMMA FieldAt ==
  /\ \A i \in 1..3 : EventFields[i] \in Range(EventFields)
  /\ \A i \in 1..4 : CnameFields[i] \in Range(CnameFields)
  /\ \A i \in 1..3 : CnameFields[i] \in Content
  /\ CnameFields[4] = "dns_cname_updated_at"
  /\ \A i \in 1..7 : Declared[i] \in Field
  BY DEF Range, EventFields, CnameFields, Declared, Field, Content

-----------------------------------------------------------------------------
(* The inductive invariant.                                                *)

\* The threads and the queue name registrations that are in the store; each
\* thread's pass is its latest, and every pass of the processor has an event
\* of its own.
ThreadInv ==
  /\ registrar.pass # 0 =>
       registrar.name \in Range(store) /\ registrar.pass = events
  /\ processor.pass # 0 =>
       processor.name \in Range(store) /\ processor.pass = updates
  /\ \A k \in DOMAIN acme_dns_registration_queue :
       acme_dns_registration_queue[k].name \in Range(store)
  /\ updates + Len(acme_dns_registration_queue) <= events
  /\ registrar.pass # 0 =>
       updates + Len(acme_dns_registration_queue) < events

\* No field is of a later pass than the latest of its thread, and no CNAME is
\* older than its time.
ObjectInv ==
  /\ \A n \in Name \ Range(store), f \in Field : object[n][f] = 0
  /\ \A n \in Name, f \in Range(EventFields) : object[n][f] <= events
  /\ \A n \in Name, f \in Range(CnameFields) : object[n][f] <= updates
  /\ \A n \in Name, f \in Content :
       object[n]["dns_cname_updated_at"] <= object[n][f]
  /\ \A i \in 1..3 : i < processor.next =>
       object[processor.name][CnameFields[i]] = processor.pass

\* The answer has been given field f of the view's k-th registration.
Encoded(k, f) ==
  \/ k # Len(request.view)
  \/ request.next = 0
  \/ \E i \in 1..Len(Declared) : i < request.next /\ Declared[i] = f

\* What has been encoded of a CNAME, or else what is there to be encoded, is
\* not older than the time that has been encoded.
ViewInv ==
  /\ request.next # 0 => request.view # <<>> /\ request.pc = "busy"
  /\ \A k \in DOMAIN request.view : \A f \in Content :
       LET v == request.view[k]
       IN v.shown["dns_cname_updated_at"] <=
            IF Encoded(k, f) THEN v.shown[f] ELSE object[v.name][f]

\* What was there when the request came has been visited or will be, once.
Visited == {request.view[k].name : k \in DOMAIN request.view}
WalkInv ==
  /\ IsInjective(store)
  /\ IsInjective(request.left)
  /\ \A a, b \in DOMAIN request.view :
       request.view[a].name = request.view[b].name => a = b
  /\ Visited \cap Range(request.left) = {}
  /\ IF request.pc = "waiting"
     THEN /\ request.view = <<>> /\ request.left = <<>>
          /\ request.before \subseteq Range(store)
     ELSE request.before \subseteq Visited \cup Range(request.left)
  /\ request.pc = "200" => request.left = <<>>

ApiInv == TypeOK /\ ThreadInv /\ ObjectInv /\ ViewInv /\ WalkInv
-----------------------------------------------------------------------------
(* Types.                                                                  *)

Event == [name : Name, copy : Registration]

\* What is at the head of the queue.
LEMMA HeadOfQueue ==
  ASSUME TypeOK, acme_dns_registration_queue # <<>>
  PROVE  LET q == acme_dns_registration_queue
         IN /\ Head(q).name \in Name /\ Head(q) = q[1] /\ 1 \in DOMAIN q
            /\ Tail(q) \in Seq(Event)
            /\ Len(q) \in Nat \ {0} /\ Len(Tail(q)) = Len(q) - 1
            /\ \A k \in DOMAIN Tail(q) : k + 1 \in DOMAIN q /\ Tail(q)[k] = q[k + 1]
<1> DEFINE q == acme_dns_registration_queue
<1>1. q \in Seq(Event) /\ q # <<>>
  BY DEF TypeOK, Event
<1> HIDE DEF q
<1>2. Head(q) \in Event
  BY <1>1, ElementsOf
<1>3. Head(q).name \in Name
  BY <1>2 DEF Event
<1> QED BY <1>1, <1>3, ElementsOf DEF q

\* The registrar's steps preserve the types.
LEMMA RegistrarType ==
  ASSUME TypeOK, ThreadInv,
         \/ \E n \in Name : BeginUpdate(n) \/ PutNew(n)
         \/ Registrar
  PROVE  TypeOK'
<1>1. ASSUME NEW n \in Name, BeginUpdate(n) PROVE TypeOK'
  BY <1>1, Lengths, ApiAssumption DEF BeginUpdate, TypeOK
<1>2. ASSUME NEW n \in Name, PutNew(n) PROVE TypeOK'
  <2>1. events' \in 1..MaxEvents /\ registrar' = [name |-> n, pass |-> events', next |-> 0]
    BY <1>2, ApiAssumption DEF PutNew, TypeOK
  <2>2. object' \in [Name -> Registration]
    <3>1. [f \in Field |-> IF f \in Range(EventFields) THEN events' ELSE 0]
            \in Registration
      BY <2>1 DEF Registration
    <3> QED BY <1>2, <3>1 DEF PutNew, TypeOK
  <2>3. store' \in Seq(Name)
    BY <1>2, RangeOfAppend DEF PutNew, TypeOK
  <2>4. registrar' \in [name : Name, pass : 1..MaxEvents, next : 0..Len(EventFields)]
    BY <2>1, Lengths
  <2> QED BY <1>2, <2>1, <2>2, <2>3, <2>4 DEF PutNew, TypeOK
<1>3. CASE AssignEventField
  <2>1. /\ registrar \in [name : Name, pass : 1..MaxEvents, next : 0..Len(EventFields)]
        /\ registrar.next \in 1..3
    BY <1>3, Lengths DEF AssignEventField, TypeOK, Idle
  <2>2. EventFields[registrar.next] \in Field
    BY <2>1, FieldAt, FieldNames
  <2>3. object' \in [Name -> Registration]
    <3>1. /\ registrar.name \in Name
          /\ registrar.pass \in Nat
      BY <2>1, ApiAssumption
    <3>2. /\ object \in [Name -> Registration]
          /\ object[registrar.name] \in [Field -> Nat]
      BY <3>1 DEF TypeOK, Registration
    <3>3. [object[registrar.name] EXCEPT ![EventFields[registrar.next]]
             = registrar.pass] \in Registration
      BY <2>2, <3>1, <3>2 DEF Registration
    <3>4. object' = [object EXCEPT ![registrar.name] =
                       [object[registrar.name]
                          EXCEPT ![EventFields[registrar.next]] = registrar.pass]]
      BY <1>3 DEF AssignEventField
    <3> QED BY <3>1, <3>2, <3>3, <3>4
  <2>4. registrar' \in [name : Name, pass : 1..MaxEvents, next : 0..Len(EventFields)]
    BY <1>3, <2>1, Lengths DEF AssignEventField
  <2> QED BY <1>3, <2>3, <2>4 DEF AssignEventField, TypeOK
<1>4. CASE FireEvent
  <2>1. registrar.name \in Name
    BY <1>4 DEF FireEvent, TypeOK, Idle
  <2>2. [name |-> registrar.name, copy |-> object[registrar.name]]
          \in [name : Name, copy : Registration]
    BY <2>1 DEF TypeOK
  <2>3. acme_dns_registration_queue' \in Seq([name : Name, copy : Registration])
    BY <1>4, <2>2 DEF FireEvent, TypeOK
  <2> QED BY <1>4, <2>3 DEF FireEvent, TypeOK
<1> QED BY <1>1, <1>2, <1>3, <1>4 DEF Registrar

\* The processor's steps preserve the types.
LEMMA ProcessorType ==
  ASSUME TypeOK, ThreadInv, Processor
  PROVE  TypeOK'
<1>1. CASE BeginCname
  <2>1. updates' \in 1..MaxEvents
    BY <1>1, HeadOfQueue, ApiAssumption DEF BeginCname, ThreadInv, TypeOK
  <2>2. processor' \in [name : Name, pass : 1..MaxEvents, next : 1..Len(CnameFields)]
    BY <1>1, <2>1, HeadOfQueue, Lengths DEF BeginCname
  <2> QED BY <1>1, <2>1, <2>2, HeadOfQueue DEF BeginCname, TypeOK, Event
<1>2. CASE ResultIsNone
  BY <1>2, HeadOfQueue DEF ResultIsNone, TypeOK, Event
<1>3. CASE AssignCnameField
  <2>1. processor \in [name : Name, pass : 1..MaxEvents, next : 1..Len(CnameFields)]
    BY <1>3 DEF AssignCnameField, TypeOK, Idle
  <2>2. CnameFields[processor.next] \in Field
    BY <2>1, Lengths, FieldAt, FieldNames
  <2>3. object' \in [Name -> Registration]
    <3>1. processor.name \in Name /\ processor.pass \in Nat
      BY <2>1, ApiAssumption
    <3> QED BY <1>3, <2>2, <3>1 DEF AssignCnameField, TypeOK, Registration
  <2>4. processor' \in {Idle} \cup [name : Name, pass : 1..MaxEvents,
                                    next : 1..Len(CnameFields)]
    BY <1>3, <2>1, Lengths DEF AssignCnameField
  <2> QED BY <1>3, <2>3, <2>4 DEF AssignCnameField, TypeOK
<1> QED BY <1>1, <1>2, <1>3 DEF Processor

\* What the API's steps make of the request.
ItemType == [name : Name, shown : Registration]
RequestType ==
  [pc : {"none", "waiting", "busy", "200", "404", "500"}, before : SUBSET Name,
   left : Seq(Name), size : -1..Cardinality(Name), next : 0..Len(Declared),
   view : Seq(ItemType)]

\* The next item of the walk.
Visit == Item(Head(request.left))

LEMMA ItemIsTyped ==
  ASSUME NEW n \in Name
  PROVE  /\ Item(n) \in ItemType /\ <<Item(n)>> \in Seq(ItemType)
         /\ Item(n).name = n
         /\ \A f \in Field : Item(n).shown[f] = 0
<1>1. [f \in Field |-> 0] \in Registration
  BY DEF Registration
<1> QED BY <1>1 DEF Item, ItemType

LEMMA VisitType ==
  ASSUME TypeOK, request.left # <<>>
  PROVE  /\ Visit \in ItemType
         /\ Visit.name = Head(request.left) /\ Visit.name \in Name
         /\ \A f \in Field : Visit.shown[f] = 0
<1>1. Head(request.left) \in Name
  BY DEF TypeOK
<1> QED BY <1>1, ItemIsTyped DEF Visit

\* The steps of the API preserve the types.
LEMMA RequestTypeStep ==
  ASSUME TypeOK, ThreadInv, ViewInv, WalkInv,
         get_all \/ (\E n \in Name : get_by_name(n)) \/ Answer
  PROVE  TypeOK'
<1>1. /\ UNCHANGED <<store, object, registrar, events,
                     acme_dns_registration_queue, processor, updates>>
      /\ reads' \in 0..MaxReads
  <2>1. reads \in 0..MaxReads /\ MaxReads \in Nat
    BY ApiAssumption DEF TypeOK
  <2>2. /\ UNCHANGED <<store, object, registrar, events,
                       acme_dns_registration_queue, processor, updates>>
        /\ reads' = reads \/ (reads < MaxReads /\ reads' = reads + 1)
    BY Zenon DEF get_all, get_by_name, Answer, BeginWalk, NextItem, EncodeField
  <2> QED BY <2>1, <2>2
<1>2. /\ Cardinality(Name) \in Nat /\ 0 \in 0..Len(Declared)
      /\ <<>> \in Seq(ItemType)
  BY ApiAssumption, FS_CardinalityType, Lengths
<1>3. CASE get_all
  <2>1. Range(store) \in SUBSET Name /\ 0 \in -1..Cardinality(Name)
    BY <1>2 DEF TypeOK, Range
  <2>2. <<>> \in Seq(Name)
    OBVIOUS
  <2>3. request' \in RequestType
    BY <1>2, <1>3, <2>1, <2>2 DEF get_all, NoRequest, RequestType
  <2> QED BY <1>1, <2>3 DEF TypeOK, RequestType, ItemType
<1>7. CASE BeginWalk
  <2>1. Len(store) \in -1..Cardinality(Name) /\ store \in Seq(Name)
    BY <1>2, DistinctNames DEF TypeOK, WalkInv
  <2>2. request \in RequestType
    BY DEF TypeOK, RequestType, ItemType
  <2>3. CASE store = <<>>
    <3>1. request' \in RequestType
      BY <1>7, <2>2, <2>3 DEF BeginWalk, RequestType
    <3> QED BY <1>1, <3>1 DEF TypeOK, RequestType, ItemType
  <2>4. CASE store # <<>>
    <3> DEFINE view == <<Item(Head(store))>>
    <3>1. /\ Tail(store) \in Seq(Name) /\ 1 \in 0..Len(Declared)
          /\ view \in Seq(ItemType)
      BY <2>1, <2>4, ItemIsTyped, RangeOfTail, Lengths
    <3>2. request' = [request EXCEPT !.pc = "busy", !.size = Len(store),
                         !.view = view, !.left = Tail(store), !.next = 1]
      BY <1>7, <2>4 DEF BeginWalk
    <3> HIDE DEF view
    <3>3. request' \in RequestType
      BY <2>1, <2>2, <3>1, <3>2 DEF RequestType
    <3> QED BY <1>1, <3>3 DEF TypeOK, RequestType, ItemType
  <2> QED BY <2>3, <2>4
<1>4. ASSUME NEW n \in Name, get_by_name(n) PROVE TypeOK'
  <2>1. request' \in RequestType
    <3>1. {n} \in SUBSET Name /\ <<n>> \in Seq(Name) /\ -1 \in -1..Cardinality(Name)
      BY <1>2
    <3>2. \/ request' = [pc |-> "busy", before |-> {n}, left |-> <<n>>,
                          size |-> -1, next |-> 0, view |-> <<>>]
          \/ request' = [pc |-> "404", before |-> {}, left |-> <<>>,
                         size |-> 0, next |-> 0, view |-> <<>>]
      BY <1>4 DEF get_by_name, NoRequest
    <3>3. <<>> \in Seq(Name) /\ <<>> \in Seq(ItemType)
      OBVIOUS
    <3>4. /\ {"busy", "404"} \subseteq {"none", "waiting", "busy", "200", "404", "500"}
          /\ {} \in SUBSET Name /\ 0 \in -1..Cardinality(Name)
      BY <1>2
    <3>5. /\ [pc |-> "busy", before |-> {n}, left |-> <<n>>, size |-> -1,
              next |-> 0, view |-> <<>>] \in RequestType
          /\ [pc |-> "404", before |-> {}, left |-> <<>>, size |-> 0,
              next |-> 0, view |-> <<>>] \in RequestType
      BY <1>2, <3>1, <3>3, <3>4, Zenon DEF RequestType
    <3> QED BY <3>2, <3>5
  <2> QED BY <1>1, <2>1 DEF TypeOK, RequestType, ItemType
<1>5. CASE NextItem
  <2>1. request \in RequestType
    BY DEF TypeOK, RequestType, ItemType
  <2>2. CASE request.left # <<>>
    <3>1. /\ Tail(request.left) \in Seq(Name) /\ 1 \in 0..Len(Declared)
          /\ Append(request.view, Visit) \in Seq(ItemType)
      <4>1. Visit \in ItemType
        BY <2>2, VisitType
      <4> QED BY <2>1, <2>2, <4>1, RangeOfTail, Lengths DEF RequestType
    <3>2. request' \in RequestType
      BY <1>5, <2>1, <2>2, <3>1 DEF NextItem, RequestType, Visit
    <3> QED BY <1>1, <3>2 DEF TypeOK, RequestType, ItemType
  <2>3. CASE request.left = <<>>
    <3>1. request' \in RequestType
      BY <1>5, <2>1, <2>3 DEF NextItem, RequestType
    <3> QED BY <1>1, <3>1 DEF TypeOK, RequestType, ItemType
  <2> QED BY <2>2, <2>3
<1>6. CASE EncodeField
  <2> DEFINE k == Len(request.view)
             f == Declared[request.next]
             v == request.view[k]
  <2>1. request \in RequestType
    BY DEF TypeOK, RequestType, ItemType
  <2>2. /\ k \in DOMAIN request.view /\ f \in Field
        /\ v \in ItemType
    <3>1. /\ request.view \in Seq(ItemType)
          /\ request.view # <<>> /\ request.next \in 1..7
      BY <1>6, <2>1, Lengths DEF EncodeField, ViewInv, RequestType
    <3>2. k \in DOMAIN request.view /\ v \in ItemType
      BY <3>1, ElementsOf
    <3>3. f \in Field
      BY <3>1, FieldAt
    <3> QED BY <3>2, <3>3
  <2>3. object[v.name][f] \in Nat
    <3> HIDE DEF k, f, v
    <3>1. object \in [Name -> Registration]
      BY DEF TypeOK
    <3>2. v.name \in Name
      BY <2>2 DEF ItemType
    <3>3. object[v.name] \in Registration
      BY <3>1, <3>2
    <3> QED BY <2>2, <3>3 DEF Registration
  <2>4. [v EXCEPT !.shown[f] = object[v.name][f]]
          \in ItemType
    BY <2>2, <2>3 DEF Registration, ItemType
  <2>5. /\ request' = [request EXCEPT
               !.view = [@ EXCEPT ![k] = [v EXCEPT !.shown[f] = object[v.name][f]]],
               !.next = IF @ < Len(Declared) THEN @ + 1 ELSE 0]
    BY <1>6, <2>1, <2>2 DEF EncodeField, RequestType
  <2> HIDE DEF k, f, v
  <2>6. [request.view EXCEPT ![k] = [v EXCEPT !.shown[f] = object[v.name][f]]]
          \in Seq(ItemType)
    <3>1. request.view \in Seq(ItemType) /\ request.view # <<>>
      BY <2>1, <2>2 DEF RequestType
    <3> QED BY <2>4, <3>1, ElementsOf DEF k
  <2>7. (IF request.next < Len(Declared) THEN request.next + 1 ELSE 0)
          \in 0..Len(Declared)
    BY <2>1, Lengths DEF RequestType
  <2> DEFINE view == [request.view EXCEPT
                        ![k] = [v EXCEPT !.shown[f] = object[v.name][f]]]
             next == IF request.next < Len(Declared) THEN request.next + 1 ELSE 0
  <2>8. request' = [request EXCEPT !.view = view, !.next = next]
    BY <2>5, <2>1 DEF RequestType
  <2> HIDE DEF view, next
  <2>9. request' \in RequestType
    BY <2>1, <2>6, <2>7, <2>8 DEF RequestType, view, next
  <2> QED BY <1>1, <2>9 DEF TypeOK, RequestType, ItemType
<1> QED BY <1>3, <1>4, <1>5, <1>6, <1>7 DEF Answer
(* What the threads know of the store.                                     *)

\* What TypeOK says of a thread in the middle of a pass.
LEMMA LocalsType ==
  ASSUME TypeOK
  PROVE  /\ registrar.pass # 0 =>
              /\ registrar.name \in Name /\ registrar.pass \in Nat \ {0}
              /\ registrar.next \in 0..3
         /\ processor.pass # 0 =>
              /\ processor.name \in Name /\ processor.pass \in Nat \ {0}
              /\ processor.next \in 1..4
         /\ registrar.next # 0 => registrar.pass # 0
         /\ processor.next # 0 => processor.pass # 0
         /\ processor.pass = 0 => processor.next = 0
         /\ events \in Nat /\ updates \in Nat
         /\ Len(acme_dns_registration_queue) \in Nat
<1>1. registrar = Idle \/ registrar \in [name : Name, pass : 1..MaxEvents, next : 0..3]
  BY Lengths DEF TypeOK
<1>2. processor = Idle \/ processor \in [name : Name, pass : 1..MaxEvents, next : 1..4]
  BY Lengths DEF TypeOK
<1>3. events \in Nat /\ updates \in Nat /\ Len(acme_dns_registration_queue) \in Nat
  BY ApiAssumption DEF TypeOK
<1> QED BY <1>1, <1>2, <1>3, ApiAssumption DEF Idle

LEMMA ThreadStep ==
  ASSUME TypeOK, ThreadInv, [Next]_vars
  PROVE  ThreadInv'
<1>1. ASSUME NEW n \in Name, BeginUpdate(n) PROVE ThreadInv'
  BY <1>1, LocalsType DEF BeginUpdate, ThreadInv, Idle
<1>2. ASSUME NEW n \in Name, PutNew(n) PROVE ThreadInv'
  <2>1. Range(store') = Range(store) \cup {n}
    BY <1>2, RangeOfAppend DEF PutNew, TypeOK
  <2> QED BY <1>2, <2>1, LocalsType DEF PutNew, ThreadInv, Idle
<1>3. CASE AssignEventField
  <2>1. /\ registrar'.name = registrar.name /\ registrar'.pass = registrar.pass
        /\ UNCHANGED <<store, events, acme_dns_registration_queue, processor, updates>>
    BY <1>3, LocalsType DEF AssignEventField, TypeOK, Idle
  <2> QED BY <2>1 DEF ThreadInv
<1>4. CASE FireEvent
  <2> DEFINE q == acme_dns_registration_queue
             e == [name |-> registrar.name, copy |-> object[registrar.name]]
  <2>1. /\ q' = Append(q, e) /\ registrar' = Idle
        /\ UNCHANGED <<store, events, processor, updates>>
        /\ e.name \in Range(store) /\ updates + Len(q) < events
    BY <1>4 DEF FireEvent, ThreadInv
  <2>2. q \in Seq(Event)
    BY DEF TypeOK, Event
  <2> HIDE DEF e
  <2>3. /\ Len(q') = Len(q) + 1
        /\ \A k \in DOMAIN q' : q'[k].name \in Range(store)
    BY <2>1, <2>2 DEF ThreadInv
  <2> QED BY <2>1, <2>3, LocalsType DEF ThreadInv, Idle
<1>5. CASE BeginCname
  BY <1>5, HeadOfQueue, LocalsType DEF BeginCname, ThreadInv
<1>6. CASE ResultIsNone
  BY <1>6, HeadOfQueue, LocalsType DEF ResultIsNone, ThreadInv
<1>7. CASE AssignCnameField
  <2>1. /\ processor' = Idle \/ (/\ processor'.name = processor.name
                                /\ processor'.pass = processor.pass)
        /\ UNCHANGED <<store, events, acme_dns_registration_queue, registrar, updates>>
    BY <1>7, LocalsType DEF AssignCnameField, TypeOK, Idle
  <2> QED BY <2>1 DEF ThreadInv, Idle
<1>8. CASE UNCHANGED <<store, registrar, events, acme_dns_registration_queue,
                       processor, updates>>
  BY <1>8 DEF ThreadInv
<1> QED BY <1>1, <1>2, <1>3, <1>4, <1>5, <1>6, <1>7, <1>8 DEF Next, Registrar,
           Processor, Answer, get_all, get_by_name, BeginWalk, NextItem,
           EncodeField, vars

-----------------------------------------------------------------------------
(* The registrations.                                                      *)

LEMMA FieldType ==
  ASSUME TypeOK
  PROVE  \A n \in Name, f \in Field : object[n][f] \in Nat
  BY DEF TypeOK, Registration

\* A new registration, which nobody knows of yet.
LEMMA NewObject ==
  ASSUME TypeOK, ThreadInv, ObjectInv, NEW n \in Name, PutNew(n)
  PROVE  /\ ObjectInv'
         /\ \A m \in Name, f \in Field : object'[m][f] >= object[m][f]
<1>1. /\ UNCHANGED <<processor, updates>> /\ events' = events + 1
      /\ Range(store') = Range(store) \cup {n} /\ n \notin Range(store)
  BY RangeOfAppend DEF PutNew, TypeOK
<1>2. \A m \in Name, f \in Field :
        object'[m][f] = IF m # n THEN object[m][f]
                        ELSE IF f \in Range(EventFields) THEN events' ELSE 0
  BY DEF PutNew, TypeOK
<1>3. \A f \in Field : object[n][f] = 0
  BY <1>1 DEF ObjectInv
<1>4. processor.next # 0 => processor.name \in Name /\ processor.name # n
  BY <1>1, LocalsType DEF ThreadInv
<1>5. \A m \in Name, f \in Field : object'[m][f] >= object[m][f]
  BY <1>1, <1>2, <1>3, LocalsType, FieldType
<1>6. ObjectInv'
  <2>1. \A m \in Name \ Range(store'), f \in Field : object'[m][f] = 0
    BY <1>1, <1>2 DEF ObjectInv
  <2>2. /\ \A m \in Name, f \in Range(EventFields) : object'[m][f] <= events'
        /\ \A m \in Name, f \in Range(CnameFields) : object'[m][f] <= updates'
    <3>1. ASSUME NEW m \in Name, NEW f \in Range(EventFields)
          PROVE  object'[m][f] <= events'
      BY <1>1, <1>2, LocalsType, FieldType, FieldsApart DEF ObjectInv
    <3>2. ASSUME NEW m \in Name, NEW f \in Range(CnameFields)
          PROVE  object'[m][f] <= updates'
      BY <1>1, <1>2, LocalsType, FieldType, FieldsApart DEF ObjectInv
    <3> QED BY <3>1, <3>2
  <2>3. \A m \in Name, f \in Content :
          object'[m]["dns_cname_updated_at"] <= object'[m][f]
    BY <1>2, EventFieldNames, CnameFieldNames, FieldNames DEF ObjectInv, Content
  <2>4. \A i \in 1..3 : i < processor'.next =>
          object'[processor'.name][CnameFields[i]] = processor'.pass
    <3>1. \A i \in 1..3 : CnameFields[i] \in Field
      BY FieldAt, FieldNames
    <3>2. processor.next = 0 \/ processor.next \in Nat
      BY LocalsType
    <3> QED BY <1>1, <1>2, <1>4, <3>1, <3>2 DEF ObjectInv
  <2> QED BY <2>1, <2>2, <2>3, <2>4 DEF ObjectInv
<1> QED BY <1>5, <1>6

\* The registrar overwrites what it wrote in a former pass.
LEMMA EventFieldStep ==
  ASSUME TypeOK, ThreadInv, ObjectInv, AssignEventField
  PROVE  /\ ObjectInv'
         /\ \A m \in Name, f \in Field : object'[m][f] >= object[m][f]
<1> DEFINE n == registrar.name
           g == EventFields[registrar.next]
<1>1. /\ n \in Name /\ n \in Range(store) /\ registrar.pass = events
      /\ registrar.next \in 1..3
  BY LocalsType DEF AssignEventField, ThreadInv
<1>2. g \in Range(EventFields) /\ g \in Field /\ g \notin Range(CnameFields)
  BY <1>1, FieldAt, FieldNames, EventFieldNames, CnameFieldNames
<1>3. UNCHANGED <<store, processor, updates, events>>
  BY DEF AssignEventField
<1>4. \A m \in Name, f \in Field :
        object'[m][f] = IF m = n /\ f = g THEN events ELSE object[m][f]
  BY <1>1, <1>2 DEF AssignEventField, TypeOK, Registration
<1> HIDE DEF n, g
<1>5. \A m \in Name, f \in Field : object'[m][f] >= object[m][f]
  BY <1>2, <1>4, LocalsType, FieldType DEF ObjectInv
<1>6. ObjectInv'
  <2>1. \A m \in Name \ Range(store'), f \in Field : object'[m][f] = 0
    BY <1>1, <1>3, <1>4 DEF ObjectInv
  <2>2. /\ \A m \in Name, f \in Range(EventFields) : object'[m][f] <= events'
        /\ \A m \in Name, f \in Range(CnameFields) : object'[m][f] <= updates'
    BY <1>2, <1>3, <1>4, LocalsType, FieldsApart DEF ObjectInv
  <2>3. \A m \in Name, f \in Content \cup {"dns_cname_updated_at"} :
          object'[m][f] = object[m][f]
    BY <1>2, <1>4, CnameFieldNames, FieldNames DEF Content
  <2>4. processor.next # 0 => processor.name \in Name
    BY LocalsType
  <2>5. \A i \in 1..3 : CnameFields[i] \in Content
    BY FieldAt
  <2>6. processor.next = 0 \/ processor.next \in Nat
    BY LocalsType
  <2> QED BY <1>3, <2>1, <2>2, <2>3, <2>4, <2>5, <2>6 DEF ObjectInv
<1> QED BY <1>5, <1>6

\* The processor overwrites what it wrote in a former pass, the time last.
LEMMA CnameFieldStep ==
  ASSUME TypeOK, ThreadInv, ObjectInv, AssignCnameField
  PROVE  /\ ObjectInv'
         /\ \A m \in Name, f \in Field : object'[m][f] >= object[m][f]
<1> DEFINE n == processor.name
           i == processor.next
           g == CnameFields[i]
<1>1. /\ n \in Name /\ n \in Range(store) /\ processor.pass = updates
      /\ i \in 1..4
  BY LocalsType DEF AssignCnameField, ThreadInv
<1>2. g \in Range(CnameFields) /\ g \in Field /\ g \notin Range(EventFields)
  BY <1>1, FieldAt, FieldNames, EventFieldNames, CnameFieldNames
<1>3. UNCHANGED <<store, updates, events>>
  BY DEF AssignCnameField
<1>4. \A m \in Name, f \in Field :
        object'[m][f] = IF m = n /\ f = g THEN updates ELSE object[m][f]
  BY <1>1, <1>2 DEF AssignCnameField, TypeOK, Registration
<1>5. processor' = IF i < 4 THEN [processor EXCEPT !.next = i + 1] ELSE Idle
  BY Lengths DEF AssignCnameField
<1>6. processor \in [name : Name, pass : 1..MaxEvents, next : 1..4]
  BY Lengths DEF AssignCnameField, TypeOK, Idle
<1>7. \A m \in Name, f \in Field : object'[m][f] >= object[m][f]
  BY <1>2, <1>4, LocalsType, FieldType DEF ObjectInv
<1>8. \A m \in Name \ Range(store'), f \in Field : object'[m][f] = 0
  BY <1>1, <1>3, <1>4 DEF ObjectInv
<1>9. /\ \A m \in Name, f \in Range(EventFields) : object'[m][f] <= events'
      /\ \A m \in Name, f \in Range(CnameFields) : object'[m][f] <= updates'
  BY <1>2, <1>3, <1>4, LocalsType, FieldNames DEF ObjectInv
<1>10. \A m \in Name, f \in Content :
         object'[m]["dns_cname_updated_at"] <= object'[m][f]
  <2>1. Content \cup {"dns_cname_updated_at"} \subseteq Field
    BY CnameFieldNames, FieldNames DEF Content
  <2>2. CASE i = 4
    <3>1. g = "dns_cname_updated_at"
      BY <2>2, FieldAt
    <3>2. \A f \in Content : object[n][f] = updates
      BY <1>1, <2>2 DEF ObjectInv, CnameFields, Content
    <3> QED BY <1>1, <1>4, <2>1, <3>1, <3>2, LocalsType DEF ObjectInv, Content
  <2>3. CASE i # 4
    <3>1. g \in Content
      BY <1>1, <2>3, FieldAt
    <3>2. \A m \in Name : object[m]["dns_cname_updated_at"] <= updates
      BY CnameFieldNames DEF ObjectInv
    <3> QED BY <1>4, <2>1, <3>1, <3>2 DEF ObjectInv, Content
  <2> QED BY <2>2, <2>3
<1>11. \A k \in 1..3 : k < processor'.next =>
         object'[processor'.name][CnameFields[k]] = processor'.pass
  <2>1. CASE i = 4
    BY <1>5, <2>1 DEF Idle
  <2>2. CASE i # 4
    <3>1. processor'.next = i + 1 /\ processor'.name = n /\ processor'.pass = updates
      BY <1>1, <1>5, <1>6, <2>2
    <3>2. \A k \in 1..3 : CnameFields[k] \in Field
      BY FieldAt, FieldNames
    <3> QED BY <1>1, <1>4, <3>1, <3>2 DEF ObjectInv
  <2> QED BY <2>1, <2>2
<1> QED BY <1>7, <1>8, <1>9, <1>10, <1>11 DEF ObjectInv

\* Every step: no field of a registration goes back.
LEMMA ObjectStep ==
  ASSUME TypeOK, ThreadInv, ObjectInv, [Next]_vars
  PROVE  /\ ObjectInv'
         /\ \A m \in Name, f \in Field : object'[m][f] >= object[m][f]
<1>1. \A m \in Name, f \in Field : object[m][f] \in Nat
  BY FieldType
<1>2. ASSUME NEW n \in Name, BeginUpdate(n)
      PROVE  /\ ObjectInv'
             /\ \A m \in Name, f \in Field : object'[m][f] >= object[m][f]
  <2>1. UNCHANGED <<store, object, processor, updates>> /\ events' = events + 1
    BY <1>2 DEF BeginUpdate
  <2> QED BY <1>1, <2>1, LocalsType, FieldNames DEF ObjectInv
<1>3. CASE BeginCname
  <2>1. UNCHANGED <<store, object, events>> /\ updates' = updates + 1
        /\ processor'.next = 1
    BY <1>3 DEF BeginCname
  <2> QED BY <1>1, <2>1, LocalsType, FieldNames DEF ObjectInv
<1>4. CASE UNCHANGED <<store, object, events, processor, updates>>
  BY <1>1, <1>4 DEF ObjectInv
<1> QED BY <1>2, <1>3, <1>4, NewObject, EventFieldStep, CnameFieldStep DEF Next,
           Registrar, Processor, Answer, FireEvent, ResultIsNone, get_all,
           get_by_name, BeginWalk, NextItem, EncodeField, vars
-----------------------------------------------------------------------------
(* What a request sees.                                                    *)

\* What TypeOK says of a request.
LEMMA RequestIsTyped ==
  ASSUME TypeOK
  PROVE  /\ request \in RequestType
         /\ request.view \in Seq(ItemType) /\ request.left \in Seq(Name)
         /\ \A k \in DOMAIN request.view :
              /\ request.view[k].name \in Name
              /\ \A f \in Field : request.view[k].shown[f] \in Nat
<1>1. request \in RequestType
  BY DEF TypeOK, RequestType, ItemType
<1>2. request.view \in Seq(ItemType) /\ request.left \in Seq(Name)
  BY <1>1 DEF RequestType
<1>3. \A k \in DOMAIN request.view : request.view[k] \in ItemType
  BY <1>2
<1> QED BY <1>1, <1>2, <1>3 DEF ItemType, Registration

LEMMA ContentFields == Content \cup {"dns_cname_updated_at"} \subseteq Field
  BY CnameFieldNames, FieldNames DEF Content

\* A step of a thread only makes the registrations newer.
LEMMA ViewKept ==
  ASSUME TypeOK, ViewInv, UNCHANGED request,
         \A m \in Name, f \in Field : object'[m][f] >= object[m][f],
         \A m \in Name, f \in Field : object'[m][f] \in Nat
  PROVE  ViewInv'
<1>1. ASSUME NEW k \in DOMAIN request.view, NEW f \in Content
      PROVE  LET v == request.view[k]
             IN v.shown["dns_cname_updated_at"] <=
                  IF Encoded(k, f) THEN v.shown[f] ELSE object'[v.name][f]
  <2> DEFINE v == request.view[k]
  <2>1. /\ v.name \in Name /\ f \in Field
        /\ v.shown["dns_cname_updated_at"] \in Nat
    BY RequestIsTyped, ContentFields
  <2>2. v.shown["dns_cname_updated_at"] <=
          IF Encoded(k, f) THEN v.shown[f] ELSE object[v.name][f]
    BY DEF ViewInv
  <2>3. object[v.name][f] \in Nat /\ object'[v.name][f] \in Nat
        /\ object'[v.name][f] >= object[v.name][f]
    BY <2>1, FieldType
  <2> HIDE DEF v
  <2>4. CASE Encoded(k, f)
    BY <2>2, <2>4 DEF v
  <2>5. CASE ~Encoded(k, f)
    <3>1. v.shown["dns_cname_updated_at"] <= object[v.name][f]
      BY <2>2, <2>5
    <3>2. v.shown["dns_cname_updated_at"] <= object'[v.name][f]
      BY <2>1, <2>3, <3>1
    <3> QED BY <2>5, <3>2 DEF v
  <2> QED BY <2>4, <2>5
<1>2. \A k, f : Encoded(k, f)' <=> Encoded(k, f)
  BY DEF Encoded
<1> QED BY <1>1, <1>2 DEF ViewInv

\* A registration of which nothing has been encoded is put into the view.
LEMMA ViewExtended ==
  ASSUME TypeOK, ViewInv, NextItem, request.left # <<>>, ~SizeChanged
  PROVE  ViewInv'
<1> DEFINE n == Len(request.view)
<1>1. /\ UNCHANGED object
      /\ request'.view = Append(request.view, Visit)
      /\ request'.next = 1 /\ request'.pc = "busy" /\ request.next = 0
  BY RequestIsTyped DEF NextItem, Visit, RequestType
<1>2. /\ Visit \in ItemType /\ Visit.name \in Name
      /\ Visit.shown["dns_cname_updated_at"] = 0
      /\ \A f \in Content : Visit.shown[f] = 0
  BY VisitType, ContentFields
<1>3. /\ n \in Nat /\ Len(request'.view) = n + 1
      /\ DOMAIN request'.view = 1..n + 1 /\ DOMAIN request.view = 1..n
      /\ request'.view[n + 1] = Visit
      /\ \A k \in 1..n : request'.view[k] = request.view[k]
  BY <1>1, <1>2, RequestIsTyped
<1> HIDE DEF n
<1>4. ASSUME NEW k \in 1..n + 1, NEW f \in Content
      PROVE  LET v == request'.view[k]
             IN v.shown["dns_cname_updated_at"] <=
                  IF Encoded(k, f)' THEN v.shown[f] ELSE object[v.name][f]
  <2>1. CASE k \in 1..n
    <3>1. Encoded(k, f)' /\ Encoded(k, f)
      BY <1>1, <1>3, <2>1 DEF Encoded
    <3> QED BY <1>3, <2>1, <3>1 DEF ViewInv
  <2>2. CASE k = n + 1
    <3>1. request'.view[k] = Visit
      BY <1>3, <2>2
    <3>2. object[Visit.name][f] \in Nat
      BY <1>2, FieldType, ContentFields
    <3> QED BY <1>2, <3>1, <3>2
  <2> QED BY <1>3, <2>1, <2>2
<1>5. request'.view # <<>>
  BY <1>3
<1> QED BY <1>1, <1>3, <1>4, <1>5 DEF ViewInv

\* A field is encoded: the time first, and the fields it dates after it.
LEMMA ViewEncoded ==
  ASSUME TypeOK, ObjectInv, ViewInv, EncodeField
  PROVE  ViewInv'
<1> DEFINE k == Len(request.view)
           g == Declared[request.next]
           v == request.view[k]
           view == request'.view
<1>1. /\ request.view \in Seq(ItemType) /\ request.view # <<>>
      /\ request.next \in 1..7 /\ request.pc = "busy"
  BY RequestIsTyped, Lengths DEF EncodeField, ViewInv, RequestType
<1>2. /\ k \in DOMAIN request.view /\ v \in ItemType /\ v.name \in Name /\ g \in Field
  BY <1>1, RequestIsTyped, ElementsOf, FieldAt
<1>3. /\ UNCHANGED object /\ request'.pc = "busy"
      /\ request'.next = IF request.next < 7 THEN request.next + 1 ELSE 0
      /\ view = [request.view EXCEPT ![k].shown[g] = object[v.name][g]]
  BY <1>1, RequestIsTyped, Lengths DEF EncodeField, RequestType
<1>4. /\ DOMAIN view = DOMAIN request.view /\ Len(view) = k /\ view # <<>>
      /\ \A j \in DOMAIN view : j # k => view[j] = request.view[j]
      /\ view[k] = [v EXCEPT !.shown[g] = object[v.name][g]]
  BY <1>1, <1>2, <1>3
<1>5. /\ view[k].name = v.name
      /\ \A f \in Field : view[k].shown[f] =
                           IF f = g THEN object[v.name][f] ELSE v.shown[f]
  BY <1>2, <1>4 DEF ItemType, Registration
<1>6. \A f \in Content : object[v.name]["dns_cname_updated_at"] <= object[v.name][f]
  BY <1>2 DEF ObjectInv
<1>7. ASSUME NEW j, j = k, NEW f \in Content, g # "dns_cname_updated_at"
      PROVE  Encoded(j, f)' <=> Encoded(j, f) \/ f = g
  <2>1. Encoded(j, f)' <=> \/ request.next = 7
                          \/ \E i \in 1..7 : i <= request.next /\ Declared[i] = f
    BY <1>1, <1>3, <1>4, <1>7, Lengths DEF Encoded
  <2>2. Encoded(j, f) <=> \E i \in 1..7 : i < request.next /\ Declared[i] = f
    BY <1>1, <1>7, Lengths DEF Encoded
  <2>3. \E i \in 1..6 : Declared[i] = f
    BY DEF Content, Declared
  <2> QED BY <1>1, <2>1, <2>2, <2>3
<1>8. ASSUME NEW j, j = k, NEW f \in Content, g = "dns_cname_updated_at"
      PROVE  ~Encoded(j, f)' /\ f # g
  <2>1. request.next = 3
    BY <1>1, <1>8 DEF Declared
  <2>2. \A i \in 1..3 : Declared[i] \notin Content
    BY DEF Content, Declared
  <2>3. "dns_cname_updated_at" \notin Content
    BY DEF Content
  <2> QED BY <1>1, <1>3, <1>4, <1>8, <2>1, <2>2, <2>3, Lengths DEF Encoded
<1>9. ASSUME NEW j \in DOMAIN view, NEW f \in Content
      PROVE  view[j].shown["dns_cname_updated_at"] <=
               IF Encoded(j, f)' THEN view[j].shown[f] ELSE object[view[j].name][f]
  <2>0. f \in Field /\ "dns_cname_updated_at" \in Field
    BY ContentFields
  <2> HIDE DEF k, g, v, view
  <2>1. CASE j # k
    <3>1. Encoded(j, f)' /\ Encoded(j, f)
      BY <1>4, <2>1 DEF Encoded, k, view
    <3> QED BY <1>4, <2>1, <3>1 DEF ViewInv
  <2>2. CASE j = k /\ g = "dns_cname_updated_at"
    <3>1. ~Encoded(j, f)'
      BY <1>8, <2>2
    <3>2. view[j].shown["dns_cname_updated_at"] = object[v.name]["dns_cname_updated_at"]
      BY <1>5, <2>0, <2>2
    <3>3. view[j].shown["dns_cname_updated_at"] <= object[view[j].name][f]
      BY <1>5, <1>6, <2>2, <3>2
    <3> QED BY <3>1, <3>3
  <2>3. CASE j = k /\ g # "dns_cname_updated_at"
    <3>1. v.shown["dns_cname_updated_at"] <=
            IF Encoded(j, f) THEN v.shown[f] ELSE object[v.name][f]
      BY <1>2, <2>3 DEF ViewInv, v
    <3>2. view[j].shown["dns_cname_updated_at"] = v.shown["dns_cname_updated_at"]
      BY <1>5, <2>0, <2>3
    <3>3. view[j].shown[f] = IF f = g THEN object[v.name][f] ELSE v.shown[f]
      BY <1>5, <2>0, <2>3
    <3>4. view[j].name = v.name
      BY <1>5, <2>3
    <3>5. CASE f = g
      <4>1. ~Encoded(j, f)
        BY <1>1, <2>3, <3>5, Lengths DEF Encoded, Declared, k, g
      <4>2. Encoded(j, f)'
        BY <1>7, <2>3, <3>5
      <4> QED BY <3>1, <3>2, <3>3, <3>5, <4>1, <4>2
    <3>6. CASE f # g
      <4>1. Encoded(j, f)' <=> Encoded(j, f)
        BY <1>7, <2>3, <3>6
      <4>2. CASE Encoded(j, f)
        BY <3>1, <3>2, <3>3, <3>6, <4>1, <4>2
      <4>3. CASE ~Encoded(j, f)
        BY <3>1, <3>2, <3>4, <4>1, <4>3
      <4> QED BY <4>2, <4>3
    <3> QED BY <3>5, <3>6
  <2> QED BY <2>1, <2>2, <2>3
<1> QED BY <1>3, <1>4, <1>9 DEF ViewInv

LEMMA ViewStep ==
  ASSUME TypeOK, TypeOK', ThreadInv, ObjectInv, ViewInv, [Next]_vars
  PROVE  ViewInv'
<1>1. CASE UNCHANGED request
  <2>1. \A m \in Name, f \in Field : object'[m][f] >= object[m][f]
    BY ObjectStep
  <2>2. \A m \in Name, f \in Field : object'[m][f] \in Nat
    BY DEF TypeOK, Registration
  <2> QED BY <1>1, <2>1, <2>2, ViewKept
<1>2. CASE get_all \/ \E n \in Name : get_by_name(n)
  <2>1. request'.view = <<>> /\ request'.next = 0
    BY <1>2 DEF get_all, get_by_name, NoRequest
  <2> QED BY <2>1 DEF ViewInv
<1>4. CASE BeginWalk
  <2>1. CASE store = <<>>
    <3>1. request'.view = request.view /\ request'.next = 0 /\ UNCHANGED object
          /\ request.next = 0
      BY <1>4, <2>1, RequestIsTyped DEF BeginWalk, RequestType, ViewInv
    <3> QED BY <3>1 DEF ViewInv, Encoded
  <2>2. CASE store # <<>>
    <3>1. /\ request'.view = <<Item(Head(store))>> /\ request'.next = 1
          /\ request'.pc = "busy" /\ UNCHANGED object
      BY <1>4, <2>2, RequestIsTyped DEF BeginWalk, RequestType
    <3>2. Head(store) \in Name
      <4>1. store \in Seq(Name)
        BY DEF TypeOK
      <4> QED BY <2>2, <4>1
    <3>3. /\ DOMAIN request'.view = {1} /\ request'.view # <<>>
          /\ Len(request'.view) = 1
          /\ request'.view[1] = Item(Head(store))
      BY <3>1
    <3>4. \A f \in Field : object'[Head(store)][f] \in Nat
      BY <3>1, <3>2, FieldType
    <3>5. \A f : ~Encoded(1, f)'
      <4>1. \A i \in 1..7 : ~(i < 1)
        OBVIOUS
      <4>2. 1 # 0 /\ Len(Declared)' = 7 /\ Declared' = Declared
        BY Lengths DEF Declared
      <4>3. \A i \in 1..Len(Declared)' : ~(i < request'.next)
        BY <3>1, <4>1, <4>2
      <4> QED BY <3>1, <3>3, <4>2, <4>3, Zenon DEF Encoded
    <3>6. ASSUME NEW k \in DOMAIN request'.view, NEW f \in Content
          PROVE  request'.view[k].shown["dns_cname_updated_at"] <=
                   IF Encoded(k, f)' THEN request'.view[k].shown[f]
                                     ELSE object'[request'.view[k].name][f]
      <4>1. /\ request'.view[k].shown["dns_cname_updated_at"] = 0
            /\ request'.view[k].name = Head(store)
            /\ k = 1 /\ f \in Field
        BY <3>2, <3>3, ItemIsTyped, ContentFields
      <4>2. object'[Head(store)][f] \in Nat
        BY <3>4, <4>1
      <4>3. ~Encoded(k, f)'
        BY <3>5, <4>1
      <4> QED BY <4>1, <4>2, <4>3
    <3> QED BY <3>1, <3>3, <3>6 DEF ViewInv
  <2> QED BY <2>1, <2>2
<1>3. CASE NextItem /\ (request.left = <<>> \/ SizeChanged)
  <2>1. /\ UNCHANGED object
        /\ request'.view = request.view /\ request'.next = 0 /\ request.next = 0
    BY <1>3, RequestIsTyped DEF NextItem, RequestType
  <2> QED BY <2>1 DEF ViewInv, Encoded
<1> QED BY <1>1, <1>2, <1>3, <1>4, ViewExtended, ViewEncoded DEF Next, Registrar,
           Processor, Answer, BeginUpdate, PutNew, AssignEventField, FireEvent,
           BeginCname, ResultIsNone, AssignCnameField, NextItem, vars
-----------------------------------------------------------------------------
(* The walk over the store.                                                *)

\* A new request.
LEMMA RequestComes ==
  ASSUME TypeOK, WalkInv, get_all \/ \E n \in Name : get_by_name(n)
  PROVE  WalkInv'
<1>1. UNCHANGED store /\ request'.view = <<>> /\ request'.pc # "200"
  BY DEF get_all, get_by_name, NoRequest
<1>2. /\ IsInjective(request'.left)
      /\ \/ request'.pc = "waiting" /\ request'.before = Range(store)
            /\ request'.left = <<>>
         \/ request'.pc # "waiting" /\ request'.before \subseteq Range(request'.left)
  <2>0. IsInjective(<<>>)
    BY DEF IsInjective
  <2>1. CASE get_all
    BY <2>0, <2>1 DEF get_all, NoRequest
  <2>2. ASSUME NEW n \in Name, get_by_name(n)
        PROVE  /\ IsInjective(request'.left) /\ request'.pc # "waiting"
               /\ request'.before \subseteq Range(request'.left)
    <3>1. /\ request'.pc \in {"busy", "404"}
          /\ \/ request'.left = <<n>> /\ request'.before = {n}
             \/ request'.left = <<>> /\ request'.before = {}
      BY <2>2 DEF get_by_name, NoRequest
    <3>2. IsInjective(<<n>>) /\ Range(<<n>>) = {n}
      BY DEF IsInjective, Range
    <3> QED BY <2>0, <3>1, <3>2
  <2> QED BY <2>1, <2>2
<1>3. Visited' = {}
  BY <1>1 DEF Visited
<1> QED BY <1>1, <1>2, <1>3 DEF WalkInv

\* Its walk begins with the names that are in the store now.
LEMMA WalkBegins ==
  ASSUME TypeOK, WalkInv, BeginWalk
  PROVE  WalkInv'
<1>0. /\ UNCHANGED store /\ request'.before = request.before
      /\ request.before \subseteq Range(store)
      /\ request.view = <<>> /\ request.left = <<>>
  BY RequestIsTyped DEF BeginWalk, RequestType, WalkInv
<1>1. CASE store = <<>>
  <2>1. /\ request'.view = <<>> /\ request'.left = <<>>
        /\ request'.pc = "200"
    BY <1>0, <1>1, RequestIsTyped DEF BeginWalk, RequestType
  <2>2. Range(store) = {} /\ Visited' = {} /\ IsInjective(<<>>)
    BY <1>1, <2>1 DEF Range, Visited, IsInjective
  <2> QED BY <1>0, <2>1, <2>2 DEF WalkInv
<1>2. CASE store # <<>>
  <2>1. /\ request'.view = <<Item(Head(store))>> /\ request'.left = Tail(store)
        /\ request'.pc = "busy"
    BY <1>2, RequestIsTyped DEF BeginWalk, RequestType
  <2>2. /\ DOMAIN request'.view = {1} /\ request'.view[1].name = Head(store)
    BY <1>2, <2>1, ItemIsTyped DEF TypeOK
  <2>3. Visited' = {Head(store)}
    BY <2>2 DEF Visited
  <2>4. /\ Range(store) = Range(Tail(store)) \cup {Head(store)}
        /\ IsInjective(Tail(store)) /\ Head(store) \notin Range(Tail(store))
    BY <1>2, RangeOfTail DEF TypeOK, WalkInv
  <2> QED BY <1>0, <2>1, <2>2, <2>3, <2>4 DEF WalkInv
<1> QED BY <1>1, <1>2

\* The walk goes on with the next name.
LEMMA WalkGoesOn ==
  ASSUME TypeOK, WalkInv, NextItem, request.left # <<>>, ~SizeChanged
  PROVE  WalkInv'
<1> DEFINE n == Len(request.view)
<1>1. /\ UNCHANGED store
      /\ request'.view = Append(request.view, Visit)
      /\ request'.left = Tail(request.left)
      /\ request'.before = request.before /\ request'.pc = "busy"
  BY RequestIsTyped DEF NextItem, Visit, RequestType
<1>2. /\ Visit \in ItemType /\ Visit.name = Head(request.left)
  BY VisitType
<1>3. /\ n \in Nat /\ DOMAIN request'.view = 1..n + 1 /\ DOMAIN request.view = 1..n
      /\ request'.view[n + 1] = Visit
      /\ \A k \in 1..n : request'.view[k] = request.view[k]
  BY <1>1, <1>2, RequestIsTyped
<1> HIDE DEF n
<1>4. Visited' = Visited \cup {Head(request.left)}
  BY <1>2, <1>3 DEF Visited
<1>5. /\ Range(request.left) = Range(request'.left) \cup {Head(request.left)}
      /\ Head(request.left) \notin Range(request'.left)
      /\ IsInjective(request'.left)
  BY <1>1, RequestIsTyped, RangeOfTail DEF WalkInv
<1>6. Head(request.left) \notin Visited
  BY <1>5 DEF WalkInv
<1>7. ASSUME NEW a \in 1..n + 1, NEW b \in 1..n + 1,
             request'.view[a].name = request'.view[b].name
      PROVE  a = b
  <2>1. \A k \in 1..n : request'.view[k].name # Head(request.left)
    BY <1>3, <1>6 DEF Visited
  <2>2. CASE a \in 1..n /\ b \in 1..n
    BY <1>3, <1>7, <2>2 DEF WalkInv
  <2>3. CASE a = n + 1 \/ b = n + 1
    BY <1>2, <1>3, <1>7, <2>1, <2>3
  <2> QED BY <1>3, <2>2, <2>3
<1> QED BY <1>1, <1>3, <1>4, <1>5, <1>6, <1>7 DEF WalkInv

LEMMA WalkStep ==
  ASSUME TypeOK, ViewInv, WalkInv, [Next]_vars
  PROVE  WalkInv'
<1>1. CASE UNCHANGED <<store, request>>
  BY <1>1 DEF WalkInv, Visited
<1>2. ASSUME NEW n \in Name, PutNew(n) PROVE WalkInv'
  <2>1. /\ UNCHANGED request /\ IsInjective(store')
        /\ Range(store) \subseteq Range(store')
    BY <1>2, RangeOfAppend DEF PutNew, WalkInv, TypeOK
  <2> QED BY <2>1 DEF WalkInv, Visited
<1>3. CASE NextItem /\ (request.left = <<>> \/ SizeChanged)
  <2>1. /\ UNCHANGED store
        /\ request'.view = request.view /\ request'.left = request.left
        /\ request'.before = request.before
        /\ request'.pc = "200" => request.left = <<>>
        /\ request.pc # "waiting" /\ request'.pc # "waiting"
    BY <1>3, RequestIsTyped DEF NextItem, RequestType
  <2> QED BY <2>1 DEF WalkInv, Visited
<1>4. CASE EncodeField
  <2>1. /\ request.view \in Seq(ItemType) /\ request.view # <<>> /\ request.pc = "busy"
    BY <1>4, RequestIsTyped DEF EncodeField, ViewInv
  <2>2. /\ UNCHANGED store
        /\ request'.left = request.left /\ request'.before = request.before
        /\ request'.pc = "busy" /\ DOMAIN request'.view = DOMAIN request.view
    BY <1>4, <2>1, RequestIsTyped DEF EncodeField, RequestType
  <2>3. \A k \in DOMAIN request.view : request'.view[k].name = request.view[k].name
    <3>1. \A k \in DOMAIN request.view : request.view[k] \in ItemType
      BY <2>1
    <3>2. ASSUME NEW k \in DOMAIN request.view
          PROVE  \/ request'.view[k] = request.view[k]
                 \/ \E h : request'.view[k] = [request.view[k] EXCEPT !.shown = h]
      BY <1>4, <2>1, RequestIsTyped DEF EncodeField, RequestType
    <3> QED BY <3>1, <3>2 DEF ItemType
  <2> QED BY <2>1, <2>2, <2>3 DEF WalkInv, Visited
<1> QED BY <1>1, <1>2, <1>3, <1>4, RequestComes, WalkBegins, WalkGoesOn DEF Next, Registrar,
           Processor, Answer, BeginUpdate, AssignEventField, FireEvent,
           BeginCname, ResultIsNone, AssignCnameField, NextItem, vars

-----------------------------------------------------------------------------
(* The theorems.                                                           *)

LEMMA InvariantInit == Init => ApiInv
<1> SUFFICES ASSUME Init PROVE ApiInv
  OBVIOUS
<1>1. /\ store = <<>> /\ acme_dns_registration_queue = <<>>
      /\ object = [n \in Name |-> [f \in Field |-> 0]]
      /\ registrar = Idle /\ processor = Idle /\ request = NoRequest
      /\ events = 0 /\ updates = 0 /\ reads = 0
  BY DEF Init
<1>2. TypeOK
  <2>1. [f \in Field |-> 0] \in Registration
    BY DEF Registration
  <2>2. Cardinality(Name) \in Nat
    BY ApiAssumption, FS_CardinalityType
  <2>3. /\ <<>> \in Seq(Name) /\ <<>> \in Seq([name : Name, shown : Registration])
        /\ <<>> \in Seq([name : Name, copy : Registration])
    OBVIOUS
  <2>4. request \in [pc : {"none", "waiting", "busy", "200", "404", "500"},
                    before : SUBSET Name, left : Seq(Name),
                    size : -1..Cardinality(Name), next : 0..Len(Declared),
                    view : Seq([name : Name, shown : Registration])]
    BY <1>1, <2>2, <2>3, Lengths DEF NoRequest
  <2>5. 0 \in 0..MaxEvents /\ 0 \in 0..MaxReads
    BY ApiAssumption
  <2> QED BY <1>1, <2>1, <2>3, <2>4, <2>5 DEF TypeOK
<1>3. ThreadInv
  BY <1>1 DEF ThreadInv, Idle
<1>4. ObjectInv
  <2>1. \A n \in Name, f \in Field : object[n][f] = 0
    BY <1>1
  <2>2. \A i \in 1..3 : ~(i < processor.next)
    BY <1>1 DEF Idle
  <2> QED BY <1>1, <2>1, <2>2, FieldsApart, ContentFields DEF ObjectInv
<1>5. ViewInv
  BY <1>1 DEF ViewInv, NoRequest
<1>6. WalkInv
  BY <1>1 DEF WalkInv, NoRequest, IsInjective, Visited
<1> QED BY <1>2, <1>3, <1>4, <1>5, <1>6 DEF ApiInv

LEMMA TypeStep ==
  ASSUME ApiInv, [Next]_vars
  PROVE  TypeOK'
<1>1. CASE UNCHANGED vars
  BY <1>1 DEF vars, ApiInv, TypeOK
<1> QED BY <1>1, RegistrarType, ProcessorType, RequestTypeStep DEF ApiInv, Next

LEMMA InvariantStep == ApiInv /\ [Next]_vars => ApiInv'
  BY TypeStep, ThreadStep, ObjectStep, ViewStep, WalkStep DEF ApiInv

\* The inductive invariant of the store and its readers.
THEOREM ApiInvariant == Spec => []ApiInv
  BY InvariantInit, InvariantStep, PTL DEF Spec

\* Every variable always has its type.
THEOREM TypeCorrect == Spec => []TypeOK
<1>1. ApiInv => TypeOK
  BY DEF ApiInv
<1> QED BY <1>1, ApiInvariant, PTL

\* However the two threads' assignments to one object are interleaved, no
\* field returns to an earlier value.
THEOREM FieldsGoForward == Spec => FieldsNeverGoBack
<1>1. ApiInv /\ [Next]_vars =>
        [\A n \in Name, f \in Field : object'[n][f] >= object[n][f]]_vars
  BY ObjectStep DEF ApiInv
<1> QED BY <1>1, ApiInvariant, PTL DEF Spec, FieldsNeverGoBack

\* An answered request shows every name that was there when it came, once.
THEOREM ViewsAreComplete == Spec => []ViewComplete
<1>1. ApiInv => ViewComplete
  <2> SUFFICES ASSUME ApiInv, request.pc = "200" PROVE ViewComplete
    BY DEF ViewComplete
  <2>1. Range(request.left) = {}
    BY DEF ApiInv, WalkInv, Range
  <2>2. request.before \subseteq Visited
    BY <2>1 DEF ApiInv, WalkInv
  <2> QED BY <2>2 DEF ViewComplete, Visited, ApiInv, WalkInv
<1> QED BY <1>1, ApiInvariant, PTL

\* A CNAME that the API shows is never older than the time shown with it.
THEOREM TimestampsAreLast == Spec => []TimestampIsLast
<1>1. ApiInv => TimestampIsLast
  <2> SUFFICES ASSUME ApiInv, NEW k \in DOMAIN request.view,
                      k < Len(request.view) \/ request.next = 0,
                      NEW f \in Content
               PROVE  request.view[k].shown[f]
                        >= request.view[k].shown["dns_cname_updated_at"]
    BY DEF TimestampIsLast, Content
  <2>1. TypeOK /\ ViewInv
    BY DEF ApiInv
  <2>2. k \in 1..Len(request.view) /\ Len(request.view) \in Nat
    BY <2>1, RequestIsTyped
  <2>3. Encoded(k, f)
    BY <2>2 DEF Encoded
  <2>4. request.view[k].shown["dns_cname_updated_at"] <= request.view[k].shown[f]
    BY <2>1, <2>3 DEF ViewInv
  <2>5. f \in Field /\ "dns_cname_updated_at" \in Field
    BY ContentFields
  <2> QED BY <2>1, <2>4, <2>5, RequestIsTyped
<1> QED BY <1>1, ApiInvariant, PTL

-----------------------------------------------------------------------------
(* Ending.                                                                 *)

\* One step less is left after each step of the answer.
LEMMA AnswerGetsOn ==
  ASSUME TypeOK, Answer, request.pc = "busy"
  PROVE  StepsLeft(request') < StepsLeft(request)
<1>1. /\ request.left \in Seq(Name) /\ Len(request.left) \in Nat
      /\ request.next \in 0..7
  BY RequestIsTyped, Lengths DEF RequestType
<1>2. StepsLeft(request) = 1 + 8 * Len(request.left)
                             + (IF request.next = 0 THEN 0 ELSE 8 - request.next)
  BY <1>1, Lengths DEF StepsLeft
<1>3. CASE NextItem /\ (request.left = <<>> \/ SizeChanged)
  <2>1. request'.pc # "busy"
    BY <1>3, RequestIsTyped DEF NextItem, RequestType
  <2>2. StepsLeft(request') = 0
    BY <2>1 DEF StepsLeft
  <2> QED BY <1>1, <1>2, <2>2
<1>4. CASE NextItem /\ request.left # <<>> /\ ~SizeChanged
  <2>1. /\ request'.pc = "busy" /\ request'.next = 1 /\ request.next = 0
        /\ request'.left = Tail(request.left)
    BY <1>4, RequestIsTyped DEF NextItem, RequestType
  <2>2. Len(request'.left) = Len(request.left) - 1
    BY <1>1, <1>4, <2>1
  <2>3. StepsLeft(request') = 1 + 8 * Len(request'.left) + 7
    BY <1>1, <2>1, <2>2, Lengths DEF StepsLeft
  <2> QED BY <1>1, <1>2, <2>1, <2>2, <2>3
<1>5. CASE EncodeField
  <2>1. /\ request'.pc = "busy" /\ request.next # 0
        /\ request'.left = request.left
        /\ request'.next = IF request.next < 7 THEN request.next + 1 ELSE 0
    BY <1>5, RequestIsTyped, Lengths DEF EncodeField, RequestType
  <2>2. StepsLeft(request') = 1 + 8 * Len(request.left)
                             + (IF request'.next = 0 THEN 0 ELSE 8 - request'.next)
    BY <1>1, <2>1, Lengths DEF StepsLeft
  <2> QED BY <1>1, <1>2, <2>1, <2>2
<1> QED BY <1>3, <1>4, <1>5 DEF Answer, BeginWalk, NextItem

\* A walk takes no more steps than those for the names that were there when it
\* began, whatever the two threads do meanwhile.
THEOREM RequestsOnlyGetOn == Spec => RequestsGetOn
<1>1. TypeOK /\ [Next]_vars =>
        [request.pc = "busy" =>
           request' = request \/ StepsLeft(request') < StepsLeft(request)]_vars
  <2> SUFFICES ASSUME TypeOK, [Next]_vars, request.pc = "busy"
               PROVE  request' = request \/ StepsLeft(request') < StepsLeft(request)
    OBVIOUS
  <2>1. Answer \/ request' = request
    BY DEF Next, Registrar, Processor, Answer, BeginUpdate, PutNew,
           AssignEventField, FireEvent, BeginCname, ResultIsNone,
           AssignCnameField, get_all, get_by_name, Answering, vars
  <2> QED BY <2>1, AnswerGetsOn
<1> QED BY <1>1, TypeCorrect, PTL DEF Spec, RequestsGetOn
=============================================================================

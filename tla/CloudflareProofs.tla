-------------------------- MODULE CloudflareProofs ---------------------------
(***************************************************************************)
(* Proofs about the Cloudflare provider: however many threads call it and  *)
(* whichever requests fail, it removes only records it read and found out  *)
(* of date, makes four requests at most, and implements the contract of    *)
(* module EnsureCname.                                                     *)
(***************************************************************************)
EXTENDS Cloudflare, TLAPS

\* Ids are given once and in order, the empty name has id 0, and what a caller
\* read and is about to delete pointed elsewhere.  A record is never changed
\* in place, so one with the id that was read is the record that was read.
IdInv ==
  /\ last_id > 0
  /\ zone.id \in 0..last_id
  /\ zone.id = 0 <=> zone.content = NoRecord
  /\ \A c \in Caller : pc[c] = "delete" =>
       /\ found[c].id \in 1..last_id
       /\ found[c].content \in Target \ {target[c]}
       /\ zone.id = found[c].id => zone = found[c]

Inv == TypeOK /\ IdInv

\* The initial states satisfy the invariant.
LEMMA InvInit == Init => Inv
<1> SUFFICES ASSUME Init PROVE Inv
  OBVIOUS
<1>1. TypeOK
  BY CloudflareAssumption DEF Init, TypeOK, Record, Empty
<1>2. IdInv
  BY CloudflareAssumption DEF Init, IdInv, Empty
<1> QED BY <1>1, <1>2 DEF Inv

\* A record that is created is not one that any caller has read.
LEMMA CreateInv ==
  ASSUME Inv, NEW t \in Target, Create(t)
  PROVE  /\ zone' \in Record /\ last_id' \in Nat /\ last_id' > 0
         /\ zone'.id \in 1..last_id' /\ zone'.content = t
         /\ \A c \in Caller : pc[c] = "delete" =>
              found[c].id \in 1..last_id' /\ zone'.id # found[c].id
  BY DEF Inv, TypeOK, IdInv, Create, Record

\* A name that is emptied has no record that any caller has read.
LEMMA RemoveInv ==
  ASSUME Inv, NEW id, Remove(id)
  PROVE  /\ zone' = Empty /\ zone' \in Record /\ last_id' = last_id
         /\ \A c \in Caller : pc[c] = "delete" => zone'.id # found[c].id
  BY CloudflareAssumption DEF Inv, TypeOK, IdInv, Remove, Record, Empty

\* Every step preserves the invariant.
LEMMA InvStep == Inv /\ [Next]_vars => Inv'
<1> SUFFICES ASSUME Inv, [Next]_vars PROVE Inv'
  OBVIOUS
<1>1. ASSUME NEW c \in Caller, NEW t \in Target, ensure_cname_for_acme_dns(c, t)
      PROVE  Inv'
  <2>1. TypeOK'
    BY <1>1, CloudflareAssumption
       DEF Inv, TypeOK, ensure_cname_for_acme_dns, GoTo
  <2>2. IdInv'
    BY <1>1 DEF Inv, TypeOK, IdInv, ensure_cname_for_acme_dns, GoTo
  <2> QED BY <2>1, <2>2 DEF Inv
<1>2. ASSUME NEW c \in Caller, Post(c) \/ Repost(c) PROVE Inv'
  <2>1. CASE Create(target[c]) /\ Return(c, last_id')
    <3>1. UNCHANGED <<target, found, calls, failed>> /\ target[c] \in Target
      BY <1>2 DEF Post, Repost, Inv, TypeOK
    <3>2. zone' # Empty /\ last_id' # 0
      BY <2>1, <3>1, CreateInv DEF Empty
    <3>3. TypeOK'
      BY <2>1, <3>1, <3>2, CreateInv DEF Inv, TypeOK, Return
    <3>4. IdInv'
      BY <2>1, <3>1, <3>2, CreateInv, CloudflareAssumption
         DEF Inv, TypeOK, IdInv, Return
    <3> QED BY <3>3, <3>4 DEF Inv
  <2>2. CASE UNCHANGED <<zone, last_id>>
    <3>1. /\ UNCHANGED <<target, found, calls, failed>>
          /\ \/ pc' = [pc EXCEPT ![c] = "get"] /\ UNCHANGED result
             \/ pc' = [pc EXCEPT ![c] = "failed"]
                /\ result' = [result EXCEPT ![c] = 0]
      BY <1>2, <2>2 DEF Post, Repost, GoTo, Return, Create, Inv, TypeOK, Record
    <3>2. TypeOK'
      BY <2>2, <3>1 DEF Inv, TypeOK
    <3>3. IdInv'
      BY <2>2, <3>1 DEF Inv, TypeOK, IdInv
    <3> QED BY <3>2, <3>3 DEF Inv
  <2> QED BY <1>2, <2>1, <2>2 DEF Post, Repost
<1>3. ASSUME NEW c \in Caller, Get(c) PROVE Inv'
  <2>1. TypeOK'
    BY <1>3 DEF Inv, TypeOK, Get, Return, GoTo, Record
  <2>2. IdInv'
    <3>1. CASE UNCHANGED found /\ pc'[c] \in {"ok", "failed"}
      BY <1>3, <3>1 DEF Inv, TypeOK, IdInv, Get, Return, GoTo
    <3>2. CASE /\ zone.content \in Target \ {target[c]}
               /\ found' = [found EXCEPT ![c] = zone]
               /\ GoTo(c, "delete")
      <4>1. zone.id \in 1..last_id
        BY <3>2, CloudflareAssumption DEF Inv, TypeOK, IdInv, Record
      <4> QED BY <1>3, <3>2, <4>1 DEF Inv, TypeOK, IdInv, Get, GoTo
    <3> QED BY <1>3, <3>1, <3>2 DEF Get, Return, Inv, TypeOK
  <2> QED BY <2>1, <2>2 DEF Inv
<1>4. ASSUME NEW c \in Caller, Delete(c) PROVE Inv'
  <2>1. CASE Remove(found[c].id) /\ GoTo(c, "repost") /\ UNCHANGED result
    <3>1. TypeOK'
      BY <1>4, <2>1, RemoveInv DEF Inv, TypeOK, Delete, GoTo
    <3>2. IdInv'
      BY <1>4, <2>1, RemoveInv, CloudflareAssumption
         DEF Inv, TypeOK, IdInv, Delete, GoTo, Empty
    <3> QED BY <3>1, <3>2 DEF Inv
  <2>2. CASE Return(c, 0) /\ UNCHANGED <<zone, last_id>>
    BY <1>4, <2>2 DEF Inv, TypeOK, IdInv, Delete, Return
  <2> QED BY <1>4, <2>1, <2>2 DEF Delete
<1>5. ASSUME NEW c \in Caller, ApiFails(c) PROVE Inv'
  <2>1. /\ UNCHANGED <<target, found, calls>>
        /\ failed' = failed \cup {c}
        /\ pc' = [pc EXCEPT ![c] = "failed"]
        /\ result' = [result EXCEPT ![c] = 0]
    BY <1>5 DEF ApiFails, Return
  <2>2. CASE UNCHANGED <<zone, last_id>>
    BY <2>1, <2>2 DEF Inv, TypeOK, IdInv
  <2>3. CASE Create(target[c])
    <3>1. target[c] \in Target
      BY DEF Inv, TypeOK
    <3>2. TypeOK'
      BY <2>1, <2>3, <3>1, CreateInv DEF Inv, TypeOK
    <3>3. IdInv'
      BY <2>1, <2>3, <3>1, CreateInv, CloudflareAssumption
         DEF Inv, TypeOK, IdInv
    <3> QED BY <3>2, <3>3 DEF Inv
  <2>4. CASE Remove(found[c].id)
    <3>1. TypeOK'
      BY <2>1, <2>4, RemoveInv DEF Inv, TypeOK
    <3>2. IdInv'
      BY <2>1, <2>4, RemoveInv, CloudflareAssumption
         DEF Inv, TypeOK, IdInv, Empty
    <3> QED BY <3>1, <3>2 DEF Inv
  <2> QED BY <1>5, <2>2, <2>3, <2>4 DEF ApiFails
<1>6. CASE UNCHANGED vars
  BY <1>6 DEF vars, Inv, TypeOK, IdInv
<1> QED BY <1>1, <1>2, <1>3, <1>4, <1>5, <1>6 DEF Next, Step

\* The variables have their types, and ids tell records apart.
THEOREM Invariant == Spec => []Inv
<1>1. Init => Inv
  BY InvInit
<1>2. Inv /\ [Next]_vars => Inv'
  BY InvStep
<1> QED BY <1>1, <1>2, PTL DEF Spec

\* Types alone.
THEOREM TypeCorrect == Spec => []TypeOK
<1>1. Inv => TypeOK
  BY DEF Inv
<1> QED BY <1>1, Invariant, PTL

-----------------------------------------------------------------------------
(* Records that disappear.                                                 *)

\* The zone changes in three ways only.
LEMMA ZoneStep ==
  ASSUME Inv, [Next]_vars
  PROVE  \/ UNCHANGED zone
         \/ zone = Empty
         \/ \E c \in Caller : pc[c] = "delete" /\ Remove(found[c].id)
  BY DEF Next, Step, ensure_cname_for_acme_dns, Post, Get, Delete, Repost,
     ApiFails, Create, vars

\* A record is removed only by a call that read it and wants another target.
LEMMA RemovesStep ==
  ASSUME Inv, [Next]_vars, zone' # zone, zone # Empty
  PROVE  /\ zone' = Empty
         /\ \E c \in Caller : /\ pc[c] = "delete"
                              /\ found[c] = zone
                              /\ zone.content \in Target \ {target[c]}
<1>1. PICK c \in Caller : pc[c] = "delete" /\ Remove(found[c].id)
  BY ZoneStep
<1>2. zone' = Empty /\ zone = found[c] /\ found[c].content \in Target \ {target[c]}
  BY <1>1 DEF Remove, Inv, IdInv
<1> QED BY <1>1, <1>2

\* However calls interleave and fail, only records that the remover read and
\* found to be out of date are removed.
THEOREM RemovalsAreOfOutdated == Spec => RemovesOnlyOutdated
<1>1. Inv /\ [Next]_vars =>
        [zone' # zone /\ zone # Empty =>
           /\ zone' = Empty
           /\ \E c \in Caller : /\ pc[c] = "delete"
                                /\ found[c] = zone
                                /\ zone.content \in Target \ {target[c]}]_vars
  BY RemovesStep
<1> QED BY <1>1, Invariant, PTL DEF Spec, RemovesOnlyOutdated

\* Records of other types are never touched.
THEOREM ForeignRecordsStay == Spec => ForeignStays
<1>1. Inv /\ [Next]_vars => [zone.content = Foreign => zone' = zone]_vars
  <2> SUFFICES ASSUME Inv, [Next]_vars, zone.content = Foreign
               PROVE  zone' = zone
    OBVIOUS
  <2>1. zone # Empty /\ zone.content \notin Target
    BY CloudflareAssumption DEF Empty
  <2> QED BY <2>1, RemovesStep
<1> QED BY <1>1, Invariant, PTL DEF Spec, ForeignStays

-----------------------------------------------------------------------------
(* Results, and names that keep their record.                              *)

\* A call that ends well created the record or found it, and returns its id.
LEMMA ResultStep ==
  ASSUME Inv, [Next]_vars, NEW c \in Caller, Busy(c), pc'[c] = "ok"
  PROVE  /\ result'[c] # 0
         /\ zone'.id = result'[c]
         /\ zone'.content = target[c]
<1>1. /\ pc \in [Caller -> {"idle", "post", "get", "delete", "repost", "ok",
                            "failed"}]
      /\ result \in [Caller -> Nat]
  BY DEF Inv, TypeOK
<1>2. \E id : /\ Return(c, id)
              /\ \/ Create(target[c]) /\ id = last_id'
                 \/ /\ zone.content = target[c] /\ id = zone.id
                    /\ UNCHANGED zone
                 \/ id = 0
  BY <1>1 DEF Next, Step, ensure_cname_for_acme_dns, Post, Get, Delete, Repost,
     ApiFails, GoTo, Return, Busy, vars
<1>3. PICK id : /\ Return(c, id)
                /\ \/ Create(target[c]) /\ id = last_id'
                   \/ /\ zone.content = target[c] /\ id = zone.id
                      /\ UNCHANGED zone
                   \/ id = 0
  BY <1>2
<1>4. id # 0 /\ result'[c] = id
  BY <1>1, <1>3 DEF Return
<1> QED BY <1>3, <1>4 DEF Create

\* The dns_cname_id that a call returns is that of a record with its target.
THEOREM ResultsAreLive == Spec => ResultIsLive
<1>1. Inv /\ [Next]_vars =>
        [\A c \in Caller : Busy(c) /\ pc'[c] = "ok" =>
           /\ result'[c] # 0
           /\ zone'.id = result'[c]
           /\ zone'.content = target[c]]_vars
  BY ResultStep
<1> QED BY <1>1, Invariant, PTL DEF Spec, ResultIsLive

\* As long as no request raised: while there is no record, no call was made yet or some
\* caller is about to create one.
SurvivalInv ==
  failed = {} /\ zone = Empty /\ calls # 0 =>
    \E c \in Caller : pc[c] \in {"post", "repost"}

\* Every step preserves it: who empties the name is the next to fill it, and
\* nobody who finds it empty can fail to.
LEMMA SurvivalStep == Inv /\ SurvivalInv /\ [Next]_vars => SurvivalInv'
<1> SUFFICES ASSUME Inv, SurvivalInv, [Next]_vars, failed' = {},
                    zone' = Empty, calls' # 0
             PROVE  \E d \in Caller : pc'[d] \in {"post", "repost"}
  BY DEF SurvivalInv
<1>0. failed = {}
  BY DEF Next, Step, ensure_cname_for_acme_dns, Post, Get, Delete, Repost,
     ApiFails, vars
<1>1. ASSUME NEW c \in Caller, NEW t \in Target, ensure_cname_for_acme_dns(c, t)
      PROVE  pc'[c] = "post"
  BY <1>1 DEF ensure_cname_for_acme_dns, GoTo, Inv, TypeOK
<1>2. ASSUME NEW c \in Caller, Post(c) \/ Repost(c) PROVE FALSE
  <2>1. target[c] \in Target
    BY DEF Inv, TypeOK
  <2> QED BY <1>2, <2>1, CreateInv, CloudflareAssumption
          DEF Post, Repost, Empty, Create
<1>3. ASSUME NEW c \in Caller, Get(c)
      PROVE  \E d \in Caller : pc'[d] \in {"post", "repost"}
  <2>1. PICK d \in Caller : pc[d] \in {"post", "repost"}
    BY <1>0, <1>3 DEF Get, SurvivalInv
  <2> QED BY <1>3, <2>1 DEF Get, GoTo, Return, Inv, TypeOK
<1>4. ASSUME NEW c \in Caller, Delete(c)
      PROVE  \E d \in Caller : pc'[d] \in {"post", "repost"}
  <2>1. CASE GoTo(c, "repost")
    BY <2>1 DEF GoTo, Inv, TypeOK
  <2>2. CASE Return(c, 0) /\ UNCHANGED <<zone, last_id>>
    <3>1. PICK d \in Caller : pc[d] \in {"post", "repost"}
      BY <1>0, <1>4, <2>2 DEF Delete, SurvivalInv
    <3> QED BY <1>4, <2>2, <3>1 DEF Delete, Return, Inv, TypeOK
  <2> QED BY <1>4, <2>1, <2>2 DEF Delete
<1>5. CASE UNCHANGED vars
  BY <1>0, <1>5 DEF vars, SurvivalInv
<1> QED BY <1>1, <1>2, <1>3, <1>4, <1>5 DEF Next, Step, ApiFails

\* As long as no request raised, a name for which a call was made and ended has a
\* record: concurrent replacements never leave it empty.
THEOREM RecordsSurvive == Spec => []RecordSurvives
<1>1. Init => SurvivalInv
  BY DEF Init, SurvivalInv
<1>2. Inv /\ SurvivalInv /\ [Next]_vars => SurvivalInv'
  BY SurvivalStep
<1>3. Inv /\ SurvivalInv => RecordSurvives
  BY DEF SurvivalInv, RecordSurvives, Busy, Inv, TypeOK
<1> QED BY <1>1, <1>2, <1>3, Invariant, PTL DEF Spec

-----------------------------------------------------------------------------
(* A call comes to its end.                                                *)

LEMMA RequestsOrdered ==
  /\ RequestsLeft("post") = 4 /\ RequestsLeft("get") = 3
  /\ RequestsLeft("delete") = 2 /\ RequestsLeft("repost") = 1
  /\ RequestsLeft("ok") = 0 /\ RequestsLeft("failed") = 0
  BY DEF RequestsLeft

\* Each request leads to a later one or to the end of the call.
LEMMA StepGetsOn ==
  ASSUME TypeOK, NEW c \in Caller, Step(c)
  PROVE  /\ RequestsLeft(pc'[c]) < RequestsLeft(pc[c])
         /\ \A d \in Caller \ {c} : pc'[d] = pc[d]
<1>1. /\ \/ pc[c] = "post" /\ pc'[c] \in {"get", "ok", "failed"}
         \/ pc[c] = "get" /\ pc'[c] \in {"delete", "ok", "failed"}
         \/ pc[c] = "delete" /\ pc'[c] \in {"repost", "failed"}
         \/ pc[c] = "repost" /\ pc'[c] \in {"ok", "failed"}
      /\ \A d \in Caller \ {c} : pc'[d] = pc[d]
  BY DEF Step, Post, Get, Delete, Repost, ApiFails, GoTo, Return, TypeOK
<1>2. CASE pc[c] = "post" /\ pc'[c] \in {"get", "ok", "failed"}
  BY <1>1, <1>2, RequestsOrdered
<1>3. CASE pc[c] = "get" /\ pc'[c] \in {"delete", "ok", "failed"}
  BY <1>1, <1>3, RequestsOrdered
<1>4. CASE pc[c] = "delete" /\ pc'[c] \in {"repost", "failed"}
  BY <1>1, <1>4, RequestsOrdered
<1>5. CASE pc[c] = "repost" /\ pc'[c] \in {"ok", "failed"}
  BY <1>1, <1>5, RequestsOrdered
<1> QED BY <1>1, <1>2, <1>3, <1>4, <1>5

\* However many callers replace each other's record, a call makes four requests
\* at most.
THEOREM CallsOnlyGetOn == Spec => CallsGetOn
<1>1. ASSUME TypeOK, [Next]_vars, NEW c \in Caller, Busy(c)
      PROVE  pc'[c] = pc[c] \/ RequestsLeft(pc'[c]) < RequestsLeft(pc[c])
  <2>1. ASSUME NEW d \in Caller, NEW t \in Target,
               ensure_cname_for_acme_dns(d, t)
        PROVE  pc'[c] = pc[c]
    BY <1>1, <2>1 DEF ensure_cname_for_acme_dns, GoTo, Busy, TypeOK
  <2>2. ASSUME NEW d \in Caller, Step(d)
        PROVE  pc'[c] = pc[c] \/ RequestsLeft(pc'[c]) < RequestsLeft(pc[c])
    BY <1>1, <2>2, StepGetsOn
  <2>3. CASE UNCHANGED vars
    BY <2>3 DEF vars
  <2> QED BY <1>1, <2>1, <2>2, <2>3 DEF Next
<1>2. TypeOK /\ [Next]_vars
      => [\A c \in Caller : Busy(c) =>
            \/ pc'[c] = pc[c]
            \/ RequestsLeft(pc'[c]) < RequestsLeft(pc[c])]_vars
  BY <1>1
<1> QED BY <1>2, TypeCorrect, PTL DEF Spec, CallsGetOn

-----------------------------------------------------------------------------
(* The contract.                                                           *)

\* A caller's progress as the contract sees it.
Progress(p) == IF p \in {"post", "get", "delete", "repost"} THEN "busy" ELSE p
Seen == [c \in Caller |-> Progress(pc[c])]

LEMMA SeenIsCall == Seen = [c \in Caller |-> IF Busy(c) THEN "busy" ELSE pc[c]]
  BY DEF Seen, Progress, Busy

LEMMA SeenIsCallNext ==
  Seen' = [c \in Caller |-> IF Busy(c) THEN "busy" ELSE pc[c]]'
  BY DEF Seen, Progress, Busy

\* A caller that moves changes its own progress only.
LEMMA SeenMoves ==
  ASSUME Inv, NEW c \in Caller, NEW l, pc' = [pc EXCEPT ![c] = l]
  PROVE  Seen' = [Seen EXCEPT ![c] = Progress(l)]
  BY DEF Inv, TypeOK, Seen

\* A caller that moves on within its call looks the same.
LEMMA SeenStays ==
  ASSUME Inv, NEW c \in Caller, NEW l \in {"get", "delete", "repost"},
         Seen[c] = "busy", pc' = [pc EXCEPT ![c] = l]
  PROVE  Seen' = Seen
<1>1. \A d \in Caller : Progress(pc'[d]) = Progress(pc[d])
  BY DEF Inv, TypeOK, Seen, Progress
<1> QED BY <1>1 DEF Seen

\* The initial states of the provider are initial states of the contract.
LEMMA ContractInit == Init => Contract!Init
<1> SUFFICES ASSUME Init PROVE Contract!Init
  OBVIOUS
<1>1. zone.content \in Target \cup {NoRecord, Foreign}
  BY DEF Init, Empty
<1>2. [c \in Caller |-> IF Busy(c) THEN "busy" ELSE pc[c]]
        = [c \in Caller |-> "idle"]
  BY DEF Init, Busy
<1> QED BY <1>1, <1>2 DEF Init, Contract!Init

\* Calling, posting and confirming are the contract's steps of that name; a
\* step that only moves a caller on within its call is no step of the contract.
LEMMA ContractStep == Inv /\ [Next]_vars => [Contract!Next]_Contract!vars
<1> SUFFICES ASSUME Inv, [Next]_vars PROVE [Contract!Next]_Contract!vars
  OBVIOUS
<1> DEFINE C == [c \in Caller |-> IF Busy(c) THEN "busy" ELSE pc[c]]
<1>a. C = Seen /\ C' = Seen'
  BY SeenIsCall, SeenIsCallNext
<1>1. ASSUME NEW c \in Caller, NEW t \in Target, ensure_cname_for_acme_dns(c, t)
      PROVE  Contract!Begin(c)
  <2>1. Seen' = [Seen EXCEPT ![c] = "busy"] /\ Seen[c] # "busy"
    BY <1>1, SeenMoves DEF ensure_cname_for_acme_dns, GoTo, Progress, Seen
  <2> QED BY <1>1, <1>a, <2>1 DEF Contract!Begin, ensure_cname_for_acme_dns
<1>2. ASSUME NEW c \in Caller, Step(c)
      PROVE  \/ UNCHANGED Contract!vars
             \/ Contract!Remove(c) \/ Contract!Point(c) \/ Contract!Confirm(c)
             \/ Contract!Fail(c)
  <2>1. Seen[c] = "busy" /\ UNCHANGED target
    BY <1>2 DEF Step, Post, Get, Delete, Repost, ApiFails, Seen, Progress
  <2>2. CASE Create(target[c]) /\ Return(c, last_id')
    <3>1. Seen' = [Seen EXCEPT ![c] = "ok"]
      <4>1. last_id' # 0
        BY <2>2 DEF Create, Inv, IdInv, TypeOK
      <4> QED BY <2>2, <4>1, SeenMoves DEF Return, Progress
    <3>2. zone.content = NoRecord /\ zone'.content = target[c]
      BY <2>2 DEF Create, Empty
    <3>3. Contract!Point(c)
      BY <1>a, <2>1, <3>1, <3>2, CloudflareAssumption DEF Contract!Point
    <3> QED BY <3>3
  <2>3. CASE Create(target[c]) /\ Return(c, 0)
    <3>1. Seen' = [Seen EXCEPT ![c] = "failed"]
      BY <2>3, SeenMoves DEF Return, Progress
    <3>2. zone.content = NoRecord /\ zone'.content = target[c]
      BY <2>3 DEF Create, Empty
    <3>3. Contract!Point(c)
      BY <1>a, <2>1, <3>1, <3>2, CloudflareAssumption DEF Contract!Point
    <3> QED BY <3>3
  <2>4. CASE Return(c, 0) /\ UNCHANGED zone
    <3>1. Seen' = [Seen EXCEPT ![c] = "failed"]
      BY <2>4, SeenMoves DEF Return, Progress
    <3>2. Contract!Fail(c)
      BY <1>a, <2>1, <2>4, <3>1 DEF Contract!Fail
    <3> QED BY <3>2
  <2>5. CASE UNCHANGED zone /\ (GoTo(c, "get") \/ GoTo(c, "delete"))
    <3>1. Seen' = Seen
      BY <2>1, <2>5, SeenStays DEF GoTo
    <3>2. UNCHANGED Contract!vars
      BY <1>a, <2>1, <2>5, <3>1 DEF Contract!vars
    <3> QED BY <3>2
  <2>6. CASE zone.content = target[c] /\ Return(c, zone.id) /\ UNCHANGED zone
    <3>1. zone.id # 0
      BY <2>6, CloudflareAssumption DEF Inv, IdInv, TypeOK
    <3>2. Seen' = [Seen EXCEPT ![c] = "ok"]
      BY <2>6, <3>1, SeenMoves DEF Return, Progress
    <3>3. Contract!Confirm(c)
      BY <1>a, <2>1, <2>6, <3>2 DEF Contract!Confirm
    <3> QED BY <3>3
  <2>7. CASE /\ pc[c] = "delete" /\ Remove(found[c].id)
             /\ GoTo(c, "repost") \/ Return(c, 0)
    <3>1. zone.content \in Target \ {target[c]} /\ zone'.content = NoRecord
      BY <2>7 DEF Remove, Empty, Inv, IdInv
    <3>2. Seen' = Seen \/ Seen' = [Seen EXCEPT ![c] = "failed"]
      <4>1. CASE GoTo(c, "repost")
        BY <2>1, <4>1, SeenStays DEF GoTo
      <4>2. CASE Return(c, 0)
        BY <4>2, SeenMoves DEF Return, Progress
      <4> QED BY <2>7, <4>1, <4>2
    <3>3. Contract!Remove(c)
      BY <1>a, <2>1, <3>1, <3>2 DEF Contract!Remove
    <3> QED BY <3>3
  <2> QED BY <1>2, <2>2, <2>3, <2>4, <2>5, <2>6, <2>7
          DEF Step, Post, Get, Delete, Repost, ApiFails
<1>3. CASE UNCHANGED vars
  <2>1. Seen' = Seen
    BY <1>3 DEF vars, Seen
  <2> QED BY <1>3, <1>a, <2>1 DEF vars, Contract!vars
<1> QED BY <1>1, <1>2, <1>3 DEF Next, Contract!Next

\* The sequence of API calls implements the contract of ensure_cname: seen from
\* outside a call removes an outdated record, points, confirms or fails.
THEOREM CloudflareMeetsContract == Spec => ImplementsContract
<1>1. Init => Contract!Init
  BY ContractInit
<1>2. Inv /\ [Next]_vars => [Contract!Next]_Contract!vars
  BY ContractStep
<1> QED BY <1>1, <1>2, Invariant, PTL DEF Spec, ImplementsContract, Contract!Spec
=============================================================================

----------------------------- MODULE Cloudflare ------------------------------
(***************************************************************************)
(* The Cloudflare provider's ensure_cname_for_acme_dns, one API call per   *)
(* step: POST; if a record is in the way, GET it, compare, DELETE it by    *)
(* its id and POST again.  Any API call may fail, before or after it took  *)
(* effect, and the threads of several workers may call at the same time.   *)
(*                                                                         *)
(* One record name is modelled.  Cloudflare holds at most one A, AAAA or   *)
(* CNAME record there and gives each record an id it never reuses.         *)
(***************************************************************************)
EXTENDS Integers

CONSTANTS
  Caller,    \* the DnsProviderProcessor threads of all workers
  Target,    \* acme-dns domains
  NoRecord,  \* nothing at the record's name
  Foreign,   \* content of a record that is not a CNAME
  MaxCalls   \* bound on the number of calls

ASSUME CloudflareAssumption ==
  /\ NoRecord \notin Target
  /\ Foreign \notin Target
  /\ NoRecord # Foreign
  /\ MaxCalls \in Nat

VARIABLES
  zone,     \* the record at the name: [id, content]
  last_id,  \* the greatest id given so far
  pc,       \* where each caller is
  target,   \* cname_target of each caller's last call
  found,    \* the record each caller read with GET
  result,   \* dns_cname_id each caller got; 0 for None
  calls,    \* calls so far
  failed    \* callers of which a request ever raised (for the properties)

vars == <<zone, last_id, pc, target, found, result, calls, failed>>

Record == [id : Nat, content : Target \cup {NoRecord, Foreign}]
Empty == [id |-> 0, content |-> NoRecord]

Init ==
  /\ zone \in {Empty} \cup [id : {1}, content : Target \cup {Foreign}]
  /\ last_id = 1
  /\ pc = [c \in Caller |-> "idle"]
  /\ target \in [Caller -> Target]
  /\ found = [c \in Caller |-> Empty]
  /\ result = [c \in Caller |-> 0]
  /\ calls = 0
  /\ failed = {}

-----------------------------------------------------------------------------
(* Cloudflare's side: what each request does to the zone.                  *)

Create(t) ==
  /\ zone = Empty
  /\ zone' = [id |-> last_id + 1, content |-> t]
  /\ last_id' = last_id + 1

Remove(id) ==
  /\ zone.id = id
  /\ zone' = Empty
  /\ UNCHANGED last_id

-----------------------------------------------------------------------------
(* The caller's side.                                                      *)

GoTo(c, l) == pc' = [pc EXCEPT ![c] = l]

\* The call ends: with the id of a record, or with None (0).
Return(c, id) ==
  /\ pc' = [pc EXCEPT ![c] = IF id = 0 THEN "failed" ELSE "ok"]
  /\ result' = [result EXCEPT ![c] = id]

ensure_cname_for_acme_dns(c, t) ==
  /\ pc[c] \in {"idle", "ok", "failed"}
  /\ calls < MaxCalls
  /\ calls' = calls + 1
  /\ target' = [target EXCEPT ![c] = t]
  /\ GoTo(c, "post")
  /\ UNCHANGED <<zone, last_id, found, result, failed>>

\* Mutant: the record in the way is overwritten.
PostOver(c) ==
  /\ pc[c] = "post"
  /\ zone' = [id |-> last_id + 1, content |-> target[c]]
  /\ last_id' = last_id + 1
  /\ Return(c, last_id')
  /\ UNCHANGED <<target, found, calls, failed>>

\* POST: create the record, or learn with error 81053 that one is there.
Post(c) ==
  /\ pc[c] = "post"
  /\ \/ Create(target[c]) /\ Return(c, last_id')
     \/ /\ zone # Empty
        /\ GoTo(c, "get")
        /\ UNCHANGED <<zone, last_id, result>>
  /\ UNCHANGED <<target, found, calls, failed>>

\* Mutant: the content of the record that is there is not compared.
GetUncompared(c) ==
  /\ pc[c] = "get"
  /\ Return(c, IF zone.content \in Target THEN zone.id ELSE 0)
  /\ UNCHANGED <<zone, last_id, target, found, calls, failed>>

\* Mutant: an empty answer makes the call start over.
GetStartsOver(c) ==
  /\ pc[c] = "get"
  /\ \/ /\ zone.content \notin Target
        /\ GoTo(c, "post")
        /\ UNCHANGED <<found, result>>
     \/ /\ zone.content = target[c]
        /\ Return(c, zone.id)
        /\ UNCHANGED found
     \/ /\ zone.content \in Target \ {target[c]}
        /\ found' = [found EXCEPT ![c] = zone]
        /\ GoTo(c, "delete")
        /\ UNCHANGED result
  /\ UNCHANGED <<zone, last_id, target, calls, failed>>

\* GET the CNAME record of the name.  An empty answer (the record is of
\* another type, or gone) makes result["id"] raise.
Get(c) ==
  /\ pc[c] = "get"
  /\ \/ /\ zone.content \notin Target
        /\ Return(c, 0)
        /\ UNCHANGED found
     \/ /\ zone.content = target[c]
        /\ Return(c, zone.id)
        /\ UNCHANGED found
     \/ /\ zone.content \in Target \ {target[c]}
        /\ found' = [found EXCEPT ![c] = zone]
        /\ GoTo(c, "delete")
        /\ UNCHANGED result
  /\ UNCHANGED <<zone, last_id, target, calls, failed>>

\* Mutant: the record is deleted by its name.
DeleteByName(c) ==
  /\ pc[c] = "delete"
  /\ zone' = Empty
  /\ GoTo(c, "repost")
  /\ UNCHANGED <<last_id, result, target, found, calls, failed>>

\* Mutant: the new record is left to a later call.
DeleteOnly(c) ==
  /\ pc[c] = "delete"
  /\ \/ Remove(found[c].id)
     \/ zone.id # found[c].id /\ UNCHANGED <<zone, last_id>>
  /\ Return(c, 0)
  /\ UNCHANGED <<target, found, calls, failed>>

\* DELETE the record that was read; an unknown id is an error.
Delete(c) ==
  /\ pc[c] = "delete"
  /\ \/ /\ Remove(found[c].id)
        /\ GoTo(c, "repost")
        /\ UNCHANGED result
     \/ /\ zone.id # found[c].id
        /\ Return(c, 0)
        /\ UNCHANGED <<zone, last_id>>
  /\ UNCHANGED <<target, found, calls, failed>>

\* POST again; an error is not handled a second time.
Repost(c) ==
  /\ pc[c] = "repost"
  /\ \/ Create(target[c]) /\ Return(c, last_id')
     \/ /\ zone # Empty
        /\ Return(c, 0)
        /\ UNCHANGED <<zone, last_id>>
  /\ UNCHANGED <<target, found, calls, failed>>

\* A request raised anything else, before or after it took effect.
ApiFails(c) ==
  /\ pc[c] \in {"post", "get", "delete", "repost"}
  /\ \/ UNCHANGED <<zone, last_id>>
     \/ pc[c] \in {"post", "repost"} /\ Create(target[c])
     \/ pc[c] = "delete" /\ Remove(found[c].id)
  /\ Return(c, 0)
  /\ failed' = failed \cup {c}
  /\ UNCHANGED <<target, found, calls>>

Step(c) == Post(c) \/ Get(c) \/ Delete(c) \/ Repost(c) \/ ApiFails(c)

Next ==
  \E c \in Caller :
    \/ \E t \in Target : ensure_cname_for_acme_dns(c, t)
    \/ Step(c)

Spec == Init /\ [][Next]_vars

\* Each API call answers or raises.
FairSpec == Spec /\ \A c \in Caller : WF_vars(Step(c))

-----------------------------------------------------------------------------
(* Properties.                                                             *)

Busy(c) == pc[c] \in {"post", "get", "delete", "repost"}

\* Every variable has its type.
TypeOK ==
  /\ zone \in Record
  /\ last_id \in Nat
  /\ pc \in [Caller -> {"idle", "post", "get", "delete", "repost", "ok",
                        "failed"}]
  /\ target \in [Caller -> Target]
  /\ found \in [Caller -> Record]
  /\ result \in [Caller -> Nat]
  /\ calls \in 0..MaxCalls
  /\ failed \subseteq Caller

\* A record disappears only by a call that read this very record and wants
\* another target: a call never removes a record that a concurrent call put
\* in place after the read, nor one it did not find to be out of date.
RemovesOnlyOutdated ==
  [][zone' # zone /\ zone # Empty =>
       /\ zone' = Empty
       /\ \E c \in Caller : /\ pc[c] = "delete"
                            /\ found[c] = zone
                            /\ zone.content \in Target \ {target[c]}]_vars

\* A record that is not a CNAME is left alone.
ForeignStays == [][zone.content = Foreign => zone' = zone]_vars

\* The dns_cname_id that a call returns belongs to a record that pointed at the
\* call's target when the call returned.
ResultIsLive ==
  [][\A c \in Caller : Busy(c) /\ pc'[c] = "ok" =>
       /\ result'[c] # 0
       /\ zone'.id = result'[c]
       /\ zone'.content = target[c]]_vars

\* As long as no request raised: whatever calls run into each other, the name
\* is not left without a record once calls have ended.
RecordSurvives ==
  failed = {} /\ calls > 0 /\ (\A c \in Caller : ~Busy(c)) => zone # Empty

\* The requests that a call may still make.
RequestsLeft(l) == CASE l = "post"   -> 4
                     [] l = "get"    -> 3
                     [] l = "delete" -> 2
                     [] l = "repost" -> 1
                     [] OTHER        -> 0

\* A call makes four requests at most, whatever it finds and whoever replaces
\* the record in between: two workers that want different targets do not keep
\* each other going.
CallsGetOn ==
  [][\A c \in Caller : Busy(c) =>
       \/ pc'[c] = pc[c]
       \/ RequestsLeft(pc'[c]) < RequestsLeft(pc[c])]_vars

\* Every call ends.
CallsEnd == \A c \in Caller : Busy(c) ~> ~Busy(c)

\* The calls to Cloudflare implement what the processor relies on.
Contract ==
  INSTANCE EnsureCname WITH
    pointer <- zone.content,
    call <- [c \in Caller |-> IF Busy(c) THEN "busy" ELSE pc[c]],
    wants <- target
ImplementsContract == Contract!Spec
=============================================================================

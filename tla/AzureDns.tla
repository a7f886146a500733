------------------------------ MODULE AzureDns -------------------------------
(***************************************************************************)
(* The ensure_cname_for_acme_dns that azuredns and azureprivatedns share:  *)
(* one create_or_update of the CNAME record set, which Azure applies as a  *)
(* whole and which may fail before or after it took effect.  The threads   *)
(* of several workers may call at the same time.                           *)
(***************************************************************************)
EXTENDS Naturals

CONSTANTS
  Caller,    \* the DnsProviderProcessor threads of all workers
  Target,    \* acme-dns domains
  NoRecord,  \* nothing at the record's name
  Foreign,   \* record sets of other types, which exclude a CNAME
  MaxCalls   \* bound on the number of calls

ASSUME AzureDnsAssumption ==
  /\ NoRecord \notin Target
  /\ Foreign \notin Target
  /\ NoRecord # Foreign
  /\ MaxCalls \in Nat

VARIABLES
  record_set,    \* what is at the record's name
  call,          \* where each caller is: "idle", "busy", "ok" or "failed"
  cname_target,  \* of each caller's last call
  calls          \* calls so far

vars == <<record_set, call, cname_target, calls>>

Init ==
  /\ record_set \in Target \cup {NoRecord, Foreign}
  /\ call = [c \in Caller |-> "idle"]
  /\ cname_target \in [Caller -> Target]
  /\ calls = 0

ensure_cname_for_acme_dns(c, t) ==
  /\ call[c] # "busy"
  /\ calls < MaxCalls
  /\ calls' = calls + 1
  /\ call' = [call EXCEPT ![c] = "busy"]
  /\ cname_target' = [cname_target EXCEPT ![c] = t]
  /\ UNCHANGED record_set

\* Mutant: the record set's other types are removed to make room.
create_or_replace(c) ==
  /\ call[c] = "busy"
  /\ record_set' = cname_target[c]
  /\ call' = [call EXCEPT ![c] = "ok"]
  /\ UNCHANGED <<cname_target, calls>>

create_or_update(c) ==
  /\ call[c] = "busy"
  /\ record_set # Foreign
  /\ record_set' = cname_target[c]
  /\ call' = [call EXCEPT ![c] = "ok"]
  /\ UNCHANGED <<cname_target, calls>>

\* Any exception is logged and the call returns None.
ApiFails(c) ==
  /\ call[c] = "busy"
  /\ \/ UNCHANGED record_set
     \/ record_set # Foreign /\ record_set' = cname_target[c]
  /\ call' = [call EXCEPT ![c] = "failed"]
  /\ UNCHANGED <<cname_target, calls>>

Next ==
  \E c \in Caller :
    \/ \E t \in Target : ensure_cname_for_acme_dns(c, t)
    \/ create_or_update(c)
    \/ ApiFails(c)

Spec == Init /\ [][Next]_vars

-----------------------------------------------------------------------------
(* Properties.                                                             *)

\* create_or_update implements what the processor relies on.
Contract ==
  INSTANCE EnsureCname WITH pointer <- record_set, wants <- cname_target
ImplementsContract == Contract!Spec
=============================================================================

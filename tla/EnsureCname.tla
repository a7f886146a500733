----------------------------- MODULE EnsureCname -----------------------------
(***************************************************************************)
(* What the DnsProviderProcessor may rely on when it calls a provider's    *)
(* ensure_cname_for_acme_dns: a call ends, and                             *)
(*   - it ends with a result only if the record pointed at its target when *)
(*     it ended;                                                           *)
(*   - it turns the record to its own target or, on the way there, removes *)
(*     a record that points elsewhere, and does nothing else to it.        *)
(* Module AzureDns shows that azure.py meets this with one                 *)
(* create_or_update, module Cloudflare that cloudflare/__init__.py does    *)
(* with up to four API calls.                                              *)
(***************************************************************************)
CONSTANTS Caller,    \* the DnsProviderProcessor threads of all workers
          Target,    \* acme-dns domains
          NoRecord,  \* nothing at the record's name
          Foreign    \* a record of another type at the record's name

VARIABLES pointer,   \* what is at the record's name
          call,      \* the target of each caller's call, or how it ended
          wants      \* the target of each caller's last call

vars == <<pointer, call, wants>>

Init ==
  /\ pointer \in Target \cup {NoRecord, Foreign}
  /\ call = [c \in Caller |-> "idle"]
  /\ wants \in [Caller -> Target]

Begin(c) ==
  /\ call[c] # "busy"
  /\ \E t \in Target : wants' = [wants EXCEPT ![c] = t]
  /\ call' = [call EXCEPT ![c] = "busy"]
  /\ UNCHANGED pointer

\* Remove a record that points elsewhere.
Remove(c) ==
  /\ call[c] = "busy"
  /\ pointer \in Target \ {wants[c]}
  /\ pointer' = NoRecord
  /\ \/ UNCHANGED call
     \/ call' = [call EXCEPT ![c] = "failed"]
  /\ UNCHANGED wants

\* Point the record at the target; the answer may be lost.
Point(c) ==
  /\ call[c] = "busy"
  /\ pointer # Foreign
  /\ pointer' = wants[c]
  /\ call' \in {[call EXCEPT ![c] = "ok"], [call EXCEPT ![c] = "failed"]}
  /\ UNCHANGED wants

\* The record points at the target already.
Confirm(c) ==
  /\ call[c] = "busy"
  /\ pointer = wants[c]
  /\ call' = [call EXCEPT ![c] = "ok"]
  /\ UNCHANGED <<pointer, wants>>

Fail(c) ==
  /\ call[c] = "busy"
  /\ call' = [call EXCEPT ![c] = "failed"]
  /\ UNCHANGED <<pointer, wants>>

Next ==
  \E c \in Caller : Begin(c) \/ Remove(c) \/ Point(c) \/ Confirm(c) \/ Fail(c)

Spec == Init /\ [][Next]_vars
=============================================================================

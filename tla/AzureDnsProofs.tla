--------------------------- MODULE AzureDnsProofs ----------------------------
(***************************************************************************)
(* Proofs about module AzureDns, for any number of callers and targets.    *)
(***************************************************************************)
EXTENDS AzureDns, TLAPS

LEMMA ContractStep == [Next]_vars => [Contract!Next]_Contract!vars
<1> SUFFICES ASSUME [Next]_vars
             PROVE  [Contract!Next]_Contract!vars
  OBVIOUS
<1>1. ASSUME NEW c \in Caller, NEW t \in Target, ensure_cname_for_acme_dns(c, t)
      PROVE  Contract!Begin(c)
  BY <1>1 DEF ensure_cname_for_acme_dns, Contract!Begin
<1>2. ASSUME NEW c \in Caller, create_or_update(c)
      PROVE  Contract!Point(c)
  BY <1>2 DEF create_or_update, Contract!Point
<1>3. ASSUME NEW c \in Caller, ApiFails(c)
      PROVE  Contract!Point(c) \/ Contract!Fail(c)
  BY <1>3 DEF ApiFails, Contract!Point, Contract!Fail
<1>4. CASE UNCHANGED vars
  BY <1>4 DEF vars, Contract!vars
<1> QED BY <1>1, <1>2, <1>3, <1>4 DEF Next, Contract!Next

\* One create_or_update implements the contract of ensure_cname: it points the
\* record at the target, or fails, having done so or nothing.
THEOREM AzureMeetsContract == Spec => ImplementsContract
<1>1. Init => Contract!Init
  BY DEF Init, Contract!Init
<1> QED
  BY <1>1, ContractStep, PTL DEF Spec, ImplementsContract, Contract!Spec
=============================================================================

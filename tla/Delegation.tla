------------------------------ MODULE Delegation ------------------------------
(***************************************************************************)
(* What the registrar promises to everyone outside it, with no word about  *)
(* workers, threads, queues and stores: which changes of the accounts at   *)
(* acme-dns, of cert-manager's secret and of the DNS records can be seen.  *)
(* Module Registrar implements it.                                         *)
(***************************************************************************)
EXTENDS Naturals, Sequences

CONSTANTS
  Base,       \* host names without "*."
  Provider,   \* DNS providers
  Replacing   \* providers that replace a record by delete, then create

VARIABLES
  accounts,     \* acme-dns: the host of each account
  credentials,  \* the account whose credentials the secret has under a name
  record        \* the account each _acme-challenge CNAME record points at

vars == <<accounts, credentials, record>>

Name == [base : Base, wild : BOOLEAN]

\* The accounts that may answer the challenge for a base name: its own and
\* those of its wildcard.
AccountsOf(b) == {a \in DOMAIN accounts : accounts[a].base = b}

Init ==
  /\ accounts = <<>>
  /\ credentials = [k \in Name |-> 0]
  /\ record = [p \in Provider |-> [b \in Base |-> 0]]

\* acme-dns creates an account; none ever changes its name or goes away.
Register ==
  /\ \E h \in Name : accounts' = Append(accounts, h)
  /\ UNCHANGED <<credentials, record>>

\* The secret is replaced.  Credentials appear under the name they are for,
\* those of a wildcard also under its base name; keys may be lost.
Publish ==
  /\ credentials' \in [Name -> Nat]
  /\ \A k \in Name :
       \/ credentials'[k] = 0
       \/ /\ credentials'[k] \in AccountsOf(k.base)
          /\ k.wild => accounts[credentials'[k]].wild
  /\ UNCHANGED <<accounts, record>>

\* One record at one provider is turned to an account of its name.
Delegate(p, b) ==
  /\ \E a \in AccountsOf(b) : record' = [record EXCEPT ![p][b] = a]
  /\ UNCHANGED <<accounts, credentials>>

\* A record is taken away only where providers replace records, and only to
\* make room for another account: a name that has one account keeps its record.
Withdraw(p, b) ==
  /\ p \in Replacing
  /\ record[p][b] # 0
  /\ AccountsOf(b) \ {record[p][b]} # {}
  /\ record' = [record EXCEPT ![p][b] = 0]
  /\ UNCHANGED <<accounts, credentials>>

Next ==
  \/ Register
  \/ Publish
  \/ \E p \in Provider, b \in Base : Delegate(p, b) \/ Withdraw(p, b)

Spec == Init /\ [][Next]_vars
=============================================================================

----------------------------- MODULE MCRegistrar -----------------------------
(***************************************************************************)
(* Small instances of the registration pipeline for TLC.                   *)
(***************************************************************************)
EXTENDS RegistrarRequirements, TLC

CONSTANTS foo, bar,           \* host names
          azuredns, cloudflare

Name(b) == [base |-> b, wild |-> FALSE]
Wildcard(b) == [base |-> b, wild |-> TRUE]
Tls(hosts) == [hosts |-> hosts, bare |-> FALSE]
WithBareEntry(hosts) == [hosts |-> hosts, bare |-> TRUE]

MCBase == {foo, bar}
\* Workers are interchangeable; only for runs without liveness.
WorkerSymmetry == Permutations(Worker)

\* One name plain and as wildcard, and a second name.
PairSpecs == {Tls(<<Name(foo)>>), Tls(<<Wildcard(foo), Name(bar)>>)}
\* No name both plain and as wildcard, and a tls entry without hosts.
PlainBareSpecs == {Tls(<<Name(foo)>>), Tls(<<Wildcard(bar), Name(foo)>>),
                   WithBareEntry(<<Name(foo)>>)}
\* One name at a time: a name, and the wildcard of another.
TwoSpecs == {Tls(<<Name(foo)>>), Tls(<<Wildcard(bar)>>)}

AllHosts == Host
NotBar == Host \ {Name(bar)}
AzureThenCloudflare == <<azuredns, cloudflare>>
Cloudflare == <<cloudflare>>
AllManageAll == [p \in Provider |-> Host]
OnlyCloudflareManages ==
  [p \in Provider |-> IF p = cloudflare THEN Host ELSE {}]
OnlyAzureManagesBars ==
  [p \in Provider |-> IF p = azuredns THEN Host ELSE {Name(foo)}]
OnlyAzureManagesBar ==
  [p \in Provider |-> IF p = azuredns THEN Host ELSE Host \ {Name(bar)}]
=============================================================================

-------------------------------- MODULE MCServer --------------------------------
(***************************************************************************)
(* A small instance of the server for TLC: what operators may deploy.      *)
(***************************************************************************)
EXTENDS Server

CONSTANTS k1, k2, alice, s1

Complete == [wrong_env |-> {}, bad_files |-> {}, jwt_key |-> k1,
             principals |-> [p \in Principal |-> s1]]
OtherKey == [Complete EXCEPT !.jwt_key = k2]
WithoutAlice == [Complete EXCEPT !.principals[alice] = NoSecret]
WithoutKey == [Complete EXCEPT !.jwt_key = NoKey]
WrongEnv(s) == [Complete EXCEPT !.wrong_env = {s}]
BadFile(f) == [Complete EXCEPT !.bad_files = {f}]

\* Complete deployments, and those with one thing missing.
MCDeployment ==
  {Complete, OtherKey, WithoutAlice, WithoutKey}
    \cup {WrongEnv(s) : s \in EnvSetting} \cup {BadFile(f) : f \in FileSetting}
=============================================================================

------------------------- MODULE MCRegistrationsApi --------------------------
(***************************************************************************)
(* The registrations API with few names for TLC.                           *)
(***************************************************************************)
EXTENDS RegistrationsApi, TLC

\* Names are interchangeable; every property is a safety property.
NameSymmetry == Permutations(Name)
=============================================================================

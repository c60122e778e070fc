------------------------------ MODULE MCResident ------------------------------
(***************************************************************************)
(* Resident on small sets.  No action tells one path, or one session id,   *)
(* from another, and the properties checked with it are not temporal.      *)
(***************************************************************************)
EXTENDS Resident, TLC

Symmetry == Permutations(Paths) \cup Permutations(Ids)
===============================================================================

----------------------------- MODULE MCCompliance ------------------------------
(***************************************************************************)
(* Compliance on a small instance.                                         *)
(***************************************************************************)
EXTENDS Compliance, TLC

Symmetry == Permutations(Requests)

================================================================================

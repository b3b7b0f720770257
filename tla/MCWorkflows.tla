----------------------------- MODULE MCWorkflows -------------------------------
(***************************************************************************)
(* Workflows on a small instance.                                          *)
(***************************************************************************)
EXTENDS Workflows, TLC

Symmetry == Permutations(Requests)

================================================================================

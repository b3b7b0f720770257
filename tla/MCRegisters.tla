----------------------------- MODULE MCRegisters -------------------------------
(***************************************************************************)
(* Registers on a small instance.                                          *)
(***************************************************************************)
EXTENDS Registers, TLC

Symmetry == Permutations(Rows) \union Permutations(Requests)

================================================================================

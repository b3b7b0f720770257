----------------------------- MODULE MCDocuments -----------------------------
(***************************************************************************)
(* Documents on small instances.                                           *)
(***************************************************************************)
EXTENDS Documents, TLC

Symmetry == Permutations(Approvers) \union Permutations(Requests)

===============================================================================

------------------------------- MODULE MCBudget -------------------------------
(***************************************************************************)
(* Budget on small instances.                                              *)
(***************************************************************************)
EXTENDS Budget, TLC

Symmetry ==
    Permutations(Versions) \union Permutations(Slots) \union Permutations(Requests)

===============================================================================

------------------------------ MODULE MCProgress ------------------------------
(***************************************************************************)
(* Progress on small instances.                                            *)
(***************************************************************************)
EXTENDS Progress, TLC

Symmetry == Permutations(Requests) \union Permutations(Entries)

==============================================================================

--------------------------- MODULE MCCertification ---------------------------
(***************************************************************************)
(* Certification on small instances.                                       *)
(***************************************************************************)
EXTENDS Certification, TLC

Symmetry == Permutations(Requests)

==============================================================================

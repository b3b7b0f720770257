------------------------------- MODULE MCRollup --------------------------------
(***************************************************************************)
(* Rollup on a small instance, without symmetry: one of its properties is  *)
(* about liveness.                                                         *)
(***************************************************************************)
EXTENDS Rollup

================================================================================

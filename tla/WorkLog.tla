------------------------------- MODULE WorkLog -------------------------------
(***************************************************************************)
(* What the progress component promises about the quantity of one BOQ item *)
(* done under one contract, without entries, days or requests: work is     *)
(* claimed within what is assigned, and a claim is either confirmed, and   *)
(* then stands for good, or withdrawn.                                     *)
(*                                                                         *)
(* Two entries checked against the same tally, or a write over a row that  *)
(* had changed, void the promise.                                          *)
(***************************************************************************)
EXTENDS Integers

CONSTANT Assigned

VARIABLES claimed, confirmed, void

wvars == <<claimed, confirmed, void>>

Init ==
    /\ claimed = 0
    /\ confirmed = 0
    /\ void = FALSE

Claim ==
    /\ \E q \in 1..(Assigned - claimed - confirmed) : claimed' = claimed + q
    /\ UNCHANGED confirmed

Confirm ==
    \E q \in 1..claimed : claimed' = claimed - q /\ confirmed' = confirmed + q

Withdraw ==
    /\ \E q \in 1..claimed : claimed' = claimed - q
    /\ UNCHANGED confirmed

Conflict == void' = TRUE

Next ==
    \/ (Claim \/ Confirm \/ Withdraw) /\ UNCHANGED void
    \/ Conflict

Spec == Init /\ [][Next]_wvars

==============================================================================

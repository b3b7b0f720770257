------------------------------- MODULE Billing --------------------------------
(***************************************************************************)
(* What payment certificates promise about one contract, without           *)
(* certificates, invoices or requests: a quantity is certified within what *)
(* is assigned, once and for good, and what is invoiced in the same step   *)
(* is at most its value.  Nothing else is invoiced, and nothing is taken   *)
(* back.                                                                   *)
(*                                                                         *)
(* Certificates that overtake each other, or a write over a row that had   *)
(* changed, void the promise.                                              *)
(***************************************************************************)
EXTENDS Integers

CONSTANTS Assigned, Rate

VARIABLES certified, invoiced, void

bvars == <<certified, invoiced, void>>

Init ==
    /\ certified = 0
    /\ invoiced = 0
    /\ void = FALSE

Certify ==
    \E qty \in 0..(Assigned - certified) :
        /\ certified' = certified + qty
        /\ \E net \in 0..(qty * Rate) : invoiced' = invoiced + net

Conflict == void' = TRUE

Next ==
    \/ Certify /\ UNCHANGED void
    \/ Conflict

Spec == Init /\ [][Next]_bvars

===============================================================================

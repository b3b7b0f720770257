------------------------------ MODULE Receivable ------------------------------
(***************************************************************************)
(* What the finance component promises about money owed, without rows,     *)
(* statuses or requests: an invoice is issued for an amount, it is refused *)
(* or accepted once, only an accepted invoice collects money, it never     *)
(* collects more than is due, and when it has collected all that is due it *)
(* is settled for good.                                                    *)
(*                                                                         *)
(* The promise is voided for an invoice once something conflicted on it:   *)
(* from then on anything may happen to it, and to it alone.                *)
(***************************************************************************)
EXTENDS Integers

CONSTANT Invoices

VARIABLES phase, due, collected, void

rvars == <<phase, due, collected, void>>

Phase == {"none", "open", "refused", "collecting", "settled"}

Init ==
    /\ phase = [i \in Invoices |-> "none"]
    /\ due = [i \in Invoices |-> 0]
    /\ collected = [i \in Invoices |-> 0]
    /\ void = {}

Issue(i) ==
    /\ phase[i] = "none"
    /\ phase' = [phase EXCEPT ![i] = "open"]
    /\ due' = [due EXCEPT ![i] = due'[i]] /\ due'[i] \in Int
    /\ UNCHANGED <<collected, void>>

Decide(i, outcome) ==
    /\ phase[i] = "open"
    /\ phase' = [phase EXCEPT ![i] = outcome]
    /\ UNCHANGED <<due, collected, void>>

Collect(i) ==
    /\ phase[i] = "collecting"
    /\ \E a \in 1..(due[i] - collected[i]) :
          /\ collected' = [collected EXCEPT ![i] = @ + a]
          /\ phase' = [phase EXCEPT ![i] =
                          IF collected[i] + a = due[i] THEN "settled" ELSE @]
    /\ UNCHANGED <<due, void>>

(* Everything about i may change, nothing about the other invoices.        *)
OnlyTouches(i) ==
    \A j \in Invoices \ {i} :
        /\ phase'[j] = phase[j]
        /\ due'[j] = due[j]
        /\ collected'[j] = collected[j]

Conflict(i) ==
    /\ void' = void \union {i}
    /\ OnlyTouches(i)

Next ==
    \E i \in Invoices :
        \/ Issue(i)
        \/ Decide(i, "refused")
        \/ Decide(i, "collecting")
        \/ Collect(i)
        \/ Conflict(i)

Spec == Init /\ [][Next]_rvars

==============================================================================

----------------------------- MODULE MCInvoicing -----------------------------
(***************************************************************************)
(* Invoicing on small instances.                                           *)
(***************************************************************************)
EXTENDS Invoicing, TLC

\* One total of two paisa, which takes several payments, and one that a
\* discount has pushed below zero.
SmallTotals == {-3, 6}

\* A third of a paisa (booked as nothing), one and two paisa.
SmallAmounts == {1, 3, 6}

Symmetry == Permutations(Requests)

=============================================================================

---------------------------- MODULE MCProcurement ----------------------------
(***************************************************************************)
(* Procurement on small instances.                                         *)
(***************************************************************************)
EXTENDS Procurement, TLC

CONSTANTS o1, o2, p1, p2, p3

Line(p, q) == [item |-> p, quantity |-> q]

\* Two items on one order, a third on another, one unit each.
OrderOfItem == p1 :> o1 @@ p2 :> o1 @@ p3 :> o2

OneEach == [p \in Items |-> 1]

\* Both items in either order, one alone, a correction, nothing, and the item of
\* the other order, twice.
ManyDeliveries ==
    {<<Line(p1, 1), Line(p2, 1)>>, <<Line(p2, 1), Line(p1, 1)>>,
     <<Line(p1, 1)>>, <<Line(p2, -1)>>, <<>>, <<Line(p3, 1), Line(p3, 1)>>}

Symmetry == Permutations(Requests)

===============================================================================

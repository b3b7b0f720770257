----------------------------- MODULE MCInventory -----------------------------
(***************************************************************************)
(* Inventory on small instances.                                           *)
(***************************************************************************)
EXTENDS Inventory, TLC

Corrections == {-1, 1}

Symmetry == Permutations(StockItems) \union Permutations(Mrs) \union Permutations(Requests)

===============================================================================

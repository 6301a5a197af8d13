--------------------------- MODULE MCOrderTotals ---------------------------
(* The amounts of an order of two items on small instances.                *)
EXTENDS OrderTotals, TLC

Symmetry == Permutations(Call) \union Permutations(Item)
=============================================================================

-------------------------- MODULE MCOrderLifecycle --------------------------
(* The life of one order on small instances.                               *)
EXTENDS OrderLifecycle, TLC

CallSymmetry == Permutations(Call)
Symmetry     == CallSymmetry \union Permutations(Item)
=============================================================================

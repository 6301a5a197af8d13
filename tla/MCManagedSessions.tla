------------------------- MODULE MCManagedSessions -------------------------
(* The managed sessions of an administrator on small instances.            *)
EXTENDS ManagedSessions, TLC

Symmetry == Permutations(Call) \union Permutations(Store)
=============================================================================

------------------------ MODULE MCCancellationPolicy ------------------------
(* The cancellation policy of a store on small instances.                  *)
EXTENDS CancellationPolicy, TLC

Symmetry == Permutations(Call)
=============================================================================

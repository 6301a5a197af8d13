------------------------------ MODULE MCOutbox ------------------------------
(* Instance of Outbox for TLC: the symmetric constants.                    *)
EXTENDS Outbox, TLC

Symmetry == Permutations(Event) \union Permutations(Worker)
              \union Permutations(Target)
=============================================================================

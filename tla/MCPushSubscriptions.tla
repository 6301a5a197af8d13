------------------------ MODULE MCPushSubscriptions ------------------------
(* The push subscriptions of a few browsers on small instances.            *)
EXTENDS PushSubscriptions, TLC

Symmetry == Permutations(Call) \union Permutations(Device)
              \union Permutations(Endpoint)
=============================================================================

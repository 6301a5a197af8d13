--------------------------- MODULE MCCartCheckout ---------------------------
(* Checkout of a storefront cart on small instances.                       *)
EXTENDS CartCheckout, TLC

Symmetry == Permutations(Checkout) \union Permutations(Edit)
=============================================================================

-------------------------- MODULE CheckoutContract --------------------------
(***************************************************************************)
(* What checkout of a storefront cart promises a customer: whatever calls  *)
(* race, fail or are retried, a cart yields one order at most, and it only *)
(* does so while it is claimed.  The promise is off once a checkout has    *)
(* outlived its claim.                                                     *)
(***************************************************************************)
CONSTANTS Call  \* checkout calls; an order is named after the one placing it

VARIABLES
  phase,   \* of the cart: "open", "claimed", "ordered" or "deleted"
  placed,  \* the orders placed from it
  excused  \* nothing is promised any more

vars == <<phase, placed, excused>>

Init ==
  /\ phase = "open"
  /\ placed = {}
  /\ excused = FALSE

Claim ==
  /\ phase = "open"
  /\ phase' = "claimed"
  /\ UNCHANGED placed

Release ==
  /\ phase = "claimed"
  /\ phase' = "open"
  /\ UNCHANGED placed

Order(c) ==
  /\ phase = "claimed"
  /\ placed = {}
  /\ phase' = "ordered"
  /\ placed' = {c}

Delete ==
  /\ phase # "deleted"
  /\ phase' = "deleted"
  /\ UNCHANGED placed

KeepPromise ==
  \/ Claim
  \/ Release
  \/ Delete
  \/ \E c \in Call : Order(c)

Next == excused' \/ (KeepPromise /\ UNCHANGED excused)

Spec == Init /\ [][Next]_vars
=============================================================================

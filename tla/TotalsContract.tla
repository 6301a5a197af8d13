--------------------------- MODULE TotalsContract ---------------------------
(***************************************************************************)
(* What the amounts of an order promise, as if every change of it happened *)
(* at once: while the order is open its items are priced or run out and    *)
(* its delivery fee is set once, and the total follows every such change;  *)
(* in between the merchant may set it by hand.  The promise is off once a  *)
(* commit rests on what another has changed.                               *)
(***************************************************************************)
EXTENDS Integers

CONSTANTS
  Item, Price, Fee,
  None,   \* no price, nothing to add up
  ByHand  \* a total the merchant has set

VARIABLES
  open,     \* prices, stock and the fee may change
  price,    \* of each item
  out,      \* items out of stock
  fee,      \* for the delivery
  feeSet,   \* the fee is final
  total,    \* what the customer is asked for
  excused   \* nothing is promised any more

vars == <<open, price, out, fee, feeSet, total, excused>>

\* The summands of what is owed; None if there is nothing to add up.
Owed(p, o, f) ==
  LET lines == [i \in {j \in Item \ o : p[j] # None} |-> p[i]]
  IN  IF DOMAIN lines = {} /\ f = 0 THEN None ELSE [lines |-> lines, fee |-> f]

Init ==
  /\ open = TRUE
  /\ price \in [Item -> Price \union {0, None}]
  /\ out = {}
  /\ fee \in Fee \union {0}
  /\ feeSet \in BOOLEAN
  /\ ~feeSet => fee = 0
  /\ total \in {Owed(price, out, fee), ByHand}
  /\ excused = FALSE

FollowUp == total' = Owed(price', out', fee')

Reprice(i, p) ==
  /\ open
  /\ price' = [price EXCEPT ![i] = p]
  /\ UNCHANGED <<open, out, fee, feeSet>>
  /\ FollowUp

\* The order is cancelled with its last item.
RunOut(i) ==
  /\ open
  /\ price' = [price EXCEPT ![i] = 0]
  /\ out' = out \union {i}
  /\ open' = (i \in out \/ out' # Item)
  /\ UNCHANGED <<fee, feeSet>>
  /\ FollowUp

SetFee(f) ==
  /\ open
  /\ ~feeSet
  /\ fee' = f
  /\ feeSet' = TRUE
  /\ UNCHANGED <<open, price, out>>
  /\ FollowUp

\* The total is set by hand, the order leaves the store or is cancelled.
Update ==
  /\ total' \in {total, ByHand}
  /\ open' => open
  /\ UNCHANGED <<price, out, fee, feeSet>>

KeepPromise ==
  \/ \E i \in Item, p \in Price : Reprice(i, p)
  \/ \E i \in Item : RunOut(i)
  \/ \E f \in Fee : SetFee(f)
  \/ Update

Next == excused' \/ (KeepPromise /\ UNCHANGED excused)

Spec == Init /\ [][Next]_vars
=============================================================================

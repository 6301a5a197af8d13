--------------------------- MODULE OrderContract ---------------------------
(***************************************************************************)
(* What the life of an order promises: its status moves along the allowed  *)
(* transitions only, its delivery fee is settled once and before the store *)
(* confirms it, and completing or cancelling it counts exactly once.  The   *)
(* promise is off once two calls have overtaken each other.                *)
(***************************************************************************)
EXTENDS Integers

VARIABLES
  status,         \* of the order
  feeSettled,     \* its delivery fee is final
  completions,    \* times it was counted for its customer
  cancellations,  \* times it was counted against its store
  events,         \* analytics events it gave rise to
  excused         \* nothing is promised any more

vars == <<status, feeSettled, completions, cancellations, events, excused>>

Init ==
  /\ status = "draft"
  /\ feeSettled \in BOOLEAN
  /\ completions = 0
  /\ cancellations = 0
  /\ events = {}
  /\ excused = FALSE

SettleFee ==
  /\ status \in {"draft", "confirmed"}
  /\ ~feeSettled
  /\ feeSettled' = TRUE
  /\ UNCHANGED <<status, completions, cancellations, events>>

Confirm ==
  /\ status = "draft"
  /\ feeSettled
  /\ status' = "confirmed"
  /\ events' = events \union {"order_confirmed"}
  /\ UNCHANGED <<feeSettled, completions, cancellations>>

Dispatch ==
  /\ status = "confirmed"
  /\ status' = "out_for_delivery"
  /\ UNCHANGED <<feeSettled, completions, cancellations, events>>

Complete ==
  /\ status = "out_for_delivery"
  /\ status' = "completed"
  /\ completions' = completions + 1
  /\ events' = events \union {"purchase"}
  /\ UNCHANGED <<feeSettled, cancellations>>

Cancel ==
  /\ status \in {"draft", "confirmed", "out_for_delivery"}
  /\ status' = "cancelled"
  /\ cancellations' = cancellations + 1
  /\ events' = events \union {"order_cancelled"}
  /\ UNCHANGED <<feeSettled, completions>>

\* The customer's rejection is an event; the store's recording of it is none.
Reject ==
  /\ status \in {"draft", "confirmed"}
  /\ status' = "rejected_by_customer"
  /\ events' \in {events, events \union {"order_cancelled"}}
  /\ UNCHANGED <<feeSettled, completions, cancellations>>

KeepPromise ==
  \/ SettleFee
  \/ Confirm
  \/ Dispatch
  \/ Complete
  \/ Cancel
  \/ Reject

Next == excused' \/ (KeepPromise /\ UNCHANGED excused)

Spec == Init /\ [][Next]_vars
=============================================================================

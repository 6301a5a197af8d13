--------------------------- MODULE OrderLifecycle ---------------------------
(***************************************************************************)
(* The life of one order under concurrent calls of its store, an admin and *)
(* its customer: status changes, rejection, the deferred delivery fee,     *)
(* items running out of stock and the decisions on their replacements.     *)
(*                                                                         *)
(* A handler runs in a READ COMMITTED transaction: it reads the order and  *)
(* checks it without a lock, then writes it by id alone, so what it wrote  *)
(* may rest on what is no longer so.  A call is a read step and a commit   *)
(* step; "races" counts the commits another one has overtaken.  The order  *)
(* and items that one Prisma call returns are read at once.                *)
(*                                                                         *)
(* Left out: prices and totals, and the products, messages and activity    *)
(* log rows that go with the steps.  The order is one whose visitor is     *)
(* known to Google Analytics; for another "events" stays empty.  A call    *)
(* refused at its read changes nothing and has no action.                  *)
(***************************************************************************)
EXTENDS Integers, FiniteSets

CONSTANTS
  Call,     \* sessions of the store, an admin or the customer
  Item,     \* the lines of the order
  None,     \* no item
  MaxRaces  \* bound on commits that rest on a read another has overtaken

ASSUME ConstantsAssumption ==
  /\ IsFiniteSet(Item)
  /\ None \notin Item
  /\ MaxRaces \in Nat

VARIABLES
  status,         \* order: status
  feeSet,         \* order: delivery_fee_status is "set"
  outOfStock,     \* items: is_out_of_stock
  decision,       \* items: replacement_decision_status
  request,        \* calls: what each asks for, Idle when it is none
  seen,           \* calls: the order and its item as the call read them
  completions,    \* customer: completed_order_count, of this order
  cancellations,  \* store: cancellations recorded for this order
  events,         \* ga4_event_outbox: event names, unique for an order
  races           \* history: commits that had been overtaken

orderVars  == <<status, feeSet, outOfStock, decision>>
effectVars == <<completions, cancellations, events>>
vars       == <<orderVars, request, seen, effectVars, races>>

Status   == {"draft", "confirmed", "out_for_delivery", "completed",
             "cancelled", "rejected_by_customer"}
Decision == {"none", "pending", "approved", "rejected"}
Event    == {"order_confirmed", "purchase", "order_cancelled"}

\* What a call asks for: its kind, the status or decision it aims at, its item.
Kind    == {"idle", "update", "reject", "fee", "stock", "counted", "replace",
            "reset", "decide"}
Request == [kind : Kind, to : Status \union Decision, item : Item \union {None}]
Idle    == [kind |-> "idle", to |-> "none", item |-> None]

Snapshot == [status : Status, outOfStock : BOOLEAN, decision : Decision,
             deliverable : Nat]

TypeOK ==
  /\ status \in Status
  /\ feeSet \in BOOLEAN
  /\ outOfStock \in [Item -> BOOLEAN]
  /\ decision \in [Item -> Decision]
  /\ request \in [Call -> Request]
  /\ seen \in [Call -> Snapshot]
  /\ completions \in Nat
  /\ cancellations \in Nat
  /\ events \subseteq Event
  /\ races \in Nat

Deliverable == {i \in Item : ~outOfStock[i]}

\* What an idle session knows.
Nothing == [status |-> "draft", outOfStock |-> FALSE, decision |-> "none",
            deliverable |-> 0]

\* The order and the item a call is about, if it is about one.
OrderNow(i) ==
  [status      |-> status,
   outOfStock  |-> IF i \in Item THEN outOfStock[i] ELSE FALSE,
   decision    |-> IF i \in Item THEN decision[i] ELSE "none",
   deliverable |-> 0]

Init ==
  /\ status = "draft"
  /\ feeSet \in BOOLEAN
  /\ outOfStock = [i \in Item |-> FALSE]
  /\ decision = [i \in Item |-> "none"]
  /\ request = [c \in Call |-> Idle]
  /\ seen = [c \in Call |-> Nothing]
  /\ completions = 0
  /\ cancellations = 0
  /\ events = {}
  /\ races = 0

\* validateStatusTransition.
AllowedNextReopening ==
  [s \in Status |->
    CASE s = "draft"     -> {"confirmed", "cancelled", "rejected_by_customer"}
      [] s = "confirmed" -> {"out_for_delivery", "cancelled",
                             "rejected_by_customer"}
      [] s = "out_for_delivery" -> {"completed", "cancelled"}
      [] s = "cancelled" -> {"confirmed"}
      [] OTHER           -> {}]
AllowedNext ==
  [s \in Status |->
    CASE s = "draft"     -> {"confirmed", "cancelled", "rejected_by_customer"}
      [] s = "confirmed" -> {"out_for_delivery", "cancelled",
                             "rejected_by_customer"}
      [] s = "out_for_delivery" -> {"completed", "cancelled"}
      [] OTHER           -> {}]

\* ensureCustomerDecisionWindow, and the same condition of the other handlers.
Open(s) == s \in {"draft", "confirmed"}

\* Confirming an order takes a fee that is not pending.
FeeAllowsAnyway(next) == TRUE
FeeAllows(next)       == next = "confirmed" => feeSet

\* A replacement can be proposed or withdrawn until the customer decides.
ReplaceableUnlessApproved(d) == d # "approved"
Replaceable(d)               == d \notin {"approved", "rejected"}

-----------------------------------------------------------------------------
(* The reads of a call and the checks made on them                         *)

Begin(c, kind, to, item) ==
  /\ request[c] = Idle
  /\ request' = [request EXCEPT
                   ![c] = [kind |-> kind, to |-> to, item |-> item]]
  /\ seen' = [seen EXCEPT ![c] = OrderNow(item)]
  /\ UNCHANGED <<orderVars, effectVars, races>>

BeginUpdate(c, next) ==
  /\ next = status \/ next \in AllowedNext[status]
  /\ FeeAllows(next)
  /\ Begin(c, "update", next, None)

BeginReject(c) ==
  /\ Open(status)
  /\ Begin(c, "reject", "rejected_by_customer", None)

BeginSetDeliveryFee(c) ==
  /\ Open(status)
  /\ ~feeSet
  /\ Begin(c, "fee", "none", None)

BeginMarkOutOfStock(c, i) ==
  /\ Open(status)
  /\ Begin(c, "stock", "none", i)

\* The count of deliverable items is a statement of its own.
CountDeliverable(c) ==
  /\ request[c].kind = "stock"
  /\ request' = [request EXCEPT ![c].kind = "counted"]
  /\ seen' = [seen EXCEPT ![c].deliverable = Cardinality(Deliverable)]
  /\ UNCHANGED <<orderVars, effectVars, races>>

BeginReplaceItem(c, i, to) ==
  /\ Open(status)
  /\ Replaceable(decision[i])
  /\ to \in {"pending", "none"}
  /\ Begin(c, "replace", to, i)

BeginResetReplacement(c, i) ==
  /\ Open(status)
  /\ Begin(c, "reset", "none", i)

BeginDecideReplacement(c, i, to) ==
  /\ Open(status)
  /\ decision[i] = "pending"
  /\ to \in {"approved", "rejected"}
  /\ Begin(c, "decide", to, i)

-----------------------------------------------------------------------------
(* The writes of a call and its commit                                     *)

\* What the call decided on has changed since it read it.
Overtaken(c) ==
  \/ seen[c].status # status
  \/ request[c].kind = "fee" /\ feeSet
  \/ /\ request[c].kind = "counted"
     /\ \/ seen[c].outOfStock # outOfStock[request[c].item]
        \/ seen[c].deliverable # Cardinality(Deliverable)
  \/ /\ request[c].kind \in {"replace", "decide"}
     /\ seen[c].decision # decision[request[c].item]

Commit(c, kind) ==
  /\ request[c].kind = kind
  /\ IF Overtaken(c) THEN races < MaxRaces /\ races' = races + 1
                     ELSE UNCHANGED races
  /\ request' = [request EXCEPT ![c] = Idle]
  /\ seen' = [seen EXCEPT ![c] = Nothing]

\* cancelOrderWithinTransaction, with the recording of the cancellation.
CancelOrder ==
  /\ status' = "cancelled"
  /\ cancellations' = cancellations + 1
  /\ events' = events \union {"order_cancelled"}

\* The effects of update rest on the status it read, its write does not.
CountsAgain(previous, next) == next = "completed"
CountsLeaving(previous, next) == previous = "completed" /\ next # "completed"
Counts(previous, next) == next = "completed" /\ previous # "completed"
Lifecycle(previous, next) ==
  CASE next = "completed" /\ previous # next -> {"purchase"}
    [] next = "confirmed" /\ previous # next -> {"order_confirmed"}
    [] OTHER                                 -> {}

UpdateStatus(previous, next) ==
  \/ /\ next = "cancelled" /\ previous # "cancelled"
     /\ CancelOrder
     /\ UNCHANGED completions
  \/ /\ next # "cancelled" \/ previous = "cancelled"
     /\ status' = next
     /\ completions' = IF Counts(previous, next) THEN completions + 1
                                                 ELSE completions
     /\ events' = events \union Lifecycle(previous, next)
     /\ UNCHANGED cancellations

CommitUpdate(c) ==
  /\ Commit(c, "update")
  /\ UpdateStatus(seen[c].status, request[c].to)
  /\ UNCHANGED <<feeSet, outOfStock, decision>>

CommitReject(c) ==
  /\ Commit(c, "reject")
  /\ status' = "rejected_by_customer"
  /\ events' = events \union {"order_cancelled"}
  /\ UNCHANGED <<feeSet, outOfStock, decision, completions, cancellations>>

CommitDeliveryFee(c) ==
  /\ Commit(c, "fee")
  /\ feeSet' = TRUE
  /\ UNCHANGED <<status, outOfStock, decision, effectVars>>

\* The order is cancelled with its last deliverable item.
IsLastIfNoneLeft(c) == /\ ~seen[c].outOfStock
                       /\ seen[c].deliverable = 0
IsLast(c)           == /\ ~seen[c].outOfStock
                       /\ seen[c].deliverable = 1

CommitOutOfStock(c) ==
  /\ Commit(c, "counted")
  /\ outOfStock' = [outOfStock EXCEPT ![request[c].item] = TRUE]
  /\ IF IsLast(c)
     THEN CancelOrder
     ELSE UNCHANGED <<status, cancellations, events>>
  /\ UNCHANGED <<feeSet, decision, completions>>

CommitDecision(c) ==
  /\ \E kind \in {"replace", "reset", "decide"} : Commit(c, kind)
  /\ decision' = [decision EXCEPT ![request[c].item] = request[c].to]
  /\ UNCHANGED <<status, feeSet, outOfStock, effectVars>>

\* The transaction fails, or its process dies.
RollBack(c) ==
  /\ request[c] # Idle
  /\ request' = [request EXCEPT ![c] = Idle]
  /\ seen' = [seen EXCEPT ![c] = Nothing]
  /\ UNCHANGED <<orderVars, effectVars, races>>

-----------------------------------------------------------------------------

BeginCall(c) ==
  \/ \E next \in Status : BeginUpdate(c, next)
  \/ BeginReject(c)
  \/ BeginSetDeliveryFee(c)
  \/ \E i \in Item :
       \/ BeginMarkOutOfStock(c, i)
       \/ BeginResetReplacement(c, i)
       \/ \E to \in Decision : BeginReplaceItem(c, i, to)
       \/ \E to \in Decision : BeginDecideReplacement(c, i, to)

EndCall(c) ==
  \/ CommitUpdate(c)
  \/ CommitReject(c)
  \/ CommitDeliveryFee(c)
  \/ CommitOutOfStock(c)
  \/ CommitDecision(c)
  \/ RollBack(c)

Next == \E c \in Call : BeginCall(c) \/ CountDeliverable(c) \/ EndCall(c)

Spec == Init /\ [][Next]_vars

-----------------------------------------------------------------------------
(* Properties                                                              *)

Terminal == {"completed", "cancelled", "rejected_by_customer"}
Promised == {"confirmed", "out_for_delivery", "completed"}

\* However the calls race, an order the store has confirmed, sent out or
\* completed has a delivery fee: a total is promised only once it is known.
FeeBeforePromise == status \in Promised => feeSet

\* The completions counted for the customer and the cancellations counted
\* against the store are together one at most, and one more for each commit
\* that had been overtaken: nothing but a race counts an order twice.
CountsNeedRaces == completions + cancellations <= 1 + races

\* However calls race, no effect of a status is lost: an order that is promised
\* was announced as confirmed, a completed one counted for its customer and a
\* cancelled one against its store, each with its analytics event.
EffectsOf(s) ==
  /\ s \in Promised => "order_confirmed" \in events
  /\ s = "completed" => completions > 0 /\ "purchase" \in events
  /\ s = "cancelled" => cancellations > 0 /\ "order_cancelled" \in events
EffectsAreComplete == EffectsOf(status)

\* "Marks one order item unavailable and cancels the order when no deliverable
\* lines remain": unless a call was overtaken, an order with items and none to
\* deliver is cancelled.
CancelledWhenEmpty ==
  races = 0 /\ Item # {} /\ (\A i \in Item : outOfStock[i])
    => status = "cancelled"

\* "Replacement decision is locked. Reset replacement decision before changing
\* it": unless a call was overtaken, what the customer decided only ever gives
\* way to a reset.
DecisionLocked ==
  [][races' = 0 =>
     \A i \in Item : decision[i] \in {"approved", "rejected"}
                       => decision'[i] \in {decision[i], "none"}]_vars

\* Until a commit is overtaken, the order keeps the contract of its life: the
\* allowed transitions only, one settlement of the fee, every completion and
\* cancellation counted once and with its analytics event.
Contract == INSTANCE OrderContract
              WITH feeSettled <- feeSet, excused <- (races > 0)
ImplementsContract == Contract!Spec

-----------------------------------------------------------------------------
(* The inductive invariant                                                 *)

\* What every call found when it read, and the checks it passed.
ReadsWereChecked ==
  \A c \in Call :
    /\ request[c].kind = "update" =>
         /\ request[c].to \in AllowedNext[seen[c].status] \union {seen[c].status}
         /\ request[c].to = "confirmed" => feeSet
    /\ request[c].kind \in {"replace", "reset", "decide"} =>
         request[c].to \in Decision
    /\ request[c].kind \in {"stock", "counted", "replace", "reset", "decide"} =>
         request[c].item \in Item
    /\ request[c].kind \notin {"idle", "update"} => Open(seen[c].status)
    /\ seen[c].status \in Promised => feeSet

\* An order that can still be counted has only been counted in races.
CountBudget ==
  completions + cancellations <= races + (IF status \in Terminal THEN 1 ELSE 0)

IInv ==
  /\ TypeOK
  /\ FeeBeforePromise
  /\ ReadsWereChecked
  /\ CountBudget
=============================================================================

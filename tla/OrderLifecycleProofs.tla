------------------------ MODULE OrderLifecycleProofs ------------------------
(***************************************************************************)
(* Proofs about the life of an order for any number of sessions, items and *)
(* races: the invariants TLC checks on small instances, from the inductive *)
(* invariant IInv, and that the order implements OrderContract, whose      *)
(* promise is off once a commit has been overtaken.                        *)
(***************************************************************************)
EXTENDS OrderLifecycle, FiniteSetTheorems, TLAPS

\* The count of deliverable items is a number.
LEMMA DeliverableCount == Cardinality(Deliverable) \in Nat
<1>1. IsFiniteSet(Deliverable)
  BY ConstantsAssumption, FS_Subset DEF Deliverable
<1>2. QED
  BY <1>1, FS_CardinalityType

\* What a call reads is a snapshot.
LEMMA OrderNowType == ASSUME TypeOK, NEW i PROVE OrderNow(i) \in Snapshot
  BY DEF TypeOK, OrderNow, Snapshot, Decision

LEMMA NothingType == Nothing \in Snapshot
  BY DEF Nothing, Snapshot, Status, Decision

LEMMA CountedType ==
  ASSUME NEW r \in Snapshot, NEW n \in Nat
  PROVE  [r EXCEPT !.deliverable = n] \in Snapshot
  BY DEF Snapshot

\* The allowed transitions stay within the statuses, leave no terminal one,
\* and reach a promise from a promise or through confirmation.
LEMMA Transitions ==
  ASSUME NEW s \in Status, NEW n \in AllowedNext[s]
  PROVE  /\ n \in Status
         /\ s \notin Terminal
         /\ n \in Promised => n = "confirmed" \/ s \in Promised
  BY DEF AllowedNext, Status, Terminal, Promised

\* A call in progress has been checked, so what it writes is well-typed.
LEMMA CallTypes ==
  ASSUME IInv, NEW c \in Call
  PROVE  /\ request[c] \in Request
         /\ seen[c] \in Snapshot
         /\ request[c].kind = "update" => request[c].to \in Status
         /\ request[c].kind \in {"replace", "reset", "decide"} =>
              request[c].to \in Decision /\ request[c].item \in Item
         /\ request[c].kind = "counted" => request[c].item \in Item
<1>1. request[c] \in Request /\ seen[c] \in Snapshot
  BY DEF IInv, TypeOK
<1>2. seen[c].status \in Status
  BY <1>1 DEF Snapshot
<1>3. ASSUME request[c].kind = "update" PROVE request[c].to \in Status
  <2>1. request[c].to \in AllowedNext[seen[c].status] \union {seen[c].status}
    BY <1>3 DEF IInv, ReadsWereChecked
  <2>2. QED
    BY <1>2, <2>1, Transitions
<1>4. QED
  BY <1>1, <1>3 DEF IInv, ReadsWereChecked

\* Types are preserved by every step.
LEMMA TypeStep == ASSUME IInv, [Next]_vars PROVE TypeOK'
<1> USE DEF Status, Decision, Kind, Request, Snapshot, Event,
            orderVars, effectVars
<1>a. TypeOK /\ Idle \in Request /\ Nothing \in Snapshot /\ \A i : OrderNow(i) \in Snapshot
  BY OrderNowType, NothingType, ConstantsAssumption DEF IInv, Idle
<1>1. ASSUME NEW c \in Call, NEW next \in Status, BeginUpdate(c, next)
      PROVE  TypeOK'
  BY <1>1, <1>a DEF BeginUpdate, Begin, TypeOK
<1>2. ASSUME NEW c \in Call, BeginReject(c) PROVE TypeOK'
  BY <1>2, <1>a DEF BeginReject, Begin, TypeOK
<1>3. ASSUME NEW c \in Call, BeginSetDeliveryFee(c) PROVE TypeOK'
  BY <1>3, <1>a DEF BeginSetDeliveryFee, Begin, TypeOK
<1>4. ASSUME NEW c \in Call, NEW i \in Item, BeginMarkOutOfStock(c, i)
      PROVE  TypeOK'
  BY <1>4, <1>a DEF BeginMarkOutOfStock, Begin, TypeOK
<1>5. ASSUME NEW c \in Call, NEW i \in Item, NEW to \in Decision,
             BeginReplaceItem(c, i, to)
      PROVE  TypeOK'
  BY <1>5, <1>a DEF BeginReplaceItem, Begin, TypeOK
<1>6. ASSUME NEW c \in Call, NEW i \in Item, BeginResetReplacement(c, i)
      PROVE  TypeOK'
  BY <1>6, <1>a DEF BeginResetReplacement, Begin, TypeOK
<1>7. ASSUME NEW c \in Call, NEW i \in Item, NEW to \in Decision,
             BeginDecideReplacement(c, i, to)
      PROVE  TypeOK'
  BY <1>7, <1>a DEF BeginDecideReplacement, Begin, TypeOK
<1>8. ASSUME NEW c \in Call, CountDeliverable(c) PROVE TypeOK'
  <2>1. request' \in [Call -> Request]
    <3>1. request[c] \in Request
      BY <1>a DEF TypeOK
    <3>2. [request[c] EXCEPT !.kind = "counted"] \in Request
      BY <3>1 DEF Request, Kind
    <3>3. QED
      BY <1>8, <1>a, <3>2 DEF TypeOK, CountDeliverable
  <2>2. seen' \in [Call -> Snapshot]
    <3>1. [seen[c] EXCEPT !.deliverable = Cardinality(Deliverable)] \in Snapshot
      BY <1>a, DeliverableCount, CountedType DEF TypeOK
    <3>2. QED
      BY <1>8, <1>a, <3>1 DEF TypeOK, CountDeliverable
  <2>3. QED
    BY <1>8, <1>a, <2>1, <2>2 DEF TypeOK, CountDeliverable
<1>9. ASSUME NEW c \in Call, CommitUpdate(c) PROVE TypeOK'
  <2>1. races' \in Nat /\ request' \in [Call -> Request]
        /\ seen' \in [Call -> Snapshot]
    BY <1>9, <1>a DEF TypeOK, CommitUpdate, Commit
  <2>2. request[c].to \in Status
    BY <1>9, CallTypes DEF CommitUpdate, Commit
  <2>3. Lifecycle(seen[c].status, request[c].to) \subseteq Event
    BY DEF Lifecycle
  <2>4. status' \in Status
    BY <1>9, <2>2 DEF CommitUpdate, UpdateStatus, CancelOrder
  <2>5. completions' \in Nat /\ cancellations' \in Nat
    BY <1>9, <1>a DEF TypeOK, CommitUpdate, UpdateStatus, CancelOrder
  <2>6. events' \subseteq Event
    BY <1>9, <1>a, <2>3 DEF TypeOK, CommitUpdate, UpdateStatus, CancelOrder
  <2>7. QED
    BY <1>9, <1>a, <2>1, <2>4, <2>5, <2>6 DEF TypeOK, CommitUpdate
<1>10. ASSUME NEW c \in Call, CommitReject(c) PROVE TypeOK'
  BY <1>10, <1>a DEF CommitReject, Commit, TypeOK
<1>11. ASSUME NEW c \in Call, CommitDeliveryFee(c) PROVE TypeOK'
  BY <1>11, <1>a DEF CommitDeliveryFee, Commit, TypeOK
<1>12. ASSUME NEW c \in Call, CommitOutOfStock(c) PROVE TypeOK'
  <2>1. races' \in Nat /\ request' \in [Call -> Request]
        /\ seen' \in [Call -> Snapshot]
    BY <1>12, <1>a DEF TypeOK, CommitOutOfStock, Commit
  <2>2. status' \in Status /\ cancellations' \in Nat /\ events' \subseteq Event
    <3>1. CASE IsLast(c)
      <4>1. CancelOrder
        BY <1>12, <3>1 DEF CommitOutOfStock
      <4>2. QED
        BY <1>a, <4>1 DEF TypeOK, CancelOrder
    <3>2. CASE ~IsLast(c)
      BY <1>12, <1>a, <3>2 DEF TypeOK, CommitOutOfStock
    <3>3. QED
      BY <3>1, <3>2
  <2>3. outOfStock' \in [Item -> BOOLEAN]
    BY <1>12, <1>a DEF TypeOK, CommitOutOfStock
  <2>4. QED
    BY <1>12, <1>a, <2>1, <2>2, <2>3 DEF TypeOK, CommitOutOfStock
<1>13. ASSUME NEW c \in Call, CommitDecision(c) PROVE TypeOK'
  <2>1. races' \in Nat /\ request' \in [Call -> Request]
        /\ seen' \in [Call -> Snapshot]
    BY <1>13, <1>a DEF TypeOK, CommitDecision, Commit
  <2>2. request[c].to \in Decision
    BY <1>13, CallTypes DEF CommitDecision, Commit
  <2>3. QED
    BY <1>13, <1>a, <2>1, <2>2 DEF TypeOK, CommitDecision
<1>14. ASSUME NEW c \in Call, RollBack(c) PROVE TypeOK'
  BY <1>14, <1>a DEF RollBack, TypeOK
<1>15. CASE UNCHANGED vars
  BY <1>15, <1>a DEF vars, TypeOK
<1>16. QED
  BY <1>1, <1>2, <1>3, <1>4, <1>5, <1>6, <1>7, <1>8, <1>9, <1>10, <1>11,
     <1>12, <1>13, <1>14, <1>15
     DEF Next, BeginCall, EndCall

\* What a call read and checked holds of its snapshot for as long as it runs.
LEMMA ReadsStep == ASSUME IInv, TypeOK', [Next]_vars PROVE ReadsWereChecked'
<1> USE DEF ReadsWereChecked, orderVars, effectVars
<1>a. /\ ReadsWereChecked
      /\ FeeBeforePromise
      /\ request \in [Call -> Request]
      /\ seen \in [Call -> Snapshot]
  BY DEF IInv, TypeOK
<1>b. (\A i : OrderNow(i).status = status) /\ Nothing.status = "draft"
  BY DEF OrderNow, Nothing
<1>c. Idle.kind = "idle"
  BY DEF Idle
<1>1. ASSUME NEW c \in Call, NEW next \in Status, BeginUpdate(c, next)
      PROVE  ReadsWereChecked'
  BY <1>1, <1>a, <1>b, <1>c DEF BeginUpdate, Begin, FeeAllows, FeeBeforePromise, Promised
<1>2. ASSUME NEW c \in Call, BeginReject(c) PROVE ReadsWereChecked'
  BY <1>2, <1>a, <1>b, <1>c DEF BeginReject, Begin, FeeBeforePromise
<1>3. ASSUME NEW c \in Call, BeginSetDeliveryFee(c) PROVE ReadsWereChecked'
  BY <1>3, <1>a, <1>b, <1>c DEF BeginSetDeliveryFee, Begin, FeeBeforePromise
<1>4. ASSUME NEW c \in Call, NEW i \in Item, BeginMarkOutOfStock(c, i)
      PROVE  ReadsWereChecked'
  BY <1>4, <1>a, <1>b, <1>c DEF BeginMarkOutOfStock, Begin, FeeBeforePromise
<1>5. ASSUME NEW c \in Call, NEW i \in Item, NEW to \in Decision,
             BeginReplaceItem(c, i, to)
      PROVE  ReadsWereChecked'
  BY <1>5, <1>a, <1>b, <1>c DEF BeginReplaceItem, Begin, FeeBeforePromise
<1>6. ASSUME NEW c \in Call, NEW i \in Item, BeginResetReplacement(c, i)
      PROVE  ReadsWereChecked'
  BY <1>6, <1>a, <1>b, <1>c DEF BeginResetReplacement, Begin, Decision, FeeBeforePromise
<1>7. ASSUME NEW c \in Call, NEW i \in Item, NEW to \in Decision,
             BeginDecideReplacement(c, i, to)
      PROVE  ReadsWereChecked'
  BY <1>7, <1>a, <1>b, <1>c DEF BeginDecideReplacement, Begin, FeeBeforePromise
<1>8. ASSUME NEW c \in Call, CountDeliverable(c) PROVE ReadsWereChecked'
  BY <1>8, <1>a, <1>b, <1>c DEF CountDeliverable
<1>9. ASSUME NEW c \in Call, CommitUpdate(c) PROVE ReadsWereChecked'
  BY <1>9, <1>a, <1>b, <1>c DEF CommitUpdate, Commit, Promised
<1>10. ASSUME NEW c \in Call, CommitReject(c) PROVE ReadsWereChecked'
  BY <1>10, <1>a, <1>b, <1>c DEF CommitReject, Commit, Promised
<1>11. ASSUME NEW c \in Call, CommitDeliveryFee(c) PROVE ReadsWereChecked'
  BY <1>11, <1>a, <1>b, <1>c DEF CommitDeliveryFee, Commit, Promised
<1>12. ASSUME NEW c \in Call, CommitOutOfStock(c) PROVE ReadsWereChecked'
  BY <1>12, <1>a, <1>b, <1>c DEF CommitOutOfStock, Commit, Promised
<1>13. ASSUME NEW c \in Call, CommitDecision(c) PROVE ReadsWereChecked'
  BY <1>13, <1>a, <1>b, <1>c DEF CommitDecision, Commit, Promised
<1>14. ASSUME NEW c \in Call, RollBack(c) PROVE ReadsWereChecked'
  BY <1>14, <1>a, <1>b, <1>c DEF RollBack, Promised
<1>15. CASE UNCHANGED vars
  BY <1>15, <1>a, <1>b, <1>c DEF vars
<1>16. QED
  BY <1>1, <1>2, <1>3, <1>4, <1>5, <1>6, <1>7, <1>8, <1>9, <1>10, <1>11,
     <1>12, <1>13, <1>14, <1>15
     DEF Next, BeginCall, EndCall

\* A commit that has not been overtaken rests on the present status; another
\* one is counted as a race.
LEMMA CommitOrRace ==
  ASSUME NEW c \in Call, NEW kind, Commit(c, kind), races \in Nat
  PROVE  \/ races' = races /\ seen[c].status = status
         \/ races' = races + 1 /\ MaxRaces > 0
  BY ConstantsAssumption DEF Commit, Overtaken

\* Only a race lets an order be counted that has been counted before.
LEMMA BudgetStep == ASSUME IInv, TypeOK', [Next]_vars PROVE CountBudget'
<1> USE DEF CountBudget, orderVars, effectVars
<1>a. /\ CountBudget
      /\ status \in Status
      /\ races \in Nat /\ completions \in Nat /\ cancellations \in Nat
  BY DEF IInv, TypeOK
<1>1. ASSUME NEW c \in Call, NEW next \in Status, BeginUpdate(c, next)
      PROVE  CountBudget'
  BY <1>1, <1>a DEF BeginUpdate, Begin
<1>2. ASSUME NEW c \in Call, BeginReject(c) PROVE CountBudget'
  BY <1>2, <1>a DEF BeginReject, Begin
<1>3. ASSUME NEW c \in Call, BeginSetDeliveryFee(c) PROVE CountBudget'
  BY <1>3, <1>a DEF BeginSetDeliveryFee, Begin
<1>4. ASSUME NEW c \in Call, NEW i \in Item, BeginMarkOutOfStock(c, i)
      PROVE  CountBudget'
  BY <1>4, <1>a DEF BeginMarkOutOfStock, Begin
<1>5. ASSUME NEW c \in Call, NEW i \in Item, NEW to \in Decision,
             BeginReplaceItem(c, i, to)
      PROVE  CountBudget'
  BY <1>5, <1>a DEF BeginReplaceItem, Begin
<1>6. ASSUME NEW c \in Call, NEW i \in Item, BeginResetReplacement(c, i)
      PROVE  CountBudget'
  BY <1>6, <1>a DEF BeginResetReplacement, Begin
<1>7. ASSUME NEW c \in Call, NEW i \in Item, NEW to \in Decision,
             BeginDecideReplacement(c, i, to)
      PROVE  CountBudget'
  BY <1>7, <1>a DEF BeginDecideReplacement, Begin
<1>8. ASSUME NEW c \in Call, CountDeliverable(c) PROVE CountBudget'
  BY <1>8, <1>a DEF CountDeliverable
<1>9. ASSUME NEW c \in Call, CommitUpdate(c) PROVE CountBudget'
  <2> DEFINE previous == seen[c].status
             next     == request[c].to
  <2>1. /\ request[c].kind = "update"
        /\ UpdateStatus(previous, next)
    BY <1>9 DEF CommitUpdate, Commit
  <2>2. next \in AllowedNext[previous] \union {previous} /\ previous \in Status
    BY <2>1, CallTypes DEF IInv, ReadsWereChecked, Snapshot
  <2>3. next = previous \/ previous \notin Terminal
    BY <2>2, Transitions
  <2>4. \/ races' = races /\ previous = status
        \/ races' = races + 1
    BY <1>9, <1>a, CommitOrRace DEF CommitUpdate
  <2> HIDE DEF previous, next
  <2>5. CASE next = "cancelled" /\ previous # "cancelled"
    <3>1. /\ status' = "cancelled"
          /\ cancellations' = cancellations + 1
          /\ completions' = completions
      BY <2>1, <2>5 DEF UpdateStatus, CancelOrder
    <3>2. QED
      BY <1>a, <2>3, <2>4, <2>5, <3>1 DEF Terminal
  <2>6. CASE ~(next = "cancelled" /\ previous # "cancelled")
    <3>1. /\ status' = next
          /\ cancellations' = cancellations
          /\ completions' = IF Counts(previous, next) THEN completions + 1
                                                      ELSE completions
      BY <2>1, <2>6 DEF UpdateStatus
    <3>2. QED
      BY <1>a, <2>3, <2>4, <3>1 DEF Terminal, Counts
  <2>7. QED
    BY <2>5, <2>6
<1>10. ASSUME NEW c \in Call, CommitReject(c) PROVE CountBudget'
  <2>1. races' = races \/ races' = races + 1
    BY <1>10, <1>a, CommitOrRace DEF CommitReject
  <2>2. QED
    BY <1>10, <1>a, <2>1 DEF CommitReject, Terminal
<1>11. ASSUME NEW c \in Call, CommitDeliveryFee(c) PROVE CountBudget'
  <2>1. races' = races \/ races' = races + 1
    BY <1>11, <1>a, CommitOrRace DEF CommitDeliveryFee
  <2>2. QED
    BY <1>11, <1>a, <2>1 DEF CommitDeliveryFee
<1>12. ASSUME NEW c \in Call, CommitOutOfStock(c) PROVE CountBudget'
  <2>1. \/ races' = races /\ status \notin Terminal
        \/ races' = races + 1
    <3>1. Open(seen[c].status)
      BY <1>12 DEF IInv, ReadsWereChecked, CommitOutOfStock, Commit
    <3>2. QED
      BY <1>12, <1>a, <3>1, CommitOrRace DEF CommitOutOfStock, Open, Terminal
  <2>2. CASE IsLast(c)
    <3>1. CancelOrder /\ completions' = completions
      BY <1>12, <2>2 DEF CommitOutOfStock
    <3>2. QED
      BY <1>a, <2>1, <3>1 DEF CancelOrder, Terminal
  <2>3. CASE ~IsLast(c)
    BY <1>12, <1>a, <2>1, <2>3 DEF CommitOutOfStock
  <2>4. QED
    BY <2>2, <2>3
<1>13. ASSUME NEW c \in Call, CommitDecision(c) PROVE CountBudget'
  <2>1. races' = races \/ races' = races + 1
    BY <1>13, <1>a, CommitOrRace DEF CommitDecision
  <2>2. QED
    BY <1>13, <1>a, <2>1 DEF CommitDecision
<1>14. ASSUME NEW c \in Call, RollBack(c) PROVE CountBudget'
  BY <1>14, <1>a DEF RollBack
<1>15. CASE UNCHANGED vars
  BY <1>15, <1>a DEF vars
<1>16. QED
  BY <1>1, <1>2, <1>3, <1>4, <1>5, <1>6, <1>7, <1>8, <1>9, <1>10, <1>11,
     <1>12, <1>13, <1>14, <1>15
     DEF Next, BeginCall, EndCall

\* A promise is made by a confirmation, which takes a final fee, or follows one
\* that was read; and no step makes a fee pending again.
LEMMA FeeStep == ASSUME IInv, TypeOK', [Next]_vars PROVE FeeBeforePromise'
<1> USE DEF FeeBeforePromise, orderVars, effectVars
<1>a. FeeBeforePromise
  BY DEF IInv
<1>1. ASSUME NEW c \in Call, NEW next \in Status, BeginUpdate(c, next)
      PROVE  FeeBeforePromise'
  BY <1>1, <1>a DEF BeginUpdate, Begin
<1>2. ASSUME NEW c \in Call, BeginReject(c) PROVE FeeBeforePromise'
  BY <1>2, <1>a DEF BeginReject, Begin
<1>3. ASSUME NEW c \in Call, BeginSetDeliveryFee(c) PROVE FeeBeforePromise'
  BY <1>3, <1>a DEF BeginSetDeliveryFee, Begin
<1>4. ASSUME NEW c \in Call, NEW i \in Item, BeginMarkOutOfStock(c, i)
      PROVE  FeeBeforePromise'
  BY <1>4, <1>a DEF BeginMarkOutOfStock, Begin
<1>5. ASSUME NEW c \in Call, NEW i \in Item, NEW to \in Decision,
             BeginReplaceItem(c, i, to)
      PROVE  FeeBeforePromise'
  BY <1>5, <1>a DEF BeginReplaceItem, Begin
<1>6. ASSUME NEW c \in Call, NEW i \in Item, BeginResetReplacement(c, i)
      PROVE  FeeBeforePromise'
  BY <1>6, <1>a DEF BeginResetReplacement, Begin
<1>7. ASSUME NEW c \in Call, NEW i \in Item, NEW to \in Decision,
             BeginDecideReplacement(c, i, to)
      PROVE  FeeBeforePromise'
  BY <1>7, <1>a DEF BeginDecideReplacement, Begin
<1>8. ASSUME NEW c \in Call, CountDeliverable(c) PROVE FeeBeforePromise'
  BY <1>8, <1>a DEF CountDeliverable
<1>9. ASSUME NEW c \in Call, CommitUpdate(c) PROVE FeeBeforePromise'
  <2> DEFINE previous == seen[c].status
             next     == request[c].to
  <2>1. /\ request[c].kind = "update"
        /\ UpdateStatus(previous, next)
        /\ feeSet' = feeSet
    BY <1>9 DEF CommitUpdate, Commit
  <2>2. /\ next \in AllowedNext[previous] \union {previous}
        /\ previous \in Status
        /\ next = "confirmed" => feeSet
        /\ previous \in Promised => feeSet
    BY <2>1, CallTypes DEF IInv, ReadsWereChecked, Snapshot
  <2>3. next \in Promised => feeSet
    BY <2>2, Transitions
  <2>4. status' \in {"cancelled", next}
    BY <2>1 DEF UpdateStatus, CancelOrder
  <2>5. QED
    BY <2>1, <2>3, <2>4 DEF Promised
<1>10. ASSUME NEW c \in Call, CommitReject(c) PROVE FeeBeforePromise'
  BY <1>10 DEF CommitReject, Promised
<1>11. ASSUME NEW c \in Call, CommitDeliveryFee(c) PROVE FeeBeforePromise'
  BY <1>11, <1>a DEF CommitDeliveryFee, Commit
<1>12. ASSUME NEW c \in Call, CommitOutOfStock(c) PROVE FeeBeforePromise'
  BY <1>12, <1>a DEF CommitOutOfStock, CancelOrder, Promised
<1>13. ASSUME NEW c \in Call, CommitDecision(c) PROVE FeeBeforePromise'
  BY <1>13, <1>a DEF CommitDecision, Commit
<1>14. ASSUME NEW c \in Call, RollBack(c) PROVE FeeBeforePromise'
  BY <1>14, <1>a DEF RollBack
<1>15. CASE UNCHANGED vars
  BY <1>15, <1>a DEF vars
<1>16. QED
  BY <1>1, <1>2, <1>3, <1>4, <1>5, <1>6, <1>7, <1>8, <1>9, <1>10, <1>11,
     <1>12, <1>13, <1>14, <1>15
     DEF Next, BeginCall, EndCall

-----------------------------------------------------------------------------

\* The inductive invariant: the types, the fee, the checks behind every call in
\* progress and the budget of counts, for any number of sessions and races.
THEOREM InductiveInvariant == Spec => []IInv
<1>1. Init => IInv
  <2> SUFFICES ASSUME Init PROVE IInv
    OBVIOUS
  <2>1. TypeOK
    BY NothingType, ConstantsAssumption
       DEF Init, TypeOK, Idle, Request, Kind, Status, Decision
  <2>2. FeeBeforePromise /\ CountBudget
    BY DEF Init, FeeBeforePromise, CountBudget, Promised
  <2>3. ReadsWereChecked
    BY DEF Init, ReadsWereChecked, Idle, Nothing, Promised
  <2>4. QED
    BY <2>1, <2>2, <2>3 DEF IInv
<1>2. IInv /\ [Next]_vars => IInv'
  BY TypeStep, ReadsStep, BudgetStep, FeeStep DEF IInv
<1>3. QED
  BY <1>1, <1>2, PTL DEF Spec

\* Every reachable state of an order is well-typed.
THEOREM TypeCorrect == Spec => []TypeOK
<1>1. IInv => TypeOK
  BY DEF IInv
<1>2. QED
  BY <1>1, InductiveInvariant, PTL

\* However calls race, no order is promised before its delivery fee is known.
THEOREM PromisesHaveFees == Spec => []FeeBeforePromise
<1>1. IInv => FeeBeforePromise
  BY DEF IInv
<1>2. QED
  BY <1>1, InductiveInvariant, PTL

\* An order is counted as completed or cancelled once, and once more at most
\* for each commit that had been overtaken.
THEOREM CountedOnceButForRaces == Spec => []CountsNeedRaces
<1>1. IInv => CountsNeedRaces
  <2> SUFFICES ASSUME IInv PROVE CountsNeedRaces
    OBVIOUS
  <2>1. /\ completions \in Nat /\ cancellations \in Nat /\ races \in Nat
        /\ CountBudget
    BY DEF IInv, TypeOK
  <2>2. QED
    BY <2>1 DEF CountBudget, CountsNeedRaces
<1>2. QED
  BY <1>1, InductiveInvariant, PTL

-----------------------------------------------------------------------------
(* Refinement: the contract holds until a commit is overtaken              *)

\* Without races a commit rests on the present state of the order.
LEMMA NotOvertaken ==
  ASSUME IInv, races' = 0, NEW c \in Call, NEW kind, Commit(c, kind)
  PROVE  ~Overtaken(c) /\ seen[c].status = status
  BY DEF Commit, Overtaken, IInv, TypeOK

\* What the contract speaks of, but for whether it is off.
promised == <<status, feeSet, completions, cancellations, events>>

\* Until a commit is overtaken, every step is a step of the contract or leaves what it speaks of alone.
LEMMA ContractStep ==
  ASSUME IInv, [Next]_vars, races' = 0
  PROVE  [Contract!KeepPromise]_promised
<1> USE DEF promised, orderVars, effectVars
<1>1. ASSUME NEW c \in Call, NEW next \in Status, BeginUpdate(c, next)
      PROVE  [Contract!KeepPromise]_promised
  BY <1>1 DEF BeginUpdate, Begin
<1>2. ASSUME NEW c \in Call, BeginReject(c)
      PROVE  [Contract!KeepPromise]_promised
  BY <1>2 DEF BeginReject, Begin
<1>3. ASSUME NEW c \in Call, BeginSetDeliveryFee(c)
      PROVE  [Contract!KeepPromise]_promised
  BY <1>3 DEF BeginSetDeliveryFee, Begin
<1>4. ASSUME NEW c \in Call, NEW i \in Item, BeginMarkOutOfStock(c, i)
      PROVE  [Contract!KeepPromise]_promised
  BY <1>4 DEF BeginMarkOutOfStock, Begin
<1>5. ASSUME NEW c \in Call, NEW i \in Item, NEW to \in Decision,
             BeginReplaceItem(c, i, to)
      PROVE  [Contract!KeepPromise]_promised
  BY <1>5 DEF BeginReplaceItem, Begin
<1>6. ASSUME NEW c \in Call, NEW i \in Item, BeginResetReplacement(c, i)
      PROVE  [Contract!KeepPromise]_promised
  BY <1>6 DEF BeginResetReplacement, Begin
<1>7. ASSUME NEW c \in Call, NEW i \in Item, NEW to \in Decision,
             BeginDecideReplacement(c, i, to)
      PROVE  [Contract!KeepPromise]_promised
  BY <1>7 DEF BeginDecideReplacement, Begin
<1>8. ASSUME NEW c \in Call, CountDeliverable(c)
      PROVE  [Contract!KeepPromise]_promised
  BY <1>8 DEF CountDeliverable
<1>9. ASSUME NEW c \in Call, CommitUpdate(c)
      PROVE  [Contract!KeepPromise]_promised
  <2> DEFINE next == request[c].to
  <2>1. /\ request[c].kind = "update"
        /\ UpdateStatus(status, next)
        /\ feeSet' = feeSet
    BY <1>9, NotOvertaken DEF CommitUpdate, Commit
  <2>2. /\ next \in AllowedNext[status] \union {status}
        /\ status \in Status
        /\ next = "confirmed" => feeSet
    BY <1>9, <2>1, NotOvertaken
       DEF IInv, TypeOK, ReadsWereChecked, CommitUpdate
  <2> HIDE DEF next
  <2>3. CASE next = status
    <3>1. Lifecycle(status, next) = {} /\ ~Counts(status, next)
      BY <2>3 DEF Lifecycle, Counts
    <3>2. QED
      BY <2>1, <2>3, <3>1 DEF UpdateStatus
  <2>4. CASE next \in AllowedNext[status] /\ next = "cancelled"
    <3>1. status \in {"draft", "confirmed", "out_for_delivery"}
      BY <2>2, <2>4 DEF AllowedNext, Status
    <3>2. Contract!Cancel
      BY <2>1, <2>4, <3>1 DEF UpdateStatus, CancelOrder, Contract!Cancel
    <3>3. QED
      BY <3>2 DEF Contract!KeepPromise
  <2>5. CASE next \in AllowedNext[status] /\ next # "cancelled"
    <3>1. /\ status' = next
          /\ completions' = IF Counts(status, next) THEN completions + 1
                                                    ELSE completions
          /\ events' = events \union Lifecycle(status, next)
          /\ cancellations' = cancellations
      BY <2>1, <2>5 DEF UpdateStatus
    <3>2. \/ status = "draft" /\ next = "confirmed"
          \/ status = "confirmed" /\ next = "out_for_delivery"
          \/ status = "out_for_delivery" /\ next = "completed"
          \/ status \in {"draft", "confirmed"} /\ next = "rejected_by_customer"
      BY <2>2, <2>5 DEF AllowedNext, Status
    <3>3. \/ Contract!Confirm
          \/ Contract!Dispatch
          \/ Contract!Complete
          \/ Contract!Reject
      BY <2>1, <2>2, <3>1, <3>2
         DEF Counts, Lifecycle, Contract!Confirm, Contract!Dispatch,
             Contract!Complete, Contract!Reject
    <3>4. QED
      BY <3>3 DEF Contract!KeepPromise
  <2>6. QED
    BY <2>2, <2>3, <2>4, <2>5
<1>10. ASSUME NEW c \in Call, CommitReject(c)
       PROVE  [Contract!KeepPromise]_promised
  <2>1. Open(status)
    <3>1. request[c].kind = "reject"
      BY <1>10 DEF CommitReject, Commit
    <3>2. Open(seen[c].status)
      BY <3>1 DEF IInv, ReadsWereChecked
    <3>3. QED
      BY <1>10, <3>2, NotOvertaken DEF CommitReject
  <2>2. Contract!Reject
    BY <1>10, <2>1 DEF CommitReject, Open, Contract!Reject
  <2>3. QED
    BY <2>2 DEF Contract!KeepPromise
<1>11. ASSUME NEW c \in Call, CommitDeliveryFee(c)
       PROVE  [Contract!KeepPromise]_promised
  <2>1. Open(status) /\ ~feeSet
    <3>1. request[c].kind = "fee"
      BY <1>11 DEF CommitDeliveryFee, Commit
    <3>2. Open(seen[c].status)
      BY <3>1 DEF IInv, ReadsWereChecked
    <3>3. ~Overtaken(c) /\ seen[c].status = status
      BY <1>11, NotOvertaken DEF CommitDeliveryFee
    <3>4. QED
      BY <3>1, <3>2, <3>3 DEF Overtaken
  <2>2. Contract!SettleFee
    BY <1>11, <2>1 DEF CommitDeliveryFee, Open, Contract!SettleFee
  <2>3. QED
    BY <2>2 DEF Contract!KeepPromise
<1>12. ASSUME NEW c \in Call, CommitOutOfStock(c)
       PROVE  [Contract!KeepPromise]_promised
  <2>1. Open(status)
    <3>1. request[c].kind = "counted"
      BY <1>12 DEF CommitOutOfStock, Commit
    <3>2. Open(seen[c].status)
      BY <3>1 DEF IInv, ReadsWereChecked
    <3>3. QED
      BY <1>12, <3>2, NotOvertaken DEF CommitOutOfStock
  <2>2. CASE IsLast(c)
    <3>1. CancelOrder /\ UNCHANGED <<feeSet, completions>>
      BY <1>12, <2>2 DEF CommitOutOfStock
    <3>2. Contract!Cancel
      BY <2>1, <3>1 DEF CancelOrder, Open, Contract!Cancel
    <3>3. QED
      BY <3>2 DEF Contract!KeepPromise
  <2>3. CASE ~IsLast(c)
    BY <1>12, <2>3 DEF CommitOutOfStock
  <2>4. QED
    BY <2>2, <2>3
<1>13. ASSUME NEW c \in Call, CommitDecision(c)
       PROVE  [Contract!KeepPromise]_promised
  BY <1>13 DEF CommitDecision, Commit
<1>14. ASSUME NEW c \in Call, RollBack(c) PROVE [Contract!KeepPromise]_promised
  BY <1>14 DEF RollBack
<1>15. CASE UNCHANGED vars
  BY <1>15 DEF vars
<1>16. QED
  BY <1>1, <1>2, <1>3, <1>4, <1>5, <1>6, <1>7, <1>8, <1>9, <1>10, <1>11,
     <1>12, <1>13, <1>14, <1>15
     DEF Next, BeginCall, EndCall

\* Races are never forgotten.
LEMMA RacesGrow == ASSUME IInv, [Next]_vars PROVE races <= races'
<1>1. races \in Nat
  BY DEF IInv, TypeOK
<1>2. UNCHANGED races \/ races' = races + 1
  BY DEF Next, vars, BeginCall, EndCall, CountDeliverable, Begin, BeginUpdate,
         BeginReject, BeginSetDeliveryFee, BeginMarkOutOfStock,
         BeginReplaceItem, BeginResetReplacement, BeginDecideReplacement,
         CommitUpdate, CommitReject, CommitDeliveryFee, CommitOutOfStock,
         CommitDecision, Commit, RollBack
<1>3. QED
  BY <1>1, <1>2

\* A commit that was not overtaken rests on the items as they are, too.
LEMMA FreshCommit ==
  ASSUME IInv, races' = 0, NEW c \in Call, NEW kind, Commit(c, kind)
  PROVE  /\ races = 0
         /\ seen[c].status = status
         /\ kind = "counted" =>
              /\ seen[c].outOfStock = outOfStock[request[c].item]
              /\ seen[c].deliverable = Cardinality(Deliverable)
         /\ kind \in {"replace", "decide"} =>
              seen[c].decision = decision[request[c].item]
  BY NotOvertaken DEF Commit, Overtaken, IInv, TypeOK

\* The item that leaves none to deliver was the only one to deliver.
LEMMA LastOne ==
  ASSUME NEW i \in Item, ~outOfStock[i], \A j \in Item \ {i} : outOfStock[j]
  PROVE  Cardinality(Deliverable) = 1
<1>1. Deliverable = {i}
  BY DEF Deliverable
<1>2. QED
  BY <1>1, FS_Singleton

\* Only the commit that takes the last item leaves none to deliver, and no
\* commit that sees the order cancelled changes that.
LEMMA EmptyStep ==
  ASSUME IInv, [Next]_vars, CancelledWhenEmpty PROVE CancelledWhenEmpty'
<1> SUFFICES ASSUME races' = 0, Item # {}, \A i \in Item : outOfStock'[i]
             PROVE  status' = "cancelled"
  BY DEF CancelledWhenEmpty
<1> USE DEF CancelledWhenEmpty, orderVars, effectVars
<1>a. outOfStock \in [Item -> BOOLEAN]
  BY DEF IInv, TypeOK
<1>1. ASSUME NEW c \in Call, CommitUpdate(c) PROVE status' = "cancelled"
  <2>1. races = 0 /\ seen[c].status = status
    BY <1>1, FreshCommit DEF CommitUpdate
  <2>2. status = "cancelled"
    BY <1>1, <2>1 DEF CommitUpdate
  <2>3. request[c].to \in AllowedNext["cancelled"] \union {"cancelled"}
    BY <1>1, <2>1, <2>2 DEF IInv, ReadsWereChecked, CommitUpdate, Commit
  <2>4. request[c].to = "cancelled"
    BY <2>3, Transitions DEF Status, Terminal
  <2>5. QED
    BY <1>1, <2>4 DEF CommitUpdate, UpdateStatus, CancelOrder
<1>2. ASSUME NEW c \in Call, CommitReject(c) PROVE status' = "cancelled"
  <2>1. races = 0 /\ seen[c].status = status /\ Open(seen[c].status)
    BY <1>2, FreshCommit DEF CommitReject, Commit, IInv, ReadsWereChecked
  <2>2. status = "cancelled"
    BY <1>2, <2>1 DEF CommitReject
  <2>3. QED
    BY <2>1, <2>2 DEF Open
<1>3. ASSUME NEW c \in Call, CommitDeliveryFee(c) PROVE status' = "cancelled"
  <2>1. races = 0
    BY <1>3, FreshCommit DEF CommitDeliveryFee
  <2>2. QED
    BY <1>3, <2>1 DEF CommitDeliveryFee
<1>4. ASSUME NEW c \in Call, CommitOutOfStock(c) PROVE status' = "cancelled"
  <2> DEFINE i == request[c].item
  <2>1. i \in Item /\ Open(seen[c].status)
    BY <1>4 DEF CommitOutOfStock, Commit, IInv, ReadsWereChecked
  <2>2. /\ races = 0
        /\ seen[c].status = status
        /\ seen[c].outOfStock = outOfStock[i]
        /\ seen[c].deliverable = Cardinality(Deliverable)
    BY <1>4, FreshCommit DEF CommitOutOfStock
  <2>3. \A j \in Item \ {i} : outOfStock[j]
    BY <1>4, <1>a DEF CommitOutOfStock
  <2>4. ~outOfStock[i]
    BY <2>1, <2>2, <2>3 DEF Open
  <2>5. IsLast(c)
    BY <2>1, <2>2, <2>3, <2>4, LastOne DEF IsLast
  <2>6. QED
    BY <1>4, <2>5 DEF CommitOutOfStock, CancelOrder
<1>5. ASSUME NEW c \in Call, CommitDecision(c) PROVE status' = "cancelled"
  <2>1. races = 0
    BY <1>5, FreshCommit DEF CommitDecision
  <2>2. QED
    BY <1>5, <2>1 DEF CommitDecision
<1>6. ASSUME NEW c \in Call, BeginCall(c) \/ CountDeliverable(c) \/ RollBack(c)
      PROVE  status' = "cancelled"
  BY <1>6 DEF BeginCall, BeginUpdate, BeginReject, BeginSetDeliveryFee,
     BeginMarkOutOfStock, BeginResetReplacement, BeginReplaceItem,
     BeginDecideReplacement, Begin, CountDeliverable, RollBack
<1>7. CASE UNCHANGED vars
  BY <1>7 DEF vars
<1>8. QED
  BY <1>1, <1>2, <1>3, <1>4, <1>5, <1>6, <1>7 DEF Next, EndCall

\* Until a commit is overtaken, an order with items and none to deliver is
\* cancelled, for any number of items and of calls that mark them at once.
THEOREM EmptyIsCancelled == Spec => []CancelledWhenEmpty
<1>1. Init => CancelledWhenEmpty
  BY DEF Init, CancelledWhenEmpty
<1>2. QED
  BY <1>1, EmptyStep, InductiveInvariant, PTL DEF Spec

\* Nothing takes back a count or an event.
LEMMA EffectsGrow ==
  ASSUME IInv, [Next]_vars
  PROVE  /\ completions \in Nat /\ completions' \in Nat
         /\ completions <= completions'
         /\ cancellations \in Nat /\ cancellations' \in Nat
         /\ cancellations <= cancellations'
         /\ events \subseteq events'
<1>1. /\ completions \in Nat /\ completions' \in Nat
      /\ cancellations \in Nat /\ cancellations' \in Nat
  BY TypeStep DEF IInv, TypeOK
<1>2. ASSUME NEW c \in Call, EndCall(c)
      PROVE  /\ completions' \in {completions, completions + 1}
             /\ cancellations' \in {cancellations, cancellations + 1}
             /\ events \subseteq events'
  BY <1>2 DEF EndCall, CommitUpdate, UpdateStatus, CommitReject,
     CommitDeliveryFee, CommitOutOfStock, CancelOrder, CommitDecision,
     RollBack, effectVars
<1>3. ASSUME ~\E c \in Call : EndCall(c) PROVE UNCHANGED effectVars
  BY <1>3 DEF Next, BeginCall, BeginUpdate, BeginReject, BeginSetDeliveryFee,
     BeginMarkOutOfStock, BeginResetReplacement, BeginReplaceItem,
     BeginDecideReplacement, Begin, CountDeliverable, vars
<1>4. QED
  BY <1>1, <1>2, <1>3 DEF effectVars

LEMMA EffectsStay ==
  ASSUME IInv, [Next]_vars
  PROVE  \A s : EffectsOf(s) =>
           /\ s \in Promised => "order_confirmed" \in events'
           /\ s = "completed" => completions' > 0 /\ "purchase" \in events'
           /\ s = "cancelled" => cancellations' > 0 /\ "order_cancelled" \in events'
  BY EffectsGrow DEF EffectsOf

\* The status a call will write rests on the one it read, so the effects of
\* that one must be on record too.
EffectsInv == EffectsAreComplete /\ \A c \in Call : EffectsOf(seen[c].status)

LEMMA StatusHasItsEffects ==
  ASSUME IInv, EffectsInv, [Next]_vars PROVE EffectsAreComplete'
<1>a. completions \in Nat /\ cancellations \in Nat
  BY DEF IInv, TypeOK
<1>1. CASE status' = status
  BY <1>1, EffectsGrow DEF EffectsInv, EffectsAreComplete, EffectsOf
<1>2. CASE CancelOrder
  BY <1>2, <1>a DEF CancelOrder, EffectsAreComplete, EffectsOf, Promised
<1>3. ASSUME NEW c \in Call, CommitReject(c) PROVE EffectsAreComplete'
  BY <1>3 DEF CommitReject, EffectsAreComplete, EffectsOf, Promised
<1>4. ASSUME NEW c \in Call, CommitUpdate(c), ~CancelOrder
      PROVE  EffectsAreComplete'
  <2> DEFINE previous == seen[c].status
             next     == request[c].to
  <2>1. /\ status' = next
        /\ completions' = IF Counts(previous, next) THEN completions + 1
                                                    ELSE completions
        /\ events' = events \union Lifecycle(previous, next)
        /\ next = "cancelled" => previous = "cancelled"
    BY <1>4 DEF CommitUpdate, UpdateStatus
  <2>2. next \in AllowedNext[previous] \union {previous}
    BY <1>4 DEF CommitUpdate, Commit, IInv, ReadsWereChecked
  <2>3. /\ previous \in Promised => "order_confirmed" \in events'
        /\ previous = "completed" => completions' > 0 /\ "purchase" \in events'
        /\ previous = "cancelled" =>
             cancellations' > 0 /\ "order_cancelled" \in events'
    BY EffectsStay DEF EffectsInv
  <2>4. previous \in Status
    BY CallTypes DEF Snapshot
  <2>5. CASE next = previous
    BY <2>1, <2>3, <2>5 DEF EffectsAreComplete, EffectsOf
  <2>6. CASE next # previous
    <3>1. /\ next \in {"confirmed", "out_for_delivery", "completed", "rejected_by_customer"}
          /\ next \in {"out_for_delivery", "completed"} => previous \in Promised
      BY <2>1, <2>2, <2>4, <2>6 DEF AllowedNext, Status, Promised
    <3>2. next = "confirmed" => "order_confirmed" \in events'
      BY <2>1, <2>6 DEF Lifecycle
    <3>3. next = "completed" => completions' > 0 /\ "purchase" \in events'
      BY <1>a, <2>1, <2>6 DEF Lifecycle, Counts
    <3>4. QED
      BY <2>1, <2>3, <3>1, <3>2, <3>3 DEF EffectsAreComplete, EffectsOf, Promised
  <2>7. QED
    BY <2>5, <2>6
<1>5. QED
  BY <1>1, <1>2, <1>3, <1>4
     DEF Next, BeginCall, BeginUpdate, BeginReject, BeginSetDeliveryFee,
     BeginMarkOutOfStock, BeginResetReplacement, BeginReplaceItem,
     BeginDecideReplacement, Begin, CountDeliverable, EndCall,
     CommitDeliveryFee, CommitOutOfStock, CommitDecision, RollBack, orderVars,
     vars

LEMMA EffectsStep == ASSUME IInv, EffectsInv, [Next]_vars PROVE EffectsInv'
<1>1. ASSUME NEW c \in Call PROVE seen'[c].status \in {seen[c].status, status, "draft"}
  <2>a. seen \in [Call -> Snapshot]
    BY DEF IInv, TypeOK
  <2>1. ASSUME NEW d \in Call, BeginCall(d)
        PROVE  \E i : seen' = [seen EXCEPT ![d] = OrderNow(i)]
    BY <2>1 DEF BeginCall, BeginUpdate, BeginReject, BeginSetDeliveryFee,
       BeginMarkOutOfStock, BeginResetReplacement, BeginReplaceItem,
       BeginDecideReplacement, Begin
  <2>2. \A i : OrderNow(i).status = status
    BY DEF OrderNow
  <2>3. ASSUME NEW d \in Call, EndCall(d)
        PROVE  seen' = [seen EXCEPT ![d] = Nothing]
    BY <2>3 DEF EndCall, CommitUpdate, CommitReject, CommitDeliveryFee,
       CommitOutOfStock, CommitDecision, Commit, RollBack
  <2>4. ASSUME NEW d \in Call, CountDeliverable(d)
        PROVE  \E n : seen' = [seen EXCEPT ![d].deliverable = n]
    BY <2>4 DEF CountDeliverable
  <2>5. CASE \E d \in Call : BeginCall(d)
    BY <2>a, <2>1, <2>2, <2>5
  <2>6. CASE \E d \in Call : EndCall(d)
    BY <2>a, <2>3, <2>6 DEF Nothing
  <2>7. CASE \E d \in Call : CountDeliverable(d)
    BY <2>a, <2>4, <2>7 DEF Snapshot
  <2>8. CASE UNCHANGED vars
    BY <2>8 DEF vars
  <2>9. QED
    BY <2>5, <2>6, <2>7, <2>8 DEF Next
<1>2. EffectsOf("draft")'
  BY DEF EffectsOf, Promised
<1>3. EffectsOf(status) /\ \A c \in Call : EffectsOf(seen[c].status)
  BY DEF EffectsInv, EffectsAreComplete
<1>4. ASSUME NEW c \in Call PROVE EffectsOf(seen[c].status)'
  BY <1>1, <1>3, EffectsStay DEF EffectsOf, Promised
<1>5. QED
  BY <1>4, StatusHasItsEffects DEF EffectsInv

\* However calls race, the order's status has had its effects: a status that
\* was announced or counted is never one that was not.
THEOREM NoEffectIsLost == Spec => []EffectsAreComplete
<1>1. Init => EffectsInv
  BY DEF Init, EffectsInv, EffectsAreComplete, EffectsOf, Nothing, Promised
<1>2. EffectsInv => EffectsAreComplete
  BY DEF EffectsInv
<1>3. QED
  BY <1>1, <1>2, EffectsStep, InductiveInvariant, PTL DEF Spec

\* What a call that writes a decision has checked: a proposal, and the answer
\* to one, rest on the decision the call read.
DecisionReads ==
  \A c \in Call :
    /\ request[c].kind = "replace" =>
         Replaceable(seen[c].decision) /\ request[c].to \in {"pending", "none"}
    /\ request[c].kind = "reset" => request[c].to = "none"
    /\ request[c].kind = "decide" =>
         seen[c].decision = "pending" /\ request[c].to \in {"approved", "rejected"}

LEMMA DecisionReadsStep ==
  ASSUME IInv, [Next]_vars, DecisionReads PROVE DecisionReads'
<1> USE DEF DecisionReads
<1>a. request \in [Call -> Request] /\ seen \in [Call -> Snapshot]
  BY DEF IInv, TypeOK
<1>b. \A i \in Item : OrderNow(i).decision = decision[i]
  BY DEF OrderNow
<1>c. Idle.kind = "idle"
  BY DEF Idle
<1>1. ASSUME NEW c \in Call, BeginCall(c) PROVE DecisionReads'
  <2>1. ASSUME NEW i \in Item, NEW to \in Decision, BeginReplaceItem(c, i, to)
        PROVE  DecisionReads'
    BY <2>1, <1>a, <1>b DEF BeginReplaceItem, Begin
  <2>2. ASSUME NEW i \in Item, BeginResetReplacement(c, i) PROVE DecisionReads'
    BY <2>2, <1>a, <1>b DEF BeginResetReplacement, Begin
  <2>3. ASSUME NEW i \in Item, NEW to \in Decision,
               BeginDecideReplacement(c, i, to)
        PROVE  DecisionReads'
    BY <2>3, <1>a, <1>b DEF BeginDecideReplacement, Begin
  <2>4. ASSUME \/ \E next \in Status : BeginUpdate(c, next)
               \/ BeginReject(c) \/ BeginSetDeliveryFee(c)
               \/ \E i \in Item : BeginMarkOutOfStock(c, i)
        PROVE  DecisionReads'
    BY <2>4, <1>a DEF BeginUpdate, BeginReject, BeginSetDeliveryFee,
       BeginMarkOutOfStock, Begin
  <2>5. QED
    BY <1>1, <2>1, <2>2, <2>3, <2>4 DEF BeginCall
<1>2. ASSUME NEW c \in Call, CountDeliverable(c) PROVE DecisionReads'
  BY <1>2, <1>a DEF CountDeliverable
<1>3. ASSUME NEW c \in Call, EndCall(c) PROVE DecisionReads'
  <2>1. /\ request' = [request EXCEPT ![c] = Idle]
        /\ seen' = [seen EXCEPT ![c] = Nothing]
    BY <1>3 DEF EndCall, CommitUpdate, CommitReject, CommitDeliveryFee,
       CommitOutOfStock, CommitDecision, Commit, RollBack
  <2>2. QED
    BY <2>1, <1>a, <1>c
<1>4. CASE UNCHANGED vars
  BY <1>4 DEF vars
<1>5. QED
  BY <1>1, <1>2, <1>3, <1>4 DEF Next

\* The steps that write a decision are those of CommitDecision.
LEMMA DecisionWrites ==
  ASSUME [Next]_vars, decision' # decision
  PROVE  \E c \in Call : CommitDecision(c)
BY DEF Next, BeginCall, BeginUpdate, BeginReject, BeginSetDeliveryFee,
   BeginMarkOutOfStock, BeginResetReplacement, BeginReplaceItem,
   BeginDecideReplacement, Begin, CountDeliverable, EndCall, CommitUpdate,
   CommitReject, CommitDeliveryFee, CommitOutOfStock, RollBack, orderVars, vars

\* Until a commit is overtaken, what the customer decided gives way to a reset
\* only.
THEOREM DecisionsAreLocked == Spec => DecisionLocked
<1> DEFINE Locked ==
      races' = 0 =>
        \A i \in Item : decision[i] \in {"approved", "rejected"}
                          => decision'[i] \in {decision[i], "none"}
<1>1. IInv /\ DecisionReads /\ [Next]_vars => Locked
  <2> SUFFICES ASSUME IInv, DecisionReads, [Next]_vars, races' = 0,
                      decision' # decision,
                      NEW i \in Item, decision[i] \in {"approved", "rejected"}
               PROVE  decision'[i] \in {decision[i], "none"}
    OBVIOUS
  <2>1. PICK c \in Call : CommitDecision(c)
    BY DecisionWrites
  <2>2. PICK kind \in {"replace", "reset", "decide"} : Commit(c, kind)
    BY <2>1 DEF CommitDecision
  <2>3. request[c].item = i => request[c].to = "none"
    BY <2>2, FreshCommit DEF Commit, DecisionReads, Replaceable
  <2>4. decision \in [Item -> Decision]
    BY DEF IInv, TypeOK
  <2>5. QED
    BY <2>1, <2>3, <2>4 DEF CommitDecision
<1>2. Init => DecisionReads
  BY DEF Init, DecisionReads, Idle
<1>3. QED
  BY <1>1, <1>2, DecisionReadsStep, InductiveInvariant, PTL
     DEF Spec, DecisionLocked

\* Until a commit is overtaken, the order implements its contract, for any
\* number of sessions, items and races.
THEOREM Implementation == Spec => ImplementsContract
<1>1. Init => Contract!Init
  BY DEF Init, Contract!Init
<1>2. IInv /\ [Next]_vars => [Contract!Next]_Contract!vars
  <2> SUFFICES ASSUME IInv, [Next]_vars PROVE [Contract!Next]_Contract!vars
    OBVIOUS
  <2>1. races \in Nat /\ races' \in Nat /\ races <= races'
    BY TypeStep, RacesGrow DEF IInv, TypeOK
  <2>2. CASE races' > 0
    BY <2>2 DEF Contract!Next
  <2>3. CASE ~(races' > 0)
    <3>1. races' = 0 /\ races = 0
      BY <2>1, <2>3
    <3>2. [Contract!KeepPromise]_promised
      BY <3>1, ContractStep
    <3>3. QED
      BY <3>1, <3>2 DEF promised, Contract!Next, Contract!vars
  <2>4. QED
    BY <2>2, <2>3
<1>3. QED
  BY <1>1, <1>2, InductiveInvariant, PTL DEF Spec, ImplementsContract, Contract!Spec

=============================================================================

------------------------- MODULE CartCheckoutProofs -------------------------
(***************************************************************************)
(* Proofs about checkout for any number of calls, edits and overruns: the  *)
(* invariants TLC checks on small instances, from the inductive invariant  *)
(* IInv, and that the draft implements CheckoutContract, whose promise is  *)
(* off once a checkout has outlived its claim.                             *)
(***************************************************************************)
EXTENDS CartCheckout, FiniteSetTheorems, TLAPS

\* Every reachable state is well-typed.
THEOREM TypeCorrect == Spec => []TypeOK
<1> USE ConstantsAssumption
<1>1. Init => TypeOK
  <2> SUFFICES ASSUME Init PROVE TypeOK
    OBVIOUS
  <2>1. seen \in [Checkout -> Snapshot] /\ stage \in [Checkout -> Stage]
    BY DEF Init, Snapshot, Stage
  <2>2. QED
    BY <2>1 DEF Init, TypeOK, Kind
<1>2. TypeOK /\ [Next]_vars => TypeOK'
  <2> SUFFICES ASSUME TypeOK, [Next]_vars PROVE TypeOK'
    OBVIOUS
  <2> USE DEF TypeOK, Stage, Snapshot, Kind, Move, draftVars, fileVars,
              checkoutVars, editVars, historyVars
  <2>1. ASSUME NEW c \in Checkout, ReadDraft(c) PROVE TypeOK'
    BY <2>1 DEF ReadDraft
  <2>2. ASSUME NEW c \in Checkout, ReadItems(c) PROVE TypeOK'
    <3>1. seen' = [seen EXCEPT ![c] = [@ EXCEPT !.items = items]]
      BY <2>2 DEF ReadItems
    <3>2. seen' \in [Checkout -> Snapshot]
      BY <3>1
    <3>3. QED
      BY <2>2, <3>2 DEF ReadItems
  <2>3. ASSUME NEW c \in Checkout, ReturnCompleted(c) PROVE TypeOK'
    BY <2>3 DEF ReturnCompleted
  <2>4. ASSUME NEW c \in Checkout, Claim(c) PROVE TypeOK'
    BY <2>4 DEF Claim
  <2>5. ASSUME NEW c \in Checkout, Conflict(c) PROVE TypeOK'
    BY <2>5 DEF Conflict
  <2>6. ASSUME NEW c \in Checkout, CheckPrescription(c) PROVE TypeOK'
    BY <2>6 DEF CheckPrescription
  <2>7. ASSUME NEW c \in Checkout, Fail(c) PROVE TypeOK'
    BY <2>7 DEF Fail
  <2>8. ASSUME NEW c \in Checkout, CreateOrder(c) PROVE TypeOK'
    BY <2>8 DEF CreateOrder, RowToComplete
  <2>9. ASSUME NEW c \in Checkout, ReturnOrder(c) PROVE TypeOK'
    BY <2>9 DEF ReturnOrder
  <2>10. ASSUME NEW c \in Checkout, ReleaseClaim(c) PROVE TypeOK'
    BY <2>10 DEF ReleaseClaim, AfterRelease
  <2>11. ASSUME NEW c \in Checkout, Crash(c) PROVE TypeOK'
    BY <2>11 DEF Crash
  <2>12. ASSUME NEW e \in Edit, NEW kind \in Kind, BeginEdit(e, kind)
        PROVE TypeOK'
    BY <2>12 DEF BeginEdit
  <2>13. ASSUME NEW e \in Edit, SaveDraft(e) PROVE TypeOK'
    BY <2>13 DEF SaveDraft, CommitEdit
  <2>14. ASSUME NEW e \in Edit, AttachPrescription(e) PROVE TypeOK'
    BY <2>14 DEF AttachPrescription, CommitEdit
  <2>15. ASSUME NEW e \in Edit, RemovePrescription(e) PROVE TypeOK'
    BY <2>15 DEF RemovePrescription, CommitEdit
  <2>16. ASSUME NEW e \in Edit, RefuseEdit(e) PROVE TypeOK'
    BY <2>16 DEF RefuseEdit
  <2>17. ASSUME NEW e \in Edit, DeleteFile(e) PROVE TypeOK'
    BY <2>17 DEF DeleteFile
  <2>18. ASSUME NEW e \in Edit, ForgetFile(e) PROVE TypeOK'
    BY <2>18 DEF ForgetFile
  <2>19. CASE ClaimTimesOut
    BY <2>19 DEF ClaimTimesOut
  <2>20. CASE Expire
    BY <2>20 DEF Expire
  <2>21. CASE Cleanup
    BY <2>21 DEF Cleanup, LeftFiles
  <2>22. CASE UNCHANGED vars
    BY <2>22 DEF vars
  <2>23. QED
    BY <2>1, <2>2, <2>3, <2>4, <2>5, <2>6, <2>7, <2>8, <2>9, <2>10, <2>11,
       <2>12, <2>13, <2>14, <2>15, <2>16, <2>17, <2>18, <2>19, <2>20,
       <2>21, <2>22
       DEF Next, CheckoutStep, EditStep
<1>3. QED
  BY <1>1, <1>2, PTL DEF Spec

\* A draft is completed exactly when it led to an order, and for good.
LEMMA OrdersCompleteStep ==
  ASSUME IInv, TypeOK', [Next]_vars
  PROVE  OrdersComplete'
<1> USE ConstantsAssumption
<1> USE DEF IInv, TypeOK, Stage, Snapshot, Kind, Move, draftVars, fileVars,
            checkoutVars, editVars, historyVars, OrdersComplete, Updatable
<1>1. ASSUME NEW c \in Checkout, ReadDraft(c) PROVE OrdersComplete'
  BY <1>1 DEF ReadDraft
<1>2. ASSUME NEW c \in Checkout, ReadItems(c) PROVE OrdersComplete'
  BY <1>2 DEF ReadItems
<1>3. ASSUME NEW c \in Checkout, ReturnCompleted(c) PROVE OrdersComplete'
  BY <1>3 DEF ReturnCompleted
<1>4. ASSUME NEW c \in Checkout, Claim(c) PROVE OrdersComplete'
  BY <1>4 DEF Claim
<1>5. ASSUME NEW c \in Checkout, Conflict(c) PROVE OrdersComplete'
  BY <1>5 DEF Conflict
<1>6. ASSUME NEW c \in Checkout, CheckPrescription(c) PROVE OrdersComplete'
  BY <1>6 DEF CheckPrescription
<1>7. ASSUME NEW c \in Checkout, Fail(c) PROVE OrdersComplete'
  BY <1>7 DEF Fail
<1>8. ASSUME NEW c \in Checkout, CreateOrder(c) PROVE OrdersComplete'
  BY <1>8 DEF CreateOrder, RowToComplete
<1>9. ASSUME NEW c \in Checkout, ReturnOrder(c) PROVE OrdersComplete'
  BY <1>9 DEF ReturnOrder
<1>10. ASSUME NEW c \in Checkout, ReleaseClaim(c) PROVE OrdersComplete'
  BY <1>10 DEF ReleaseClaim, AfterRelease
<1>11. ASSUME NEW c \in Checkout, Crash(c) PROVE OrdersComplete'
  BY <1>11 DEF Crash
<1>12. ASSUME NEW e \in Edit, NEW kind \in Kind, BeginEdit(e, kind)
      PROVE OrdersComplete'
  BY <1>12 DEF BeginEdit
<1>13. ASSUME NEW e \in Edit, SaveDraft(e) PROVE OrdersComplete'
  BY <1>13 DEF SaveDraft, CommitEdit
<1>14. ASSUME NEW e \in Edit, AttachPrescription(e) PROVE OrdersComplete'
  BY <1>14 DEF AttachPrescription, CommitEdit
<1>15. ASSUME NEW e \in Edit, RemovePrescription(e) PROVE OrdersComplete'
  BY <1>15 DEF RemovePrescription, CommitEdit
<1>16. ASSUME NEW e \in Edit, RefuseEdit(e) PROVE OrdersComplete'
  BY <1>16 DEF RefuseEdit
<1>17. ASSUME NEW e \in Edit, DeleteFile(e) PROVE OrdersComplete'
  BY <1>17 DEF DeleteFile
<1>18. ASSUME NEW e \in Edit, ForgetFile(e) PROVE OrdersComplete'
  BY <1>18 DEF ForgetFile
<1>19. CASE ClaimTimesOut
  BY <1>19 DEF ClaimTimesOut
<1>20. CASE Expire
  BY <1>20 DEF Expire
<1>21. CASE Cleanup
  BY <1>21 DEF Cleanup, LeftFiles
<1>22. CASE UNCHANGED vars
  BY <1>22 DEF vars
<1>23. QED
  BY <1>1, <1>2, <1>3, <1>4, <1>5, <1>6, <1>7, <1>8, <1>9, <1>10, <1>11,
     <1>12, <1>13, <1>14, <1>15, <1>16, <1>17, <1>18, <1>19, <1>20, <1>21,
     <1>22
     DEF Next, CheckoutStep, EditStep

\* Only committed uploads are named by the draft, a call or a deletion.
LEMMA PathsCommittedStep ==
  ASSUME IInv, TypeOK', [Next]_vars
  PROVE  PathsCommitted'
<1> USE ConstantsAssumption
<1> USE DEF IInv, TypeOK, Stage, Snapshot, Kind, Move, draftVars, fileVars,
            checkoutVars, editVars, historyVars, PathsCommitted, Updatable
<1>1. ASSUME NEW c \in Checkout, ReadDraft(c) PROVE PathsCommitted'
  BY <1>1 DEF ReadDraft
<1>2. ASSUME NEW c \in Checkout, ReadItems(c) PROVE PathsCommitted'
  BY <1>2 DEF ReadItems
<1>3. ASSUME NEW c \in Checkout, ReturnCompleted(c) PROVE PathsCommitted'
  BY <1>3 DEF ReturnCompleted
<1>4. ASSUME NEW c \in Checkout, Claim(c) PROVE PathsCommitted'
  BY <1>4 DEF Claim
<1>5. ASSUME NEW c \in Checkout, Conflict(c) PROVE PathsCommitted'
  BY <1>5 DEF Conflict
<1>6. ASSUME NEW c \in Checkout, CheckPrescription(c) PROVE PathsCommitted'
  BY <1>6 DEF CheckPrescription
<1>7. ASSUME NEW c \in Checkout, Fail(c) PROVE PathsCommitted'
  BY <1>7 DEF Fail
<1>8. ASSUME NEW c \in Checkout, CreateOrder(c) PROVE PathsCommitted'
  BY <1>8 DEF CreateOrder, RowToComplete
<1>9. ASSUME NEW c \in Checkout, ReturnOrder(c) PROVE PathsCommitted'
  BY <1>9 DEF ReturnOrder
<1>10. ASSUME NEW c \in Checkout, ReleaseClaim(c) PROVE PathsCommitted'
  BY <1>10 DEF ReleaseClaim, AfterRelease
<1>11. ASSUME NEW c \in Checkout, Crash(c) PROVE PathsCommitted'
  BY <1>11 DEF Crash
<1>12. ASSUME NEW e \in Edit, NEW kind \in Kind, BeginEdit(e, kind)
      PROVE PathsCommitted'
  BY <1>12 DEF BeginEdit
<1>13. ASSUME NEW e \in Edit, SaveDraft(e) PROVE PathsCommitted'
  BY <1>13 DEF SaveDraft, CommitEdit
<1>14. ASSUME NEW e \in Edit, AttachPrescription(e) PROVE PathsCommitted'
  BY <1>14 DEF AttachPrescription, CommitEdit
<1>15. ASSUME NEW e \in Edit, RemovePrescription(e) PROVE PathsCommitted'
  BY <1>15 DEF RemovePrescription, CommitEdit
<1>16. ASSUME NEW e \in Edit, RefuseEdit(e) PROVE PathsCommitted'
  BY <1>16 DEF RefuseEdit
<1>17. ASSUME NEW e \in Edit, DeleteFile(e) PROVE PathsCommitted'
  BY <1>17 DEF DeleteFile
<1>18. ASSUME NEW e \in Edit, ForgetFile(e) PROVE PathsCommitted'
  BY <1>18 DEF ForgetFile
<1>19. CASE ClaimTimesOut
  BY <1>19 DEF ClaimTimesOut
<1>20. CASE Expire
  BY <1>20 DEF Expire
<1>21. CASE Cleanup
  BY <1>21 DEF Cleanup, LeftFiles
<1>22. CASE UNCHANGED vars
  BY <1>22 DEF vars
<1>23. QED
  BY <1>1, <1>2, <1>3, <1>4, <1>5, <1>6, <1>7, <1>8, <1>9, <1>10, <1>11,
     <1>12, <1>13, <1>14, <1>15, <1>16, <1>17, <1>18, <1>19, <1>20, <1>21,
     <1>22
     DEF Next, CheckoutStep, EditStep

\* No step deletes the file the draft names, or sets it down for deletion.
LEMMA DraftKeepsItsFileStep ==
  ASSUME IInv, TypeOK', [Next]_vars
  PROVE  DraftKeepsItsFile'
<1> USE ConstantsAssumption
<1> USE DEF IInv, TypeOK, Stage, Snapshot, Kind, Move, draftVars, fileVars,
            checkoutVars, editVars, historyVars, PathsCommitted, DraftKeepsItsFile,
            Updatable
<1>1. ASSUME NEW c \in Checkout, ReadDraft(c) PROVE DraftKeepsItsFile'
  BY <1>1 DEF ReadDraft
<1>2. ASSUME NEW c \in Checkout, ReadItems(c) PROVE DraftKeepsItsFile'
  BY <1>2 DEF ReadItems
<1>3. ASSUME NEW c \in Checkout, ReturnCompleted(c) PROVE DraftKeepsItsFile'
  BY <1>3 DEF ReturnCompleted
<1>4. ASSUME NEW c \in Checkout, Claim(c) PROVE DraftKeepsItsFile'
  BY <1>4 DEF Claim
<1>5. ASSUME NEW c \in Checkout, Conflict(c) PROVE DraftKeepsItsFile'
  BY <1>5 DEF Conflict
<1>6. ASSUME NEW c \in Checkout, CheckPrescription(c) PROVE DraftKeepsItsFile'
  BY <1>6 DEF CheckPrescription
<1>7. ASSUME NEW c \in Checkout, Fail(c) PROVE DraftKeepsItsFile'
  BY <1>7 DEF Fail
<1>8. ASSUME NEW c \in Checkout, CreateOrder(c) PROVE DraftKeepsItsFile'
  BY <1>8 DEF CreateOrder, RowToComplete
<1>9. ASSUME NEW c \in Checkout, ReturnOrder(c) PROVE DraftKeepsItsFile'
  BY <1>9 DEF ReturnOrder
<1>10. ASSUME NEW c \in Checkout, ReleaseClaim(c) PROVE DraftKeepsItsFile'
  BY <1>10 DEF ReleaseClaim, AfterRelease
<1>11. ASSUME NEW c \in Checkout, Crash(c) PROVE DraftKeepsItsFile'
  BY <1>11 DEF Crash
<1>12. ASSUME NEW e \in Edit, NEW kind \in Kind, BeginEdit(e, kind)
      PROVE DraftKeepsItsFile'
  BY <1>12 DEF BeginEdit
<1>13. ASSUME NEW e \in Edit, SaveDraft(e) PROVE DraftKeepsItsFile'
  BY <1>13 DEF SaveDraft, CommitEdit
<1>14. ASSUME NEW e \in Edit, AttachPrescription(e) PROVE DraftKeepsItsFile'
  BY <1>14 DEF AttachPrescription, CommitEdit
<1>15. ASSUME NEW e \in Edit, RemovePrescription(e) PROVE DraftKeepsItsFile'
  BY <1>15 DEF RemovePrescription, CommitEdit
<1>16. ASSUME NEW e \in Edit, RefuseEdit(e) PROVE DraftKeepsItsFile'
  BY <1>16 DEF RefuseEdit
<1>17. ASSUME NEW e \in Edit, DeleteFile(e) PROVE DraftKeepsItsFile'
  BY <1>17 DEF DeleteFile
<1>18. ASSUME NEW e \in Edit, ForgetFile(e) PROVE DraftKeepsItsFile'
  BY <1>18 DEF ForgetFile
<1>19. CASE ClaimTimesOut
  BY <1>19 DEF ClaimTimesOut
<1>20. CASE Expire
  BY <1>20 DEF Expire
<1>21. CASE Cleanup
  BY <1>21 DEF Cleanup, LeftFiles
<1>22. CASE UNCHANGED vars
  BY <1>22 DEF vars
<1>23. QED
  BY <1>1, <1>2, <1>3, <1>4, <1>5, <1>6, <1>7, <1>8, <1>9, <1>10, <1>11,
     <1>12, <1>13, <1>14, <1>15, <1>16, <1>17, <1>18, <1>19, <1>20, <1>21,
     <1>22
     DEF Next, CheckoutStep, EditStep

-----------------------------------------------------------------------------
(* The number of orders                                                    *)

\* The sets the budget counts are finite.
LEMMA WorkingFinite ==
  ASSUME TypeOK
  PROVE  /\ IsFiniteSet(Working)
         /\ IsFiniteSet(Working \ Exempt)
         /\ IsFiniteSet(ordered)
         /\ IsFiniteSet(Working \union ordered)
<1>1. Working \in SUBSET Checkout /\ ordered \in SUBSET Checkout
  BY DEF Working, TypeOK
<1>2. /\ Working \ Exempt \in SUBSET Checkout
      /\ Working \union ordered \in SUBSET Checkout
  BY <1>1
<1>3. QED
  BY <1>1, <1>2, ConstantsAssumption, FS_Subset

\* The same of the next state.
LEMMA NextWorkingFinite ==
  ASSUME TypeOK'
  PROVE  /\ IsFiniteSet(Working')
         /\ IsFiniteSet((Working \ Exempt)')
         /\ IsFiniteSet(ordered')
         /\ IsFiniteSet((Working \union ordered)')
<1>1. Working' \in SUBSET Checkout /\ ordered' \in SUBSET Checkout
  BY DEF Working, TypeOK
<1>2. /\ (Working \ Exempt)' \in SUBSET Checkout
      /\ (Working \union ordered)' \in SUBSET Checkout
  BY <1>1
<1>3. QED
  BY <1>1, <1>2, ConstantsAssumption, FS_Subset

\* A subset of a finite set has no more elements.
LEMMA NoMore ==
  ASSUME NEW S, NEW T, IsFiniteSet(S), T \subseteq S
  PROVE  /\ Cardinality(S) \in Nat
         /\ Cardinality(T) \in Nat
         /\ Cardinality(T) <= Cardinality(S)
  BY FS_Subset, FS_CardinalityType

\* A set with one element more has a cardinality at most one larger.
LEMMA AtMostOneMore ==
  ASSUME NEW S, NEW T, NEW x, IsFiniteSet(S), T \subseteq S \union {x}
  PROVE  Cardinality(T) <= Cardinality(S) + 1
<1>1. /\ IsFiniteSet(S \union {x})
      /\ Cardinality(S \union {x}) =
           IF x \in S THEN Cardinality(S) ELSE Cardinality(S) + 1
  BY FS_AddElement
<1>2. /\ Cardinality(T) <= Cardinality(S \union {x})
      /\ Cardinality(T) \in Nat
      /\ Cardinality(S \union {x}) \in Nat
  BY <1>1, NoMore
<1>3. Cardinality(S) \in Nat
  BY FS_CardinalityType
<1>4. QED
  BY <1>1, <1>2, <1>3

\* Exchanging an element of a set for at most one other does not enlarge it.
LEMMA Exchange ==
  ASSUME NEW S, NEW x \in S, NEW y, IsFiniteSet(S)
  PROVE  Cardinality(S \ {x}) <= Cardinality(S \ {y})
<1>1. /\ Cardinality(S \ {x}) = Cardinality(S) - 1
      /\ Cardinality(S \ {y}) =
           IF y \in S THEN Cardinality(S) - 1 ELSE Cardinality(S)
  BY FS_RemoveElement
<1>2. QED
  BY <1>1, FS_CardinalityType

\* A step that lets nobody in keeps the budget.
LEMMA BudgetKept ==
  ASSUME IInv, TypeOK',
         UNCHANGED <<exists, completed, ordered, overruns>>,
         exists /\ completed = None =>
           (Working \ Exempt)' \subseteq Working \ Exempt,
         (Working \union ordered)' \subseteq Working \union ordered
  PROVE  OrderBudget'
<1>1. exists /\ completed = None =>
        Cardinality((Working \ Exempt)') <= Cardinality(Working \ Exempt)
      /\ Cardinality((Working \ Exempt)') \in Nat
      /\ Cardinality(Working \ Exempt) \in Nat
  BY WorkingFinite, NextWorkingFinite, NoMore, FS_CardinalityType DEF IInv
<1>2. Cardinality((Working \union ordered)') <= Cardinality(Working \union ordered)
      /\ Cardinality((Working \union ordered)') \in Nat
      /\ Cardinality(Working \union ordered) \in Nat
  BY WorkingFinite, NoMore DEF IInv
<1>3. QED
  BY <1>1, <1>2 DEF IInv, TypeOK, OrderBudget

\* Only an overrun lets a second call in, and only a call at work can order.
LEMMA OrderBudgetStep ==
  ASSUME IInv, TypeOK', [Next]_vars
  PROVE  OrderBudget'
<1> USE ConstantsAssumption
<1> USE DEF IInv, TypeOK, Stage, Snapshot, Kind, Move, draftVars,
            fileVars, checkoutVars, editVars, historyVars
<1>1. ASSUME NEW c \in Checkout, ReadDraft(c) PROVE OrderBudget'
  <2>1. /\ UNCHANGED <<exists, completed, claim, claimant, ordered, overruns>>
        /\ Working' \subseteq Working
    BY <1>1 DEF ReadDraft, Working
  <2>2. Exempt' = Exempt
    BY <2>1 DEF Exempt, Updatable
  <2>3. QED
    BY <2>1, <2>2, BudgetKept
<1>2. ASSUME NEW c \in Checkout, ReadItems(c) PROVE OrderBudget'
  <2>1. /\ UNCHANGED <<exists, completed, claim, claimant, ordered, overruns>>
        /\ Working' \subseteq Working
    BY <1>2 DEF ReadItems, Working
  <2>2. Exempt' = Exempt
    BY <2>1 DEF Exempt, Updatable
  <2>3. QED
    BY <2>1, <2>2, BudgetKept
<1>3. ASSUME NEW c \in Checkout, ReturnCompleted(c) PROVE OrderBudget'
  <2>1. /\ UNCHANGED <<exists, completed, claim, claimant, ordered, overruns>>
        /\ Working' \subseteq Working
    BY <1>3 DEF ReturnCompleted, Working
  <2>2. Exempt' = Exempt
    BY <2>1 DEF Exempt, Updatable
  <2>3. QED
    BY <2>1, <2>2, BudgetKept
<1>4. ASSUME NEW c \in Checkout, Claim(c) PROVE OrderBudget'
  <2>1. /\ UNCHANGED <<exists, completed, ordered, overruns>>
        /\ Updatable
        /\ exists /\ completed = None
        /\ claim' = "recent" /\ claimant' = c
        /\ Working' \subseteq Working \union {c}
    BY <1>4 DEF Claim, Working, Updatable
  <2>2. Exempt = {} /\ Exempt' = {c}
    BY <2>1 DEF Exempt, Updatable
  <2>3. Cardinality(Working \ Exempt) <= overruns
    BY <2>1 DEF OrderBudget
  <2>4. (Working \ Exempt)' \subseteq Working \ Exempt
    BY <2>1, <2>2
  <2>5. Cardinality((Working \ Exempt)') <= overruns
    BY <2>3, <2>4, WorkingFinite, NoMore
  <2>6. QED
    BY <2>1, <2>5 DEF OrderBudget
<1>5. ASSUME NEW c \in Checkout, Conflict(c) PROVE OrderBudget'
  <2>1. /\ UNCHANGED <<exists, completed, claim, claimant, ordered, overruns>>
        /\ Working' \subseteq Working
    BY <1>5 DEF Conflict, Working
  <2>2. Exempt' = Exempt
    BY <2>1 DEF Exempt, Updatable
  <2>3. QED
    BY <2>1, <2>2, BudgetKept
<1>6. ASSUME NEW c \in Checkout, CheckPrescription(c) PROVE OrderBudget'
  <2>1. /\ UNCHANGED <<exists, completed, claim, claimant, ordered, overruns>>
        /\ Working' \subseteq Working
    BY <1>6 DEF CheckPrescription, Working
  <2>2. Exempt' = Exempt
    BY <2>1 DEF Exempt, Updatable
  <2>3. QED
    BY <2>1, <2>2, BudgetKept
<1>7. ASSUME NEW c \in Checkout, Fail(c) PROVE OrderBudget'
  <2>1. UNCHANGED <<exists, completed, claim, claimant, ordered, overruns>>
    BY <1>7 DEF Fail
  <2>2. Exempt' = Exempt
    BY <2>1 DEF Exempt, Updatable
  <2>3. Working' \subseteq Working \union ordered
    BY <1>7 DEF Fail, Working, OrdersComplete
  <2>4. exists /\ completed = None => Working' \subseteq Working
    BY <2>3 DEF OrdersComplete
  <2>5. QED
    BY <2>1, <2>2, <2>3, <2>4, BudgetKept
<1>8. ASSUME NEW c \in Checkout, CreateOrder(c) PROVE OrderBudget'
  <2>1. /\ exists /\ exists' /\ completed' = c /\ c # None
        /\ overruns' = overruns
        /\ c \in Working
        /\ (Working \union ordered)' \subseteq Working \union ordered
        /\ ordered' \subseteq (Working \union ordered)'
    BY <1>8 DEF CreateOrder, RowToComplete, Working
  <2>2. Cardinality(Working \union ordered) <= 1 + overruns
    <3>1. CASE completed # None
      BY <2>1, <3>1 DEF OrderBudget
    <3>2. CASE completed = None
      <4>1. Cardinality(Working \ Exempt) <= overruns
        BY <2>1, <3>2 DEF OrderBudget
      <4>2. PICK x : Exempt \subseteq {x}
        BY DEF Exempt
      <4>3. Working \union ordered \subseteq (Working \ Exempt) \union {x}
        BY <3>2, <4>2 DEF OrdersComplete
      <4>4. Cardinality(Working \union ordered) <= Cardinality(Working \ Exempt) + 1
        BY <4>3, WorkingFinite, AtMostOneMore
      <4>5. QED
        BY <4>1, <4>4, WorkingFinite, FS_CardinalityType
    <3>3. QED
      BY <3>1, <3>2
  <2>3. Cardinality((Working \union ordered)') <= 1 + overruns
    <3>1. /\ Cardinality((Working \union ordered)')
               <= Cardinality(Working \union ordered)
          /\ Cardinality((Working \union ordered)') \in Nat
          /\ Cardinality(Working \union ordered) \in Nat
      BY <2>1, WorkingFinite, NoMore
    <3>2. QED
      BY <2>2, <3>1
  <2>4. Cardinality(ordered') <= 1 + overruns
    BY <2>1, <2>3, NextWorkingFinite, NoMore
  <2>5. QED
    BY <2>1, <2>3, <2>4 DEF OrderBudget
<1>9. ASSUME NEW c \in Checkout, ReturnOrder(c) PROVE OrderBudget'
  <2>1. /\ UNCHANGED <<exists, completed, claim, claimant, ordered, overruns>>
        /\ Working' \subseteq Working
    BY <1>9 DEF ReturnOrder, Working
  <2>2. Exempt' = Exempt
    BY <2>1 DEF Exempt, Updatable
  <2>3. QED
    BY <2>1, <2>2, BudgetKept
<1>10. ASSUME NEW c \in Checkout, ReleaseClaim(c) PROVE OrderBudget'
  <2>1. /\ UNCHANGED <<exists, completed, claimant, ordered, overruns>>
        /\ c \in Working
        /\ Working' = Working \ {c}
        /\ claim' = AfterRelease
    BY <1>10 DEF ReleaseClaim, Working
  <2>2. CASE ~(exists /\ completed = None)
    BY <2>1, <2>2, BudgetKept
  <2>3. CASE exists /\ completed = None
    <3>1. Exempt' = {}
      BY <2>1, <2>3 DEF Exempt, Updatable, AfterRelease
    <3>2. Exempt = {} \/ Exempt = {claimant}
      BY DEF Exempt
    <3>3. Cardinality(Working \ {c}) <= Cardinality(Working \ Exempt)
      <4>1. CASE Exempt = {}
        BY <4>1, WorkingFinite, NoMore
      <4>2. CASE Exempt = {claimant}
        BY <2>1, <4>2, WorkingFinite, Exchange
      <4>3. QED
        BY <3>2, <4>1, <4>2
    <3>4. Cardinality((Working \ Exempt)') <= overruns
      <4>1. /\ Cardinality((Working \ Exempt)') <= Cardinality(Working \ {c})
            /\ Cardinality((Working \ Exempt)') \in Nat
        <5>1. (Working \ Exempt)' \subseteq Working \ {c}
          BY <2>1, <3>1
        <5>2. IsFiniteSet(Working \ {c})
          BY WorkingFinite, FS_RemoveElement
        <5>3. QED
          BY <5>1, <5>2, NoMore
      <4>2. Cardinality(Working \ Exempt) <= overruns
        BY <2>3 DEF OrderBudget
      <4>3. /\ Cardinality(Working \ {c}) \in Nat
            /\ Cardinality(Working \ Exempt) \in Nat
        BY WorkingFinite, NoMore
      <4>4. QED
        BY <3>3, <4>1, <4>2, <4>3
    <3>5. QED
      BY <2>1, <2>3, <3>4 DEF OrderBudget
  <2>4. QED
    BY <2>2, <2>3
<1>11. ASSUME NEW c \in Checkout, Crash(c) PROVE OrderBudget'
  <2>1. /\ UNCHANGED <<exists, completed, claim, claimant, ordered, overruns>>
        /\ Working' \subseteq Working
    BY <1>11 DEF Crash, Working
  <2>2. Exempt' = Exempt
    BY <2>1 DEF Exempt, Updatable
  <2>3. QED
    BY <2>1, <2>2, BudgetKept
<1>12. ASSUME NEW e \in Edit, NEW kind \in Kind, BeginEdit(e, kind)
      PROVE OrderBudget'
  <2>1. /\ UNCHANGED <<exists, completed, claim, claimant, ordered, overruns>>
        /\ Working' \subseteq Working
    BY <1>12 DEF BeginEdit, Working
  <2>2. Exempt' = Exempt
    BY <2>1 DEF Exempt, Updatable
  <2>3. QED
    BY <2>1, <2>2, BudgetKept
<1>13. ASSUME NEW e \in Edit, SaveDraft(e) PROVE OrderBudget'
  <2>1. /\ UNCHANGED <<exists, completed, ordered, overruns>>
        /\ Working' = Working
        /\ Updatable /\ Updatable'
    BY <1>13 DEF SaveDraft, CommitEdit, Working, Updatable
  <2>2. Exempt = {} /\ Exempt' = {}
    BY <2>1 DEF Exempt
  <2>3. QED
    BY <2>1, <2>2, BudgetKept
<1>14. ASSUME NEW e \in Edit, AttachPrescription(e) PROVE OrderBudget'
  <2>1. /\ UNCHANGED <<exists, completed, claim, claimant, ordered, overruns>>
        /\ Working' \subseteq Working
    BY <1>14 DEF AttachPrescription, CommitEdit, Working
  <2>2. Exempt' = Exempt
    BY <2>1 DEF Exempt, Updatable
  <2>3. QED
    BY <2>1, <2>2, BudgetKept
<1>15. ASSUME NEW e \in Edit, RemovePrescription(e) PROVE OrderBudget'
  <2>1. /\ UNCHANGED <<exists, completed, claim, claimant, ordered, overruns>>
        /\ Working' \subseteq Working
    BY <1>15 DEF RemovePrescription, CommitEdit, Working
  <2>2. Exempt' = Exempt
    BY <2>1 DEF Exempt, Updatable
  <2>3. QED
    BY <2>1, <2>2, BudgetKept
<1>16. ASSUME NEW e \in Edit, RefuseEdit(e) PROVE OrderBudget'
  <2>1. /\ UNCHANGED <<exists, completed, claim, claimant, ordered, overruns>>
        /\ Working' \subseteq Working
    BY <1>16 DEF RefuseEdit, Working
  <2>2. Exempt' = Exempt
    BY <2>1 DEF Exempt, Updatable
  <2>3. QED
    BY <2>1, <2>2, BudgetKept
<1>17. ASSUME NEW e \in Edit, DeleteFile(e) PROVE OrderBudget'
  <2>1. /\ UNCHANGED <<exists, completed, claim, claimant, ordered, overruns>>
        /\ Working' \subseteq Working
    BY <1>17 DEF DeleteFile, Working
  <2>2. Exempt' = Exempt
    BY <2>1 DEF Exempt, Updatable
  <2>3. QED
    BY <2>1, <2>2, BudgetKept
<1>18. ASSUME NEW e \in Edit, ForgetFile(e) PROVE OrderBudget'
  <2>1. /\ UNCHANGED <<exists, completed, claim, claimant, ordered, overruns>>
        /\ Working' \subseteq Working
    BY <1>18 DEF ForgetFile, Working
  <2>2. Exempt' = Exempt
    BY <2>1 DEF Exempt, Updatable
  <2>3. QED
    BY <2>1, <2>2, BudgetKept
<1>19. CASE ClaimTimesOut
  <2>1. /\ UNCHANGED <<exists, completed, claimant, ordered>>
        /\ claim' = "stale"
        /\ Working' = Working
        /\ IF claimant \in Working THEN overruns' = overruns + 1
                                   ELSE overruns' = overruns
    BY <1>19 DEF ClaimTimesOut, Working
  <2>2. Exempt' = {}
    BY <2>1 DEF Exempt, Updatable
  <2>3. Exempt \subseteq {claimant}
    BY DEF Exempt
  <2>4. exists /\ completed = None => Cardinality((Working \ Exempt)') <= overruns'
    <3>1. SUFFICES ASSUME exists, completed = None
                   PROVE  Cardinality(Working) <= overruns'
      BY <2>1, <2>2
    <3>2. Cardinality(Working \ Exempt) <= overruns
      BY <3>1 DEF OrderBudget
    <3>3. CASE claimant \in Working
      <4>1. Working \subseteq (Working \ Exempt) \union {claimant}
        BY <2>3
      <4>2. Cardinality(Working) <= Cardinality(Working \ Exempt) + 1
        BY <4>1, WorkingFinite, AtMostOneMore
      <4>3. QED
        BY <2>1, <3>2, <3>3, <4>2, WorkingFinite, FS_CardinalityType
    <3>4. CASE claimant \notin Working
      BY <2>1, <2>3, <3>2, <3>4, WorkingFinite, NoMore
    <3>5. QED
      BY <3>3, <3>4
  <2>5. overruns <= overruns'
    BY <2>1
  <2>6. /\ Cardinality(ordered) \in Nat
        /\ Cardinality(Working \union ordered) \in Nat
    BY WorkingFinite, FS_CardinalityType
  <2>7. QED
    BY <2>1, <2>4, <2>5, <2>6 DEF OrderBudget
<1>20. CASE Expire
  <2>1. /\ UNCHANGED <<exists, completed, claim, claimant, ordered, overruns>>
        /\ Working' \subseteq Working
    BY <1>20 DEF Expire, Working
  <2>2. Exempt' = Exempt
    BY <2>1 DEF Exempt, Updatable
  <2>3. QED
    BY <2>1, <2>2, BudgetKept
<1>21. CASE Cleanup
  BY <1>21 DEF Cleanup, OrderBudget
<1>22. CASE UNCHANGED vars
  <2>1. /\ UNCHANGED <<exists, completed, claim, claimant, ordered, overruns>>
        /\ Working' \subseteq Working
    BY <1>22 DEF vars, Working
  <2>2. Exempt' = Exempt
    BY <2>1 DEF Exempt, Updatable
  <2>3. QED
    BY <2>1, <2>2, BudgetKept
<1>23. QED
  BY <1>1, <1>2, <1>3, <1>4, <1>5, <1>6, <1>7, <1>8, <1>9, <1>10, <1>11,
     <1>12, <1>13, <1>14, <1>15, <1>16, <1>17, <1>18, <1>19, <1>20, <1>21,
     <1>22
     DEF Next, CheckoutStep, EditStep

-----------------------------------------------------------------------------
(* What orders are made of                                                 *)

\* Without overruns the call that claimed an open draft works on it alone.
LEMMA AloneAtWork ==
  ASSUME IInv, overruns = 0, exists, completed = None
  PROVE  Working \subseteq Exempt /\ ordered = {}
<1>1. Cardinality(Working \ Exempt) <= 0
  BY DEF IInv, OrderBudget
<1>2. Cardinality(Working \ Exempt) = 0
  BY <1>1, WorkingFinite, FS_CardinalityType DEF IInv
<1>3. Working \ Exempt = {}
  BY <1>2, WorkingFinite, FS_EmptySet DEF IInv
<1>4. QED
  BY <1>3 DEF IInv, OrdersComplete

\* Without overruns nobody is at work on a completed draft, but the call that
\* completed it.
LEMMA OneInvolved ==
  ASSUME IInv, overruns = 0, exists, completed # None, NEW c \in Working
  PROVE  c = completed
<1> DEFINE S == Working \union ordered
<1>1. /\ IsFiniteSet(S)
      /\ Cardinality(S) <= 1
      /\ Cardinality(S) \in Nat
      /\ completed \in S
  BY WorkingFinite, FS_CardinalityType DEF IInv, OrderBudget, OrdersComplete
<1>2. /\ Cardinality(S \ {completed}) = Cardinality(S) - 1
      /\ IsFiniteSet(S \ {completed})
  BY <1>1, FS_RemoveElement
<1>3. Cardinality(S \ {completed}) = 0
  BY <1>1, <1>2, FS_CardinalityType
<1>4. S \ {completed} = {}
  BY <1>2, <1>3, FS_EmptySet
<1>5. QED
  BY <1>4

\* An open draft that can be updated is being checked out by nobody, unless a
\* claim was overrun.
LEMMA NobodyAtWork ==
  ASSUME IInv, overruns = 0, Updatable
  PROVE  Working \union ordered = {}
<1>1. Exempt = {} /\ exists /\ completed = None
  BY DEF Exempt, Updatable
<1>2. QED
  BY <1>1, AloneAtWork

\* A call's snapshot goes stale by a racing edit or an overrun only.
LEMMA ReadsAreFreshStep ==
  ASSUME IInv, TypeOK', [Next]_vars
  PROVE  ReadsAreFresh'
<1> USE ConstantsAssumption
<1> USE DEF IInv, TypeOK, Stage, Snapshot, Kind, Move, draftVars,
            fileVars, checkoutVars, editVars, historyVars,
            ReadsAreFresh
<1>1. ASSUME NEW c \in Checkout, ReadDraft(c) PROVE ReadsAreFresh'
  BY <1>1 DEF ReadDraft, Fresh, Working
<1>2. ASSUME NEW c \in Checkout, ReadItems(c) PROVE ReadsAreFresh'
  BY <1>2 DEF ReadItems, Fresh, Working
<1>3. ASSUME NEW c \in Checkout, ReturnCompleted(c) PROVE ReadsAreFresh'
  BY <1>3 DEF ReturnCompleted, Fresh, Working
<1>4. ASSUME NEW c \in Checkout, Claim(c) PROVE ReadsAreFresh'
  BY <1>4 DEF Claim, Fresh, Working
<1>5. ASSUME NEW c \in Checkout, Conflict(c) PROVE ReadsAreFresh'
  BY <1>5 DEF Conflict, Fresh, Working
<1>6. ASSUME NEW c \in Checkout, CheckPrescription(c) PROVE ReadsAreFresh'
  BY <1>6 DEF CheckPrescription, Fresh, Working
<1>7. ASSUME NEW c \in Checkout, Fail(c) PROVE ReadsAreFresh'
  BY <1>7 DEF Fail, Fresh, Working, OrdersComplete
<1>8. ASSUME NEW c \in Checkout, CreateOrder(c) PROVE ReadsAreFresh'
  BY <1>8 DEF CreateOrder, RowToComplete, Fresh, Working
<1>9. ASSUME NEW c \in Checkout, ReturnOrder(c) PROVE ReadsAreFresh'
  BY <1>9 DEF ReturnOrder, Fresh, Working
<1>10. ASSUME NEW c \in Checkout, ReleaseClaim(c) PROVE ReadsAreFresh'
  BY <1>10 DEF ReleaseClaim, AfterRelease, Fresh, Working
<1>11. ASSUME NEW c \in Checkout, Crash(c) PROVE ReadsAreFresh'
  BY <1>11 DEF Crash, Fresh, Working, OrdersComplete
<1>12. ASSUME NEW e \in Edit, NEW kind \in Kind, BeginEdit(e, kind)
      PROVE ReadsAreFresh'
  BY <1>12 DEF BeginEdit, Fresh, Working
<1>13. ASSUME NEW e \in Edit, SaveDraft(e) PROVE ReadsAreFresh'
  <2>1. overruns = 0 => Working \union ordered = {}
    BY <1>13, NobodyAtWork DEF SaveDraft, CommitEdit
  <2>2. /\ UNCHANGED <<stage, seen, ordered, overruns, exists>>
        /\ Working' = Working
        /\ \A c \in Checkout :
             raced'[c] = (raced[c] \/ stage[c] \in {"read", "loaded"})
    BY <1>13 DEF SaveDraft, CommitEdit, Working
  <2>3. QED
    BY <2>1, <2>2 DEF Fresh
<1>14. ASSUME NEW e \in Edit, AttachPrescription(e) PROVE ReadsAreFresh'
  <2>1. overruns = 0 => Working \union ordered = {}
    BY <1>14, NobodyAtWork DEF AttachPrescription, CommitEdit
  <2>2. /\ UNCHANGED <<stage, seen, ordered, overruns, exists>>
        /\ Working' = Working
        /\ \A c \in Checkout :
             raced'[c] = (raced[c] \/ stage[c] \in {"read", "loaded"})
    BY <1>14 DEF AttachPrescription, CommitEdit, Working
  <2>3. QED
    BY <2>1, <2>2 DEF Fresh
<1>15. ASSUME NEW e \in Edit, RemovePrescription(e) PROVE ReadsAreFresh'
  <2>1. overruns = 0 => Working \union ordered = {}
    BY <1>15, NobodyAtWork DEF RemovePrescription, CommitEdit
  <2>2. /\ UNCHANGED <<stage, seen, ordered, overruns, exists>>
        /\ Working' = Working
        /\ \A c \in Checkout :
             raced'[c] = (raced[c] \/ stage[c] \in {"read", "loaded"})
    BY <1>15 DEF RemovePrescription, CommitEdit, Working
  <2>3. QED
    BY <2>1, <2>2 DEF Fresh
<1>16. ASSUME NEW e \in Edit, RefuseEdit(e) PROVE ReadsAreFresh'
  BY <1>16 DEF RefuseEdit, Fresh, Working
<1>17. ASSUME NEW e \in Edit, DeleteFile(e) PROVE ReadsAreFresh'
  BY <1>17 DEF DeleteFile, Fresh, Working
<1>18. ASSUME NEW e \in Edit, ForgetFile(e) PROVE ReadsAreFresh'
  BY <1>18 DEF ForgetFile, Fresh, Working
<1>19. CASE ClaimTimesOut
  BY <1>19 DEF ClaimTimesOut, Fresh, Working
<1>20. CASE Expire
  BY <1>20 DEF Expire, Fresh, Working
<1>21. CASE Cleanup
  BY <1>21 DEF Cleanup, LeftFiles, Fresh, Working
<1>22. CASE UNCHANGED vars
  BY <1>22 DEF vars, Fresh, Working
<1>23. QED
  BY <1>1, <1>2, <1>3, <1>4, <1>5, <1>6, <1>7, <1>8, <1>9, <1>10, <1>11,
     <1>12, <1>13, <1>14, <1>15, <1>16, <1>17, <1>18, <1>19, <1>20, <1>21,
     <1>22
     DEF Next, CheckoutStep, EditStep

\* What was ordered is what the draft shows.
LEMMA OrderMatchesDraftStep ==
  ASSUME TypeOK', OrdersComplete', ReadsAreFresh'
  PROVE  OrderMatchesDraft'
<1> SUFFICES ASSUME NEW c \in ordered',
                    exists', ~raced'[c], overruns' = 0
             PROVE  seen'[c] = [contents |-> contents', items |-> items',
                                   path |-> path']
  BY DEF OrderMatchesDraft
<1>1. c \in Checkout /\ seen'[c] \in Snapshot
  BY DEF TypeOK
<1>2. Fresh(c)' /\ stage'[c] # "read"
  BY <1>1 DEF ReadsAreFresh, OrdersComplete
<1>3. QED
  BY <1>1, <1>2 DEF Fresh, Snapshot

\* While the draft exists the files of its orders are its own; once it is gone
\* no deletion is aimed at them.
LEMMA OrderKeepsItsFileStep ==
  ASSUME IInv, TypeOK', [Next]_vars, OrdersComplete', ReadsAreFresh',
         DraftKeepsItsFile'
  PROVE  OrderKeepsItsFile'
<1> USE ConstantsAssumption
<1> SUFFICES ASSUME NEW c \in ordered', ~raced'[c], overruns' = 0
             PROVE  seen'[c].path \in (files' \ doomed') \union {None}
  BY DEF OrderKeepsItsFile
<1> c \in Checkout
  BY DEF TypeOK
<1> DEFINE Kept == seen'[c].path \in (files' \ doomed') \union {None}
<1>1. CASE exists'
  <2>1. seen'[c].path = path'
    BY <1>1 DEF ReadsAreFresh, Fresh
  <2>2. QED
    BY <1>1, <2>1 DEF DraftKeepsItsFile
<1>2. CASE exists /\ ~exists'
  <2>1. Cleanup
    <3>1. ASSUME NEW d \in Checkout,
                 ReadDraft(d) \/ ReturnCompleted(d) \/ CheckoutStep(d)
          PROVE  exists' = exists
      BY <3>1 DEF ReadDraft, ReturnCompleted, CheckoutStep, ReadItems, Claim,
                  Conflict, CheckPrescription, Fail, CreateOrder, ReturnOrder,
                  ReleaseClaim, Crash, draftVars
    <3>2. ASSUME NEW e \in Edit,
                 \/ \E kind \in Kind : BeginEdit(e, kind)
                 \/ EditStep(e) \/ DeleteFile(e) \/ ForgetFile(e)
          PROVE  exists' = exists
      BY <3>2 DEF BeginEdit, EditStep, SaveDraft, AttachPrescription, CommitEdit,
                  RemovePrescription, RefuseEdit, DeleteFile, ForgetFile, draftVars
    <3>3. QED
      BY <1>2, <3>1, <3>2
         DEF Next, ClaimTimesOut, Expire, vars, draftVars
  <2>2. /\ c \in ordered /\ ~raced[c] /\ overruns = 0
        /\ seen' = seen /\ files' = files /\ doomed' = doomed \union LeftFiles
    BY <2>1 DEF Cleanup, checkoutVars, historyVars
  <2>3. LeftFiles = {}
    BY <2>2 DEF LeftFiles, IInv, OrdersComplete
  <2>4. QED
    BY <2>2, <2>3 DEF IInv, OrderKeepsItsFile
<1>3. CASE ~exists /\ ~exists'
  <2>1. /\ c \in ordered /\ raced'[c] = raced[c] /\ overruns <= overruns'
        /\ seen'[c].path = seen[c].path
    <3>1. ASSUME NEW d \in Checkout,
                 ReadDraft(d) \/ ReturnCompleted(d) \/ CheckoutStep(d)
          PROVE  /\ ordered' = ordered /\ raced' = raced /\ overruns' = overruns
                 /\ seen'[c].path = seen[c].path
      <4>1. CASE ReadItems(d)
        <5>1. seen' = [seen EXCEPT ![d] = [@ EXCEPT !.items = items]]
          BY <4>1 DEF ReadItems
        <5>2. seen'[c].path = seen[c].path
          BY <5>1 DEF IInv, TypeOK, Snapshot
        <5>3. QED
          BY <4>1, <5>2 DEF ReadItems, historyVars
      <4>2. QED
        BY <1>3, <3>1, <4>1
           DEF ReadDraft, ReturnCompleted, CheckoutStep, Claim,
               Conflict, CheckPrescription, Fail, CreateOrder, ReturnOrder,
               ReleaseClaim, Crash, Found, Updatable, RowToComplete,
               checkoutVars, historyVars
    <3>2. ASSUME NEW e \in Edit,
                 \/ \E kind \in Kind : BeginEdit(e, kind)
                 \/ EditStep(e) \/ DeleteFile(e) \/ ForgetFile(e)
          PROVE  /\ ordered' = ordered /\ raced' = raced /\ overruns' = overruns
                 /\ seen' = seen
      BY <1>3, <3>2
         DEF BeginEdit, EditStep, SaveDraft, AttachPrescription, CommitEdit,
             RemovePrescription, RefuseEdit, DeleteFile, ForgetFile, Found,
             Updatable, checkoutVars, historyVars
    <3>3. ASSUME ClaimTimesOut
          PROVE  /\ ordered' = ordered /\ raced' = raced /\ overruns <= overruns'
                 /\ seen' = seen
      BY <3>3 DEF ClaimTimesOut, checkoutVars, IInv, TypeOK
    <3>4. CASE Expire \/ Cleanup \/ UNCHANGED vars
      BY <1>3, <3>4 DEF Expire, Cleanup, vars, checkoutVars, historyVars
    <3>5. overruns \in Nat
      BY DEF IInv, TypeOK
    <3>6. QED
      BY <3>1, <3>2, <3>3, <3>4, <3>5 DEF Next
  <2>2. seen[c].path \in (files \ doomed) \union {None}
    <3>1. overruns = 0
      BY <2>1 DEF IInv, TypeOK
    <3>2. QED
      BY <2>1, <3>1 DEF IInv, OrderKeepsItsFile
  <2>3. /\ files \ files' \subseteq doomed
        /\ doomed' \ doomed \subseteq {e \in Edit : editing[e] = "attach"}
    <3>1. ASSUME NEW d \in Checkout,
                 ReadDraft(d) \/ ReturnCompleted(d) \/ CheckoutStep(d)
          PROVE  UNCHANGED fileVars
      BY <3>1 DEF ReadDraft, ReturnCompleted, CheckoutStep, ReadItems, Claim,
                  Conflict, CheckPrescription, Fail, CreateOrder, ReturnOrder,
                  ReleaseClaim, Crash
    <3>2. ASSUME NEW e \in Edit,
                 \/ \E kind \in Kind : BeginEdit(e, kind)
                 \/ EditStep(e) \/ DeleteFile(e) \/ ForgetFile(e)
          PROVE  /\ files \ files' \subseteq doomed
                 /\ doomed' \ doomed \subseteq {d \in Edit : editing[d] = "attach"}
      BY <1>3, <3>2
         DEF BeginEdit, EditStep, SaveDraft, AttachPrescription, CommitEdit,
             RemovePrescription, RefuseEdit, DeleteFile, ForgetFile, Found,
             Updatable
    <3>3. QED
      BY <1>3, <3>1, <3>2
         DEF Next, ClaimTimesOut, Expire, Cleanup, vars, fileVars
  <2>4. seen[c].path # None => editing[seen[c].path] # "attach"
    BY DEF IInv, PathsCommitted
  <2>5. QED
    BY <2>1, <2>2, <2>3, <2>4
<1>4. QED
  BY <1>1, <1>2, <1>3 DEF TypeOK, IInv

-----------------------------------------------------------------------------
(* The theorems                                                            *)

\* The inductive invariant holds of every reachable state, for any number of
\* calls, edits and overruns.
THEOREM InductiveInvariant == Spec => []IInv
<1>1. Init => IInv
  <2> SUFFICES ASSUME Init PROVE IInv
    OBVIOUS
  <2>1. TypeOK
    <3>1. seen \in [Checkout -> Snapshot] /\ stage \in [Checkout -> Stage]
      BY DEF Init, Snapshot, Stage
    <3>2. QED
      BY <3>1, ConstantsAssumption DEF Init, TypeOK, Kind
  <2>2. OrderBudget
    <3>1. Working = {} /\ ordered = {} /\ Working \ Exempt = {}
          /\ Working \union ordered = {}
      BY DEF Init, Working
    <3>2. QED
      BY <3>1, FS_EmptySet DEF Init, OrderBudget
  <2>3. OrdersComplete /\ PathsCommitted /\ DraftKeepsItsFile
    BY ConstantsAssumption
       DEF Init, OrdersComplete, PathsCommitted, DraftKeepsItsFile, Kind
  <2>4. ReadsAreFresh /\ OrderMatchesDraft /\ OrderKeepsItsFile
    BY DEF Init, ReadsAreFresh, Working, OrderMatchesDraft, OrderKeepsItsFile
  <2>5. QED
    BY <2>1, <2>2, <2>3, <2>4 DEF IInv
<1>2. IInv /\ TypeOK' /\ [Next]_vars => IInv'
  BY OrderBudgetStep, OrdersCompleteStep, PathsCommittedStep,
     DraftKeepsItsFileStep, ReadsAreFreshStep, OrderMatchesDraftStep,
     OrderKeepsItsFileStep DEF IInv
<1>3. QED
  BY <1>1, <1>2, TypeCorrect, PTL DEF Spec

\* Every order of a cart beyond its first needs a checkout that outlived its
\* claim: no race, release, crash or retry alone places a second one.
THEOREM DuplicatesNeedOverruns == Spec => []OrdersNeedOverruns
<1>1. IInv => OrdersNeedOverruns
  BY DEF IInv, OrderBudget, OrdersNeedOverruns
<1>2. QED
  BY <1>1, InductiveInvariant, PTL

\* An order that no edit raced and no overrun spoilt is of the cart its draft
\* shows.
THEOREM OrdersAreFaithful == Spec => []OrderMatchesDraft
<1>1. IInv => OrderMatchesDraft
  BY DEF IInv
<1>2. QED
  BY <1>1, InductiveInvariant, PTL

\* Such an order keeps its prescription, after the draft is gone too.
THEOREM OrdersKeepTheirFiles == Spec => []OrderKeepsItsFile
<1>1. IInv => OrderKeepsItsFile
  BY DEF IInv
<1>2. QED
  BY <1>1, InductiveInvariant, PTL

\* The draft of a customer never names a prescription that is gone or about to
\* go, for any number of edits and checkouts.
THEOREM DraftsKeepTheirFiles == Spec => []DraftKeepsItsFile
<1>1. IInv => DraftKeepsItsFile
  BY DEF IInv
<1>2. QED
  BY <1>1, InductiveInvariant, PTL

\* Without overruns an order that was placed is the only one.
LEMMA OnlyOrder ==
  ASSUME IInv, overruns = 0 PROVE \A o \in ordered : ordered = {o}
<1> SUFFICES ASSUME NEW o \in ordered PROVE ordered = {o}
  OBVIOUS
<1>1. IsFiniteSet(ordered)
  BY ConstantsAssumption, FS_Subset DEF IInv, TypeOK
<1>2. Cardinality(ordered) <= 1 /\ Cardinality(ordered) \in Nat
  BY <1>1, FS_CardinalityType DEF IInv, OrderBudget
<1>3. /\ Cardinality(ordered \ {o}) = Cardinality(ordered) - 1
      /\ IsFiniteSet(ordered \ {o})
  BY <1>1, FS_RemoveElement
<1>4. Cardinality(ordered \ {o}) = 0
  BY <1>2, <1>3, FS_CardinalityType
<1>5. ordered \ {o} = {}
  BY <1>3, <1>4, FS_EmptySet
<1>6. QED
  BY <1>5

\* The comment "Claims and finalizes a draft exactly once" is true as long as
\* no checkout outlives its claim.
THEOREM FinalizedUnlessOverrun == Spec => [](overruns = 0 => FinalizedOnce)
<1>1. IInv => (overruns = 0 => FinalizedOnce)
  BY DEF IInv, OrderBudget, FinalizedOnce
<1>2. QED
  BY <1>1, InductiveInvariant, PTL

\* What was answered has been placed.
Answered == \A c \in Checkout : answer[c] # None => answer[c] \in ordered

LEMMA AnsweredStep == ASSUME IInv, Answered, [Next]_vars PROVE Answered'
<1>1. answer \in [Checkout -> Checkout \union {None}]
  BY DEF IInv, TypeOK
<1>2. ASSUME NEW c \in Checkout, ReturnCompleted(c) PROVE Answered'
  BY <1>1, <1>2 DEF ReturnCompleted, Answered, IInv, OrdersComplete
<1>3. ASSUME NEW c \in Checkout, ReturnOrder(c) PROVE Answered'
  BY <1>1, <1>3 DEF ReturnOrder, Answered, IInv, OrdersComplete
<1>4. CASE answer' = answer /\ ordered \subseteq ordered'
  BY <1>4 DEF Answered
<1>5. QED
  <2>1. ASSUME NEW c \in Checkout, CheckoutStep(c) PROVE Answered'
    BY <2>1, <1>2, <1>3, <1>4
       DEF CheckoutStep, ReadDraft, ReadItems, Claim, Conflict,
         CheckPrescription, Fail, CreateOrder, ReleaseClaim, Crash
  <2>2. ASSUME NEW e \in Edit, EditStep(e) PROVE Answered'
    <3>1. UNCHANGED <<answer, ordered>>
      BY <2>2 DEF EditStep, SaveDraft, AttachPrescription, RemovePrescription,
         RefuseEdit, CommitEdit, checkoutVars
    <3>2. QED
      BY <1>4, <3>1
  <2>3. QED
    BY <2>1, <2>2, <1>2, <1>4
       DEF Next, BeginEdit, ReadDraft, DeleteFile, ForgetFile,
         ClaimTimesOut, Expire, Cleanup, checkoutVars, vars

\* Every answer names an order that was placed, and without an overrun all of
\* them the same: a customer may repeat a call whatever became of it.
THEOREM AnswersAreTheOrder == Spec => []AnswersAreOrders
<1>1. Init => Answered
  BY DEF Init, Answered
<1>2. IInv /\ Answered => AnswersAreOrders
  BY OnlyOrder DEF Answered, AnswersAreOrders
<1>3. QED
  BY <1>1, <1>2, AnsweredStep, InductiveInvariant, PTL DEF Spec

\* A completed draft stays completed, by the same order unless a claim was
\* overrun, and nothing late touches what it holds.
THEOREM CompletionIsFinal == Spec => CompletedIsFinal
<1> DEFINE Final == completed # None =>
                      /\ completed' # None
                      /\ overruns = 0 => completed' = completed
                      /\ exists' => UNCHANGED <<claim, contents, items, path>>
<1>1. IInv /\ [Next]_vars => Final
  <2> SUFFICES ASSUME IInv, [Next]_vars PROVE Final
    OBVIOUS
  <2> USE DEF draftVars
  <2>1. ASSUME NEW c \in Checkout, ReadDraft(c) PROVE Final
    BY <2>1 DEF ReadDraft
  <2>2. ASSUME NEW c \in Checkout, ReadItems(c) PROVE Final
    BY <2>2 DEF ReadItems
  <2>3. ASSUME NEW c \in Checkout, ReturnCompleted(c) PROVE Final
    BY <2>3 DEF ReturnCompleted
  <2>4. ASSUME NEW c \in Checkout, Claim(c) PROVE Final
    BY <2>4 DEF Claim, Updatable
  <2>5. ASSUME NEW c \in Checkout, Conflict(c) PROVE Final
    BY <2>5 DEF Conflict
  <2>6. ASSUME NEW c \in Checkout, CheckPrescription(c) PROVE Final
    BY <2>6 DEF CheckPrescription
  <2>7. ASSUME NEW c \in Checkout, Fail(c) PROVE Final
    BY <2>7 DEF Fail
  <2>8. ASSUME NEW c \in Checkout, CreateOrder(c) PROVE Final
    <3>1. CASE overruns = 0 /\ completed # None
      <4>1. c \in Working /\ exists
        BY <2>8 DEF CreateOrder, RowToComplete, Working
      <4>2. c = completed
        BY <3>1, <4>1, OneInvolved
      <4>3. QED
        BY <2>8, <4>1, <4>2 DEF CreateOrder, IInv, OrdersComplete
    <3>2. CASE ~(overruns = 0 /\ completed # None)
      BY <2>8, <3>2, ConstantsAssumption
         DEF CreateOrder, RowToComplete, IInv, OrdersComplete
    <3>3. QED
      BY <3>1, <3>2
  <2>9. ASSUME NEW c \in Checkout, ReturnOrder(c) PROVE Final
    BY <2>9 DEF ReturnOrder
  <2>10. ASSUME NEW c \in Checkout, ReleaseClaim(c) PROVE Final
    BY <2>10 DEF ReleaseClaim, AfterRelease
  <2>11. ASSUME NEW c \in Checkout, Crash(c) PROVE Final
    BY <2>11 DEF Crash
  <2>12. ASSUME NEW e \in Edit, NEW kind \in Kind, BeginEdit(e, kind)
        PROVE Final
    BY <2>12 DEF BeginEdit
  <2>13. ASSUME NEW e \in Edit, SaveDraft(e) PROVE Final
    BY <2>13 DEF SaveDraft, CommitEdit, Updatable
  <2>14. ASSUME NEW e \in Edit, AttachPrescription(e) PROVE Final
    BY <2>14 DEF AttachPrescription, CommitEdit, Updatable
  <2>15. ASSUME NEW e \in Edit, RemovePrescription(e) PROVE Final
    BY <2>15 DEF RemovePrescription, CommitEdit, Updatable
  <2>16. ASSUME NEW e \in Edit, RefuseEdit(e) PROVE Final
    BY <2>16 DEF RefuseEdit
  <2>17. ASSUME NEW e \in Edit, DeleteFile(e) PROVE Final
    BY <2>17 DEF DeleteFile
  <2>18. ASSUME NEW e \in Edit, ForgetFile(e) PROVE Final
    BY <2>18 DEF ForgetFile
  <2>19. CASE ClaimTimesOut
    BY <2>19 DEF ClaimTimesOut, IInv, OrdersComplete, Updatable
  <2>20. CASE Expire
    BY <2>20 DEF Expire
  <2>21. CASE Cleanup
    BY <2>21 DEF Cleanup, LeftFiles
  <2>22. CASE UNCHANGED vars
    BY <2>22 DEF vars
  <2>23. QED
    BY <2>1, <2>2, <2>3, <2>4, <2>5, <2>6, <2>7, <2>8, <2>9, <2>10, <2>11,
       <2>12, <2>13, <2>14, <2>15, <2>16, <2>17, <2>18, <2>19, <2>20,
       <2>21, <2>22
       DEF Next, CheckoutStep, EditStep
<1>2. QED
  BY <1>1, InductiveInvariant, PTL DEF Spec, CompletedIsFinal

\* Overruns are never forgotten.
LEMMA OverrunsGrow ==
  ASSUME IInv, [Next]_vars
  PROVE  overruns \in Nat /\ overruns' \in Nat /\ overruns <= overruns'
<1>1. overruns \in Nat
  BY DEF IInv, TypeOK
<1>2. UNCHANGED overruns \/ overruns' = overruns + 1
  BY DEF Next, vars, historyVars, CheckoutStep, EditStep, ReadDraft, ReadItems,
         ReturnCompleted, Claim, Conflict, CheckPrescription, Fail,
         CreateOrder, ReturnOrder, ReleaseClaim, Crash, BeginEdit, SaveDraft,
         AttachPrescription, RemovePrescription, CommitEdit, RefuseEdit,
         DeleteFile, ForgetFile, ClaimTimesOut, Expire, Cleanup
<1>3. QED
  BY <1>1, <1>2

\* Until a checkout outlives its claim, a step keeps the promise of the contract
\* or leaves what it speaks of alone.
Simulated == Contract!KeepPromise \/ UNCHANGED <<CheckoutPhase, ordered>>

LEMMA ContractStep ==
  ASSUME IInv, [Next]_vars, overruns = 0
  PROVE  Simulated
<1> USE DEF Simulated, Contract!KeepPromise
<1> USE DEF Contract!Next
<1>1. ASSUME NEW c \in Checkout, ReadDraft(c) PROVE Simulated
  <2>1. UNCHANGED <<exists, completed, claim, ordered>>
    BY <1>1 DEF ReadDraft, draftVars
  <2>2. QED
    BY <2>1 DEF CheckoutPhase
<1>2. ASSUME NEW c \in Checkout, ReadItems(c) PROVE Simulated
  <2>1. UNCHANGED <<exists, completed, claim, ordered>>
    BY <1>2 DEF ReadItems, draftVars
  <2>2. QED
    BY <2>1 DEF CheckoutPhase
<1>3. ASSUME NEW c \in Checkout, ReturnCompleted(c) PROVE Simulated
  <2>1. UNCHANGED <<exists, completed, claim, ordered>>
    BY <1>3 DEF ReturnCompleted, draftVars
  <2>2. QED
    BY <2>1 DEF CheckoutPhase
<1>4. ASSUME NEW c \in Checkout, Claim(c) PROVE Simulated
  <2>1. /\ UNCHANGED <<exists, completed, ordered>>
        /\ exists /\ completed = None /\ claim' = "recent"
    BY <1>4 DEF Claim, Updatable
  <2>2. QED
    BY <2>1 DEF CheckoutPhase, Contract!Claim
<1>5. ASSUME NEW c \in Checkout, Conflict(c) PROVE Simulated
  <2>1. UNCHANGED <<exists, completed, claim, ordered>>
    BY <1>5 DEF Conflict, draftVars
  <2>2. QED
    BY <2>1 DEF CheckoutPhase
<1>6. ASSUME NEW c \in Checkout, CheckPrescription(c) PROVE Simulated
  <2>1. UNCHANGED <<exists, completed, claim, ordered>>
    BY <1>6 DEF CheckPrescription, draftVars
  <2>2. QED
    BY <2>1 DEF CheckoutPhase
<1>7. ASSUME NEW c \in Checkout, Fail(c) PROVE Simulated
  <2>1. UNCHANGED <<exists, completed, claim, ordered>>
    BY <1>7 DEF Fail, draftVars
  <2>2. QED
    BY <2>1 DEF CheckoutPhase
<1>8. ASSUME NEW c \in Checkout, CreateOrder(c) PROVE Simulated
  <2>1. /\ exists /\ exists' = exists
        /\ completed' = c /\ c # None
        /\ ordered' = ordered \union {c}
        /\ c \in Working /\ c \notin ordered
    BY <1>8, ConstantsAssumption
       DEF CreateOrder, RowToComplete, Working, IInv, OrdersComplete
  <2>2. completed = None
    BY <2>1, OneInvolved DEF IInv, OrdersComplete
  <2>3. c \in Exempt /\ ordered = {}
    BY <2>1, <2>2, AloneAtWork
  <2>4. claim = "recent"
    BY <2>3 DEF Exempt, Updatable, IInv, OrdersComplete
  <2>5. QED
    BY <2>1, <2>2, <2>3, <2>4 DEF CheckoutPhase, Contract!Order
<1>9. ASSUME NEW c \in Checkout, ReturnOrder(c) PROVE Simulated
  <2>1. UNCHANGED <<exists, completed, claim, ordered>>
    BY <1>9 DEF ReturnOrder, draftVars
  <2>2. QED
    BY <2>1 DEF CheckoutPhase
<1>10. ASSUME NEW c \in Checkout, ReleaseClaim(c) PROVE Simulated
  <2>1. /\ UNCHANGED <<exists, completed, ordered>>
        /\ claim' = IF exists /\ completed = None THEN "none" ELSE claim
    BY <1>10 DEF ReleaseClaim, AfterRelease
  <2>2. QED
    BY <2>1 DEF CheckoutPhase, Contract!Release
<1>11. ASSUME NEW c \in Checkout, Crash(c) PROVE Simulated
  <2>1. UNCHANGED <<exists, completed, claim, ordered>>
    BY <1>11 DEF Crash, draftVars
  <2>2. QED
    BY <2>1 DEF CheckoutPhase
<1>12. ASSUME NEW e \in Edit, NEW kind \in Kind, BeginEdit(e, kind)
      PROVE Simulated
  <2>1. UNCHANGED <<exists, completed, claim, ordered>>
    BY <1>12 DEF BeginEdit, draftVars
  <2>2. QED
    BY <2>1 DEF CheckoutPhase
<1>13. ASSUME NEW e \in Edit, SaveDraft(e) PROVE Simulated
  <2>1. /\ UNCHANGED <<exists, completed, ordered>>
        /\ exists /\ completed = None /\ claim' = "none"
    BY <1>13 DEF SaveDraft, CommitEdit, Updatable
  <2>2. QED
    BY <2>1 DEF CheckoutPhase, Contract!Release
<1>14. ASSUME NEW e \in Edit, AttachPrescription(e) PROVE Simulated
  <2>1. UNCHANGED <<exists, completed, claim, ordered>>
    BY <1>14 DEF AttachPrescription, CommitEdit, draftVars
  <2>2. QED
    BY <2>1 DEF CheckoutPhase
<1>15. ASSUME NEW e \in Edit, RemovePrescription(e) PROVE Simulated
  <2>1. UNCHANGED <<exists, completed, claim, ordered>>
    BY <1>15 DEF RemovePrescription, CommitEdit, draftVars
  <2>2. QED
    BY <2>1 DEF CheckoutPhase
<1>16. ASSUME NEW e \in Edit, RefuseEdit(e) PROVE Simulated
  <2>1. UNCHANGED <<exists, completed, claim, ordered>>
    BY <1>16 DEF RefuseEdit, draftVars
  <2>2. QED
    BY <2>1 DEF CheckoutPhase
<1>17. ASSUME NEW e \in Edit, DeleteFile(e) PROVE Simulated
  <2>1. UNCHANGED <<exists, completed, claim, ordered>>
    BY <1>17 DEF DeleteFile, draftVars
  <2>2. QED
    BY <2>1 DEF CheckoutPhase
<1>18. ASSUME NEW e \in Edit, ForgetFile(e) PROVE Simulated
  <2>1. UNCHANGED <<exists, completed, claim, ordered>>
    BY <1>18 DEF ForgetFile, draftVars
  <2>2. QED
    BY <2>1 DEF CheckoutPhase
<1>19. CASE ClaimTimesOut
  <2>1. /\ UNCHANGED <<exists, completed, ordered>>
        /\ claim = "recent" /\ claim' = "stale"
    BY <1>19 DEF ClaimTimesOut
  <2>2. QED
    BY <2>1 DEF CheckoutPhase
<1>20. CASE Expire
  <2>1. UNCHANGED <<exists, completed, claim, ordered>>
    BY <1>20 DEF Expire, draftVars
  <2>2. QED
    BY <2>1 DEF CheckoutPhase
<1>21. CASE Cleanup
  <2>1. exists /\ ~exists' /\ ordered' = ordered
    BY <1>21 DEF Cleanup
  <2>2. QED
    BY <2>1 DEF CheckoutPhase, Contract!Delete
<1>22. CASE UNCHANGED vars
  <2>1. UNCHANGED <<exists, completed, claim, ordered>>
    BY <1>22 DEF vars, draftVars
  <2>2. QED
    BY <2>1 DEF CheckoutPhase
<1>23. QED
  BY <1>1, <1>2, <1>3, <1>4, <1>5, <1>6, <1>7, <1>8, <1>9, <1>10, <1>11,
     <1>12, <1>13, <1>14, <1>15, <1>16, <1>17, <1>18, <1>19, <1>20,
     <1>21, <1>22
     DEF Next, CheckoutStep, EditStep

\* The draft implements the contract, which is off once a checkout has outlived
\* its claim: at most one order, placed while the cart is claimed, none once it
\* is deleted.
THEOREM Implementation == Spec => ImplementsContract
<1>1. Init => Contract!Init
  BY DEF Init, Contract!Init, CheckoutPhase
<1>2. IInv /\ [Next]_vars => [Contract!Next]_Contract!vars
  <2> SUFFICES ASSUME IInv, [Next]_vars PROVE [Contract!Next]_Contract!vars
    OBVIOUS
  <2>1. overruns \in Nat /\ overruns' \in Nat /\ overruns <= overruns'
    BY OverrunsGrow
  <2>2. CASE overruns' > 0
    BY <2>2 DEF Contract!Next
  <2>3. CASE ~(overruns' > 0)
    <3>1. overruns' = 0 /\ overruns = 0
      BY <2>1, <2>3
    <3>2. Simulated
      BY <3>1, ContractStep
    <3>3. QED
      BY <3>1, <3>2 DEF Simulated, Contract!Next, Contract!vars
  <2>4. QED
    BY <2>2, <2>3
<1>3. QED
  BY <1>1, <1>2, InductiveInvariant, PTL
     DEF Spec, ImplementsContract, Contract!Spec
=============================================================================

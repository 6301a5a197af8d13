---------------------- MODULE CancellationPolicyProofs ----------------------
(***************************************************************************)
(* Proofs about the cancellation policy for any number of requests, months *)
(* and races and any thresholds: the types, the budget of probations, and  *)
(* that the policy implements CancellationContract, whose promise is off   *)
(* once a commit rests on a stale read.                                    *)
(***************************************************************************)
EXTENDS CancellationPolicy, TLAPS

LEMMA IdleTypes == Idle \in Request /\ NoRow \in Row
<1>1. 1 \in 1 .. MaxMonth /\ 0 \in 0 .. Forever
  BY ConstantsAssumption DEF Forever
<1>2. Idle \in Request
  BY <1>1 DEF Idle, Request, Stage, Status
<1>3. NoRow \in Row
  BY <1>1 DEF NoRow, Row
<1>4. QED
  BY <1>2, <1>3

\* The row after a cancellation, and a new window, are rows.
LEMMA OpenedType ==
  ASSUME NEW r \in Row, NEW p \in BOOLEAN, NEW m \in 1 .. MaxMonth
  PROVE  /\ Opened(r, p, m) \in Row
         /\ Opened(r, p, m).policy = r.policy
         /\ Opened(r, p, m).count = 0
         /\ Opened(r, p, m).window = m
         /\ Opened(r, p, m).warned = FALSE
         /\ Opened(r, p, m).probation = p
<1>1. m \in 0 .. Forever
  BY ConstantsAssumption DEF Forever
<1>2. QED
  BY <1>1 DEF Opened, Row

LEMMA NextCountType ==
  ASSUME NEW r \in Row, NEW m PROVE NextCount(r, m) \in Nat
  BY DEF NextCount, Row

LEMMA CancellationRow ==
  ASSUME row \in Row, NEW read \in Row, NEW m \in 1 .. MaxMonth
  PROVE  LET after == AfterCancellation(read, m)
         IN  /\ after \in Row
             /\ after.policy = (row.policy \/ Suspends(read, m))
             /\ after.count = NextCount(read, m)
             /\ after.window = IF Current(read, m) THEN row.window ELSE m
             /\ after.probation =
                  IF Current(read, m) THEN row.probation ELSE read.probation
<1> DEFINE now == IF Current(read, m) THEN row ELSE Opened(row, read.probation, m)
           count == NextCount(read, m)
           warned == Warned(now, count)
           suspends == Suspends(read, m)
<1>1. now \in Row /\ now.policy = row.policy
      /\ now.window = (IF Current(read, m) THEN row.window ELSE m)
      /\ now.probation =
           (IF Current(read, m) THEN row.probation ELSE read.probation)
  <2>1. CASE Current(read, m)
    BY <2>1
  <2>2. CASE ~Current(read, m)
    <3>1. read.probation \in BOOLEAN
      BY DEF Row
    <3>2. now = Opened(row, read.probation, m)
      BY <2>2
    <3>3. QED
      BY <2>2, <3>1, <3>2, OpenedType
  <2>3. QED
    BY <2>1, <2>2
<1>2. count \in Nat
  BY NextCountType
<1>3. warned \in BOOLEAN
  BY <1>1 DEF Warned, Row
<1>4. suspends \in BOOLEAN
  BY DEF Suspends
<1>5. AfterCancellation(read, m) =
        [now EXCEPT !.count = count, !.warned = warned,
                    !.policy = now.policy \/ suspends]
  BY DEF AfterCancellation
<1> HIDE DEF now, count, warned, suspends
<1>6. LET after == [now EXCEPT !.count = count, !.warned = warned,
                               !.policy = now.policy \/ suspends]
      IN  /\ after \in Row
          /\ after.policy = (now.policy \/ suspends)
          /\ after.count = count
          /\ after.window = now.window
          /\ after.probation = now.probation
  BY <1>1, <1>2, <1>3, <1>4 DEF Row
<1>7. QED
  BY <1>1, <1>5, <1>6 DEF count, suspends

\* What a request in progress knows.
LEMMA RequestTypes ==
  ASSUME TypeOK, NEW c \in Call
  PROVE  /\ request[c] \in Request
         /\ request[c].month \in 1 .. MaxMonth
         /\ seen[c] \in Row
         /\ seen[c].probation \in BOOLEAN
  BY DEF TypeOK, Request, Row

LEMMA ViewRow ==
  ASSUME TypeOK, NEW c \in Call, CommitView(c)
  PROVE  /\ row' \in Row
         /\ row'.policy = row.policy
         /\ row'.count = 0
         /\ row'.window = request[c].month
         /\ row'.probation = seen[c].probation
<1>1. row \in Row /\ seen[c].probation \in BOOLEAN
      /\ request[c].month \in 1 .. MaxMonth
  BY RequestTypes DEF TypeOK
<1>2. row' = Opened(row, seen[c].probation, request[c].month)
  BY DEF CommitView
<1>3. QED
  BY <1>1, <1>2, OpenedType, ZenonT(60)

LEMMA EndTypes ==
  ASSUME TypeOK, NEW c \in Call, NEW stale, End(c, stale)
  PROVE  races' \in Nat /\ request' \in [Call -> Request]
         /\ seen' \in [Call -> Row]
  BY IdleTypes DEF TypeOK, End

-----------------------------------------------------------------------------

LEMMA TypeStep == ASSUME TypeOK, [Next]_vars PROVE TypeOK'
<1>a. Idle \in Request /\ NoRow \in Row
  BY IdleTypes
<1>1. ASSUME NEW c \in Call, NEW stage \in {"cancel", "view", "change"},
             NEW from \in Status, NEW to \in Status, Start(c, stage, from, to)
      PROVE  TypeOK'
  <2>1. [stage |-> stage, month |-> month, from |-> from, to |-> to]
          \in Request
    BY <1>1 DEF TypeOK, Request, Stage
  <2>2. QED
    BY <1>1, <2>1 DEF Start, TypeOK
<1>2. ASSUME NEW c \in Call, ReadRow(c) PROVE TypeOK'
  <2>1. [request[c] EXCEPT !.stage = "counting"] \in Request
        /\ [request[c] EXCEPT !.stage = "opening"] \in Request
    BY RequestTypes DEF Request, Stage
  <2>2. request' \in [Call -> Request]
    BY <1>2, <1>a, <2>1 DEF ReadRow, TypeOK
  <2>3. QED
    BY <1>2, <2>2 DEF ReadRow, TypeOK
<1>3. ASSUME NEW c \in Call, CommitCancel(c) PROVE TypeOK'
  <2>1. row' \in Row
    BY <1>3, RequestTypes, CancellationRow DEF CommitCancel, TypeOK
  <2>2. status' \in Status /\ suspensions' \in Nat
    BY <1>3 DEF CommitCancel, TypeOK, Status
  <2>3. races' \in Nat /\ request' \in [Call -> Request]
        /\ seen' \in [Call -> Row]
    BY <1>3, EndTypes DEF CommitCancel
  <2>4. QED
    BY <1>3, <2>1, <2>2, <2>3 DEF CommitCancel, TypeOK
<1>4. ASSUME NEW c \in Call, CommitView(c) PROVE TypeOK'
  <2>1. row' \in Row
    BY <1>4, ViewRow
  <2>2. QED
    BY <1>4, <2>1, EndTypes DEF CommitView, TypeOK
<1>5. ASSUME NEW c \in Call, LockStore(c) PROVE TypeOK'
  <2>1. [request[c] EXCEPT !.stage = "locked"] \in Request
    BY RequestTypes DEF Request, Stage
  <2>2. QED
    BY <1>5, <2>1 DEF LockStore, TypeOK
<1>6. ASSUME NEW c \in Call, CommitChange(c) PROVE TypeOK'
  <2>0. Forever \in 0 .. Forever
    BY ConstantsAssumption DEF Forever
  <2>1. ProbationRow \in Row
    BY <2>0 DEF ProbationRow, Row
  <2>5. [row EXCEPT !.policy = FALSE] \in Row
    BY DEF Row, TypeOK
  <2>2. request[c].to \in Status
    BY RequestTypes DEF Request
  <2>3. row' \in Row /\ probations' \in Nat
    <3>1. CASE StartsProbation(c)
      BY <1>6, <2>1, <3>1 DEF CommitChange, TypeOK
    <3>2. CASE ~StartsProbation(c)
      <4> DEFINE cleared == [row EXCEPT !.policy = FALSE]
      <4>1. row' = (IF Suspending(c) THEN cleared ELSE row)
            /\ probations' = probations
        BY <1>6, <3>2 DEF CommitChange
      <4>2. cleared \in Row
        BY <2>5
      <4> HIDE DEF cleared
      <4>3. QED
        BY <4>1, <4>2 DEF TypeOK
    <3>3. QED
      BY <3>1, <3>2
  <2>4. QED
    BY <1>6, <2>2, <2>3, EndTypes DEF CommitChange, TypeOK
<1>7. ASSUME NEW c \in Call, RollBack(c) PROVE TypeOK'
  BY <1>7, <1>a DEF RollBack, TypeOK
<1>8. CASE NextMonth
  BY <1>8, ConstantsAssumption DEF NextMonth, TypeOK
<1>9. CASE UNCHANGED vars
  BY <1>9 DEF vars, TypeOK
<1>10. status \in Status /\ "active" \in Status
  BY DEF TypeOK, Status
<1>11. QED
  BY <1>1, <1>2, <1>3, <1>4, <1>5, <1>6, <1>7, <1>8, <1>9, <1>10
     DEF Next, BeginCancel, BeginView, BeginChange

\* Every reachable state of the policy and its requests is well-typed.
THEOREM TypeCorrect == Spec => []TypeOK
<1>1. Init => TypeOK
  BY IdleTypes, ConstantsAssumption DEF Init, TypeOK, Status
<1>2. TypeOK /\ [Next]_vars => TypeOK'
  BY TypeStep
<1>3. QED
  BY <1>1, <1>2, PTL DEF Spec

-----------------------------------------------------------------------------

\* The tenant's row is held by one status change, and the flag that change
\* has read is still there.
LEMMA LockStep == ASSUME IInv, [Next]_vars PROVE LockInv'
<1> USE DEF IInv, LockInv
<1>0. TypeOK
  BY IdleTypes
<1>a. /\ \A c \in Call : request[c] \in Request
      /\ Idle.stage = "idle" /\ NoRow.policy = FALSE
  BY DEF TypeOK, Idle, NoRow
<1>1. ASSUME NEW c \in Call, NEW stage \in {"cancel", "view", "change"},
             NEW from \in Status, NEW to \in Status, Start(c, stage, from, to)
      PROVE  LockInv'
  BY <1>1, <1>a DEF Start, TypeOK
<1>2. ASSUME NEW c \in Call, ReadRow(c) PROVE LockInv'
  BY <1>2, <1>a DEF ReadRow, TypeOK, Request
<1>3. ASSUME NEW c \in Call, CommitCancel(c) PROVE LockInv'
  <2>1. row'.policy = (row.policy \/ Suspends(seen[c], request[c].month))
    BY <1>3, RequestTypes, CancellationRow DEF CommitCancel, TypeOK
  <2>2. \A d \in Call : request[d].stage = "locked" => row'.policy = row.policy
    BY <1>3, <2>1, ConstantsAssumption DEF CommitCancel, TypeOK, Row
  <2>3. QED
    BY <1>3, <1>a, <2>2 DEF CommitCancel, End, TypeOK
<1>4. ASSUME NEW c \in Call, CommitView(c) PROVE LockInv'
  <2>1. row'.policy = row.policy
    BY <1>4, ViewRow
  <2>2. QED
    BY <1>4, <1>a, <2>1 DEF CommitView, End, TypeOK
<1>5. ASSUME NEW c \in Call, LockStore(c) PROVE LockInv'
  BY <1>5, <1>a, ConstantsAssumption DEF LockStore, TypeOK, Request
<1>6. ASSUME NEW c \in Call, CommitChange(c) PROVE LockInv'
  <2>1. \A d \in Call : d # c => request[d].stage # "locked"
    BY <1>6 DEF CommitChange
  <2>2. QED
    BY <1>6, <1>a, <2>1, ConstantsAssumption DEF CommitChange, End, TypeOK
<1>7. ASSUME NEW c \in Call, RollBack(c) PROVE LockInv'
  BY <1>7, <1>a, ConstantsAssumption DEF RollBack, TypeOK
<1>8. CASE NextMonth
  BY <1>8 DEF NextMonth
<1>9. CASE UNCHANGED vars
  BY <1>9 DEF vars
<1>10. QED
  BY <1>1, <1>2, <1>3, <1>4, <1>5, <1>6, <1>7, <1>8, <1>9
     DEF Next, BeginCancel, BeginView, BeginChange, TypeOK, Status

\* Only a view that found its window over opens another.
LEMMA OpeningStep == ASSUME IInv, [Next]_vars PROVE OpeningInv'
<1> USE DEF IInv, OpeningInv
<1>a. Idle.stage = "idle" /\ \A c \in Call : request[c] \in Request
  BY DEF Idle, TypeOK
<1>1. ASSUME NEW c \in Call, ReadRow(c) PROVE OpeningInv'
  BY <1>1, <1>a DEF ReadRow, TypeOK, Request, Current, ProbationWindow
<1>2. ASSUME NEW c \in Call, LockStore(c) PROVE OpeningInv'
  BY <1>2, <1>a DEF LockStore, TypeOK, Request
<1>3. ASSUME NEW c \in Call, NEW stale, End(c, stale) PROVE OpeningInv'
  BY <1>3, <1>a DEF End, TypeOK
<1>4. ASSUME NEW c \in Call, RollBack(c) PROVE OpeningInv'
  BY <1>4, <1>a DEF RollBack, TypeOK
<1>5. ASSUME NEW c \in Call, NEW stage \in {"cancel", "view", "change"},
             NEW from, NEW to, Start(c, stage, from, to)
      PROVE  OpeningInv'
  BY <1>5, <1>a DEF Start, TypeOK
<1>6. ASSUME UNCHANGED <<request, seen>> PROVE OpeningInv'
  BY <1>6
<1>7. QED
  BY <1>1, <1>2, <1>3, <1>4, <1>5, <1>6
     DEF Next, vars, BeginCancel, BeginView, BeginChange, CommitCancel,
         CommitView, CommitChange, NextMonth

\* A window of a probation is never taken for a month's, nor the reverse.
LEMMA WindowStep == ASSUME IInv, [Next]_vars PROVE ProbationWindow'
<1> USE DEF ProbationWindow
<1>a. TypeOK /\ ProbationWindow /\ NoRow.probation = FALSE
      /\ NoRow.window = 0 /\ Forever # 0
      /\ \A m \in 1 .. MaxMonth : m # Forever
  BY ConstantsAssumption DEF IInv, NoRow, Forever
<1>1. ASSUME NEW c \in Call, ReadRow(c) \/ LockStore(c) PROVE ProbationWindow'
  BY <1>1, <1>a DEF ReadRow, LockStore, TypeOK
<1>2. ASSUME NEW c \in Call, CommitCancel(c) PROVE ProbationWindow'
  <2>1. ~Current(seen[c], request[c].month) => ~seen[c].probation
    BY <1>a DEF Current
  <2>2. row'.probation <=> row'.window = Forever
    BY <1>2, <1>a, <2>1, RequestTypes, CancellationRow DEF CommitCancel, TypeOK
  <2>3. QED
    BY <1>2, <1>a, <2>2 DEF CommitCancel, End, TypeOK
<1>3. ASSUME NEW c \in Call, CommitView(c), ~seen[c].probation
      PROVE  ProbationWindow'
  <2>2. row'.probation <=> row'.window = Forever
    BY <1>3, <1>a, RequestTypes, ViewRow
  <2>3. QED
    BY <1>3, <1>a, <2>2 DEF CommitView, End, TypeOK
<1>4. ASSUME NEW c \in Call, CommitChange(c) PROVE ProbationWindow'
  <2>1. ProbationRow.probation /\ ProbationRow.window = Forever
    BY DEF ProbationRow
  <2>2. [row EXCEPT !.policy = FALSE].probation = row.probation
        /\ [row EXCEPT !.policy = FALSE].window = row.window
    BY <1>a DEF TypeOK, Row
  <2>3. row'.probation <=> row'.window = Forever
    BY <1>4, <1>a, <2>1, <2>2 DEF CommitChange
  <2>4. QED
    BY <1>4, <1>a, <2>3 DEF CommitChange, End, TypeOK
<1>5. ASSUME NEW c \in Call, RollBack(c) PROVE ProbationWindow'
  BY <1>5, <1>a DEF RollBack, TypeOK
<1>6. ASSUME UNCHANGED <<row, seen>> PROVE ProbationWindow'
  BY <1>6, <1>a
<1>7. \A c \in Call : request[c].stage = "opening" => ~seen[c].probation
  BY DEF IInv, OpeningInv
<1>8. QED
  BY <1>1, <1>2, <1>3, <1>4, <1>5, <1>6, <1>7
     DEF Next, vars, BeginCancel, BeginView, BeginChange, Start, NextMonth,
         CommitView

\* Every probation begun or due has a suspension of its own.
LEMMA BudgetStep == ASSUME IInv, [Next]_vars PROVE ProbationBudget'
<1> USE DEF ProbationBudget, Flagged
<1>a. TypeOK /\ ProbationBudget
  BY DEF IInv
<1>1. ASSUME NEW c \in Call, CommitCancel(c) PROVE ProbationBudget'
  <2>1. row'.policy = (row.policy \/ Suspends(seen[c], request[c].month))
    BY <1>1, <1>a, RequestTypes, CancellationRow DEF CommitCancel, TypeOK
  <2>2. CASE Suspends(seen[c], request[c].month)
    BY <1>1, <1>a, <2>2 DEF CommitCancel, TypeOK
  <2>3. CASE ~Suspends(seen[c], request[c].month)
    BY <1>1, <1>a, <2>1, <2>3 DEF CommitCancel, TypeOK
  <2>4. QED
    BY <2>2, <2>3
<1>2. ASSUME NEW c \in Call, CommitView(c) PROVE ProbationBudget'
  <2>1. row'.policy = row.policy
    BY <1>2, <1>a, ViewRow
  <2>2. QED
    BY <1>2, <1>a, <2>1 DEF CommitView
<1>3. ASSUME NEW c \in Call, CommitChange(c) PROVE ProbationBudget'
  <2>1. CASE StartsProbation(c)
    <3>1. row.policy
      BY <1>3, <2>1 DEF IInv, LockInv, CommitChange, StartsProbation
    <3>2. QED
      BY <1>3, <1>a, <2>1, <3>1 DEF CommitChange, ProbationRow, TypeOK
  <2>2. CASE ~StartsProbation(c)
    <3>1. [row EXCEPT !.policy = FALSE].policy = FALSE
      BY <1>a DEF TypeOK, Row
    <3>2. probations' = probations /\ (row'.policy => row.policy)
      BY <1>3, <2>2, <3>1 DEF CommitChange
    <3>3. QED
      BY <1>3, <1>a, <3>2 DEF CommitChange, TypeOK
  <2>3. QED
    BY <2>1, <2>2
<1>4. ASSUME UNCHANGED <<row, probations, suspensions>> PROVE ProbationBudget'
  BY <1>4, <1>a
<1>5. QED
  BY <1>1, <1>2, <1>3, <1>4
     DEF Next, vars, BeginCancel, BeginView, BeginChange, Start, ReadRow,
         LockStore, RollBack, NextMonth

LEMMA InvariantHolds == Spec => []IInv
<1>1. Init => IInv
  <2>1. Init => TypeOK
    BY IdleTypes, ConstantsAssumption DEF Init, TypeOK, Status
  <2>2. Init => LockInv /\ ProbationBudget
    BY ConstantsAssumption
       DEF Init, LockInv, ProbationBudget, Flagged, Idle, NoRow
  <2>3. Init => ProbationWindow /\ OpeningInv
    BY ConstantsAssumption
       DEF Init, ProbationWindow, OpeningInv, NoRow, Forever, Idle
  <2>4. QED
    BY <2>1, <2>2, <2>3 DEF IInv
<1>2. IInv /\ [Next]_vars => IInv'
  BY TypeStep, WindowStep, OpeningStep, LockStep, BudgetStep DEF IInv
<1>3. QED
  BY <1>1, <1>2, PTL DEF Spec

\* The types, the custody of the tenant's row and the budget of probations
\* are invariant, however requests overlap.
THEOREM InductiveInvariant == Spec => []IInv
  BY InvariantHolds

\* However requests overlap, a store never begins more probations than it has
\* been suspended by the policy.
THEOREM ProbationsArePaidFor == Spec => []ProbationsArePaid
<1>1. IInv => ProbationsArePaid
  BY DEF IInv, TypeOK, ProbationBudget, Flagged, ProbationsArePaid
<1>2. QED
  BY <1>1, InvariantHolds, PTL

\* A count grows by one, so it reaches the warning threshold before it passes
\* it, and whatever resets it starts below.
LEMMA WarningStep ==
  ASSUME IInv, [Next]_vars, WarnedInTime PROVE WarnedInTime'
<1> SUFFICES ASSUME races' = 0 PROVE row'.count >= WarnAt => row'.warned
  BY DEF WarnedInTime
<1>a. /\ races = 0
      /\ row \in Row
      /\ row.count >= WarnAt => row.warned
  <2>1. TypeOK
    BY DEF IInv
  <2>2. races = 0
    BY <2>1 DEF TypeOK, Next, vars, BeginCancel, BeginView, BeginChange, Start,
       ReadRow, CommitCancel, CommitView, LockStore, CommitChange, End,
       RollBack, NextMonth
  <2>3. QED
    BY <2>1, <2>2 DEF TypeOK, WarnedInTime
<1>1. ASSUME NEW c \in Call, CommitCancel(c)
      PROVE  row'.count >= WarnAt => row'.warned
  <2> DEFINE m == request[c].month
             now == IF Current(row, m) THEN row ELSE Opened(row, row.probation, m)
  <2>1. seen[c] = row
    BY <1>1, <1>a DEF CommitCancel, End, StaleRow
  <2>2. /\ row'.count = NextCount(row, m)
        /\ row'.warned = Warned(now, NextCount(row, m))
    BY <1>1, <1>a, <2>1 DEF CommitCancel, AfterCancellation, Opened, Row
  <2>3. CASE Current(row, m)
    <3>1. row'.count = row.count + 1
      BY <2>2, <2>3 DEF NextCount
    <3>2. row.warned \/ row'.count = WarnAt => row'.warned
      BY <2>2, <2>3 DEF Warned
    <3>3. row.count \in Nat
      BY <1>a DEF Row
    <3>4. QED
      BY <1>a, <3>1, <3>2, <3>3, ConstantsAssumption
  <2>4. CASE ~Current(row, m)
    <3>1. row'.count = 1
      BY <2>2, <2>4 DEF NextCount
    <3>2. row'.count = WarnAt => row'.warned
      BY <2>2 DEF Warned
    <3>3. QED
      BY <3>1, <3>2, ConstantsAssumption
  <2>5. QED
    BY <2>3, <2>4
<1>2. ASSUME NEW c \in Call, CommitView(c)
      PROVE  row'.count >= WarnAt => row'.warned
  <2>1. row'.count = 0
    BY <1>2, <1>a DEF CommitView, Opened, Row
  <2>2. QED
    BY <2>1, ConstantsAssumption
<1>3. ASSUME NEW c \in Call, CommitChange(c)
      PROVE  row'.count >= WarnAt => row'.warned
  <2>1. \/ row'.count = 0
        \/ row'.count = row.count /\ row'.warned = row.warned
    BY <1>3, <1>a DEF CommitChange, ProbationRow, Row
  <2>2. QED
    BY <1>a, <2>1, ConstantsAssumption
<1>4. CASE row' = row
  BY <1>4, <1>a
<1>5. QED
  BY <1>1, <1>2, <1>3, <1>4 DEF Next, vars, BeginCancel, BeginView,
     BeginChange, Start, ReadRow, LockStore, RollBack, NextMonth

\* Until a commit rests on a stale read, a store whose count has reached the
\* warning threshold has had its warning, for any thresholds.
THEOREM WarningsAreInTime == Spec => []WarnedInTime
<1>1. Init => WarnedInTime
  BY ConstantsAssumption DEF Init, NoRow, WarnedInTime
<1>2. QED
  BY <1>1, WarningStep, InvariantHolds, PTL DEF Spec

-----------------------------------------------------------------------------

promised == <<row.window, row.count, Standing>>

\* A cancellation whose read is not stale is the contract's.
LEMMA CancelKeepsPromise ==
  ASSUME IInv, NEW c \in Call, CommitCancel(c), races = 0, races' = 0
  PROVE  Contract!Cancel
<1> DEFINE m == request[c].month
           suspends == Suspends(row, m)
<1>1. TypeOK /\ ProbationWindow
  BY DEF IInv
<1>2. seen[c] = row /\ (row.window <= m \/ row.window = Forever)
  <2>1. ~StaleRow(c)
    BY DEF CommitCancel, End
  <2>2. seen[c] = row
    BY <2>1 DEF StaleRow
  <2>3. row.window \in 0 .. Forever /\ m \in 1 .. MaxMonth
    BY <1>1, RequestTypes DEF TypeOK, Row
  <2>4. QED
    BY <2>1, <2>2, <2>3, ConstantsAssumption DEF StaleRow, Forever
<1>3. /\ row' \in Row
      /\ row'.policy = (row.policy \/ suspends)
      /\ row'.count = NextCount(row, m)
      /\ row'.window = IF Current(row, m) THEN row.window ELSE m
  BY <1>1, <1>2, RequestTypes, CancellationRow DEF CommitCancel, TypeOK
<1>4. m \in 1 .. MaxMonth /\ row.window \in 0 .. Forever /\ row.count \in Nat
      /\ Forever \in Nat /\ m < Forever
  BY <1>1, RequestTypes, ConstantsAssumption DEF TypeOK, Row, Forever
<1>5. Contract!Limit = Limit(row.probation)
  BY <1>1 DEF Contract!Limit, Limit, ProbationWindow
<1>6. CASE suspends
  <2>1. Standing' = "suspended_by_policy"
    BY <1>2, <1>3, <1>6 DEF CommitCancel, Standing
  <2>2. row'.count >= Contract!Limit
    BY <1>3, <1>5, <1>6 DEF Suspends
  <2>3. QED
    BY <1>2, <1>3, <1>4, <2>1, <2>2
       DEF Contract!Cancel, Current, NextCount
<1>7. CASE ~suspends
  <2>1. Standing' = Standing
    BY <1>2, <1>3, <1>7 DEF CommitCancel, Standing
  <2>2. row'.count < Contract!Limit
    <3>1. Limit(row.probation) \in Nat /\ NextCount(row, m) \in Nat
      BY <1>1, NextCountType, ConstantsAssumption DEF Limit, TypeOK
    <3>2. QED
      BY <1>3, <1>5, <1>7, <3>1 DEF Suspends
  <2>3. QED
    BY <1>2, <1>3, <1>4, <2>1, <2>2 DEF Contract!Cancel, Current, NextCount
<1>8. QED
  BY <1>6, <1>7

\* So is a view that opens a month.
LEMMA ViewKeepsPromise ==
  ASSUME IInv, NEW c \in Call, CommitView(c), races = 0, races' = 0
  PROVE  Contract!OpenMonth
<1> DEFINE m == request[c].month
<1>1. TypeOK /\ OpeningInv
  BY DEF IInv
<1>2. seen[c] = row /\ ~Current(row, m)
      /\ (row.window > m => row.window = Forever)
  <2>1. ~StaleRow(c)
    BY DEF CommitView, End
  <2>2. QED
    BY <1>1, <2>1 DEF StaleRow, OpeningInv, CommitView
<1>3. m \in 1 .. MaxMonth /\ row.window \in 0 .. Forever
  BY <1>1, RequestTypes DEF TypeOK, Row
<1>4. row'.window = m /\ row'.count = 0 /\ row'.policy = row.policy
  BY <1>1, ViewRow
<1>5. row.window < m /\ m < Forever
  BY <1>2, <1>3, ConstantsAssumption DEF Current, Forever
<1>6. m \in (row.window + 1) .. (Forever - 1)
  BY <1>3, <1>5, ConstantsAssumption DEF Forever
<1>7. Standing' = Standing
  BY <1>4 DEF CommitView, Standing
<1>8. QED
  BY <1>2, <1>4, <1>6, <1>7 DEF Contract!OpenMonth, Current

\* And a change of status decided on the status the store still has.
LEMMA ChangeKeepsPromise ==
  ASSUME IInv, NEW c \in Call, CommitChange(c), races = 0, races' = 0
  PROVE  [Contract!KeepPromise]_promised
<1>1. TypeOK /\ LockInv
  BY DEF IInv
<1>2. request[c].from = status /\ (seen[c].policy <=> row.policy)
  BY <1>1 DEF CommitChange, End, LockInv
<1>3. request[c].to \in Status /\ status' = request[c].to /\ status \in Status
  BY <1>1, RequestTypes DEF Request, CommitChange, TypeOK
<1>4. CASE StartsProbation(c)
  <2>1. row' = ProbationRow
    BY <1>4 DEF CommitChange
  <2>2. row'.window = Forever /\ row'.count = 0
    BY <2>1 DEF ProbationRow
  <2>3. Standing = "suspended_by_policy" /\ Standing' = "open"
    BY <1>2, <1>3, <1>4 DEF StartsProbation, Standing
  <2>4. Contract!Decide
    BY <2>2, <2>3 DEF Contract!Decide
  <2>5. QED
    BY <2>4 DEF Contract!KeepPromise
<1>5. CASE ~StartsProbation(c) /\ Suspending(c)
  <2>1. row' = [row EXCEPT !.policy = FALSE]
    BY <1>5 DEF CommitChange
  <2>2. row'.window = row.window /\ row'.count = row.count
        /\ row'.policy = FALSE
    BY <1>1, <2>1 DEF TypeOK, Row
  <2>3. Standing \notin {"suspended_by_policy", "suspended_by_admin"}
        /\ Standing' = "suspended_by_admin"
    BY <1>2, <1>3, <1>5, <2>2 DEF Suspending, Standing, Status
  <2>4. Contract!Decide
    BY <2>2, <2>3 DEF Contract!Decide, Contract!Suspended
  <2>5. QED
    BY <2>4 DEF Contract!KeepPromise
<1>6. CASE ~StartsProbation(c) /\ ~Suspending(c)
  <2>1. row' = row
    BY <1>6 DEF CommitChange
  <2>2. CASE status' = status
    BY <2>1, <2>2 DEF promised, Standing
  <2>3. CASE status' # status
    <3>1. status' \in {"active", "pending"}
      BY <1>2, <1>3, <1>6, <2>3 DEF Suspending, Status
    <3>2. Standing' \in {"open", "pending"}
      BY <3>1 DEF Standing
    <3>3. ~(Standing = "suspended_by_policy" /\ Standing' = "open")
      <4>1. SUFFICES ASSUME Standing = "suspended_by_policy",
                            Standing' = "open"
                     PROVE  FALSE
        OBVIOUS
      <4>2. status = "suspended" /\ row.policy
        BY <1>3, <4>1 DEF Standing, Status
      <4>3. status' = "active"
        BY <3>1, <4>1 DEF Standing
      <4>4. QED
        BY <1>2, <1>3, <1>6, <4>2, <4>3 DEF StartsProbation
    <3>4. Contract!Decide
      BY <2>1, <3>2, <3>3 DEF Contract!Decide
    <3>5. QED
      BY <3>4 DEF Contract!KeepPromise
  <2>4. QED
    BY <2>2, <2>3
<1>7. QED
  BY <1>4, <1>5, <1>6

LEMMA ContractStep ==
  ASSUME IInv, [Next]_vars, races = 0, races' = 0
  PROVE  [Contract!KeepPromise]_promised
<1>1. ASSUME NEW c \in Call, CommitCancel(c)
      PROVE  [Contract!KeepPromise]_promised
  BY <1>1, CancelKeepsPromise DEF Contract!KeepPromise
<1>2. ASSUME NEW c \in Call, CommitView(c)
      PROVE  [Contract!KeepPromise]_promised
  BY <1>2, ViewKeepsPromise DEF Contract!KeepPromise
<1>3. ASSUME NEW c \in Call, CommitChange(c)
      PROVE  [Contract!KeepPromise]_promised
  BY <1>3, ChangeKeepsPromise
<1>4. ASSUME UNCHANGED <<row, status>> PROVE [Contract!KeepPromise]_promised
  BY <1>4 DEF promised, Standing
<1>5. QED
  BY <1>1, <1>2, <1>3, <1>4
     DEF Next, vars, BeginCancel, BeginView, BeginChange, Start, ReadRow,
         LockStore, RollBack, NextMonth

LEMMA RacesGrow == ASSUME TypeOK, [Next]_vars PROVE races' \in Nat /\ races <= races'
<1>1. UNCHANGED races \/ races' = races + 1
  BY DEF Next, vars, BeginCancel, BeginView, BeginChange, Start, ReadRow, End,
         CommitCancel, CommitView, LockStore, CommitChange, RollBack, NextMonth
<1>2. QED
  BY <1>1 DEF TypeOK

\* Until a commit rests on a stale read, the policy implements its contract,
\* for any number of requests, months and thresholds.
THEOREM Implementation == Spec => ImplementsContract
<1>1. Init => Contract!Init
  BY DEF Init, Contract!Init, NoRow, Standing
<1>2. IInv /\ [Next]_vars => [Contract!Next]_Contract!vars
  <2> SUFFICES ASSUME IInv, [Next]_vars PROVE [Contract!Next]_Contract!vars
    OBVIOUS
  <2>1. races \in Nat /\ races' \in Nat /\ races <= races'
    BY RacesGrow DEF IInv, TypeOK
  <2>2. CASE races' > 0
    BY <2>2 DEF Contract!Next
  <2>3. CASE ~(races' > 0)
    <3>1. races' = 0 /\ races = 0
      BY <2>1, <2>3
    <3>2. [Contract!KeepPromise]_promised
      BY <3>1, ContractStep
    <3>3. QED
      BY <3>1, <3>2 DEF promised, Contract!Next, Contract!vars
  <2>4. QED
    BY <2>2, <2>3
<1>3. QED
  BY <1>1, <1>2, InvariantHolds, PTL DEF Spec, ImplementsContract, Contract!Spec
=============================================================================

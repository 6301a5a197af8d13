---------------------------- MODULE OutboxProofs ----------------------------
(***************************************************************************)
(* Proofs about the outbox for any number of rows, workers, targets,       *)
(* attempts and faults: the invariants and the step properties that TLC    *)
(* checks on small instances, from the inductive invariant IInv.           *)
(***************************************************************************)
EXTENDS Outbox, FiniteSetTheorems, TLAPS

\* Every reachable state is well-typed: the columns, the workers' state and
\* the jobs of every row keep to their domains.
THEOREM TypeCorrect == Spec => []TypeOK
<1> USE ConstantsAssumption
<1>1. Init => TypeOK
  BY DEF Init, TypeOK, Status, Terminal
<1>2. TypeOK /\ [Next]_vars => TypeOK'
  <2> SUFFICES ASSUME TypeOK, [Next]_vars PROVE TypeOK'
    OBVIOUS
  <2> USE DEF TypeOK, rowVars, processVars, targetVars, countVars, Fault
  <2>1. ASSUME NEW e \in Event, Enqueue(e) PROVE TypeOK'
    BY <2>1 DEF Enqueue, Status
  <2>2. ASSUME NEW e \in Event, DelayElapses(e) \/ GrowsOld(e)
        PROVE TypeOK'
    BY <2>2 DEF DelayElapses, GrowsOld
  <2>3. ASSUME NEW e \in Event, LockTimesOut(e) PROVE TypeOK'
    BY <2>3 DEF LockTimesOut
  <2>0. ASSUME NEW e, NEW served, NEW gone, Excuse(e, served, gone)
        PROVE  missing' \in [Event -> SUBSET Target]
               /\ subscribed' \in SUBSET Target
    BY <2>0 DEF Excuse
  <2>18. ASSUME NEW t \in Target, Subscribe(t) \/ Unsubscribe(t) PROVE TypeOK'
    BY <2>18, <2>0 DEF Subscribe, Unsubscribe
  <2>4. ASSUME NEW w \in Worker, NEW batch \in Batches, ClaimRows(w, batch)
        PROVE /\ status' \in [Event -> Status]
              /\ attempts' \in [Event -> Nat]
              /\ lockedBy' \in [Event -> Worker \union {None}]
              /\ lockStale' \in [Event -> BOOLEAN]
              /\ expiries' \in [Event -> Nat]
              /\ UNCHANGED <<due, tooOld, subscribed, missing, deliveries>>
    <3>1. status' \in [Event -> Status]
      BY <2>4 DEF ClaimRows, Status
    <3>2. lockStale' \in [Event -> BOOLEAN]
      BY <2>4 DEF ClaimRows
    <3>3. QED
      BY <2>4, <3>1, <3>2 DEF ClaimRows
  <2>5. ASSUME NEW w \in Worker, Tick(w) PROVE TypeOK'
    <3>1. PICK batch \in Batches :
            /\ ClaimRows(w, batch)
            /\ jobs' = [e \in Event |->
                 IF e \in batch THEN jobs[e] \union {NewJob(w, e)} ELSE jobs[e]]
            /\ awaits' = [awaits EXCEPT
                 ![w] = {<<e, attempts[e] + 1>> : e \in batch}]
      BY <2>5 DEF Tick
    <3>2. batch \subseteq Event
      BY DEF Batches, Candidates
    <3>3. \A e \in Event : NewJob(w, e) \in Job
      BY DEF NewJob, Job
    <3>4. jobs' \in [Event -> SUBSET Job]
      BY <3>1, <3>3
    <3>5. awaits' \in [Worker -> SUBSET (Event \X Nat)]
      BY <3>1, <3>2
    <3>6. alive' \in [Worker -> BOOLEAN] /\ ticking' \in [Worker -> BOOLEAN]
          /\ faults' \in Nat
      BY <2>5 DEF Tick
    <3>7. QED
      BY <3>1, <3>4, <3>5, <3>6, <2>4
  <2>6. ASSUME NEW w \in Worker, TickLosesClaim(w) PROVE TypeOK'
    <3>1. PICK batch \in Batches : ClaimRows(w, batch)
      BY <2>6 DEF TickLosesClaim
    <3>2. faults' \in Nat /\ UNCHANGED processVars
      BY <2>6 DEF TickLosesClaim
    <3>3. QED
      BY <3>1, <3>2, <2>4
  <2>7. ASSUME NEW w \in Worker, EndTick(w) PROVE TypeOK'
    <3>1. missing' \in [Event -> SUBSET Target] /\ subscribed' \in SUBSET Target
      BY <2>7, <2>0 DEF EndTick
    <3>2. status' \in [Event -> Status] /\ ticking' \in [Worker -> BOOLEAN]
      BY <2>7 DEF EndTick, Status
    <3>3. QED
      BY <2>7, <3>1, <3>2 DEF EndTick
  <2>8. ASSUME NEW w \in Worker, Crash(w) PROVE TypeOK'
    BY <2>8 DEF Crash
  <2>9. ASSUME NEW e \in Event, NEW j \in jobs[e], NEW st, Advance(e, j, st),
               st \in {"accepted", "retry", "dead"}
        PROVE jobs' \in [Event -> SUBSET Job] /\ awaits' = awaits
    <3>1. j \in Job
      OBVIOUS
    <3>2. [j EXCEPT !.stage = st, !.targets = {}] \in Job
      BY <3>1, <2>9 DEF Job
    <3>3. QED
      BY <3>2, <2>9 DEF Advance, Become
  <2>10. ASSUME NEW e \in Event, NEW j \in jobs[e], Finish(e, j)
         PROVE jobs' \in [Event -> SUBSET Job]
               /\ awaits' \in [Worker -> SUBSET (Event \X Nat)]
    BY <2>10 DEF Finish, Job
  <2>11. ASSUME NEW e \in Event, NEW j \in jobs[e],
                WriteOutcome(e, j, Outcome(j)),
                j.stage \in {"accepted", "retry", "dead"}
         PROVE /\ status' \in [Event -> Status]
               /\ attempts' \in [Event -> Nat]
               /\ lockedBy' \in [Event -> Worker \union {None}]
               /\ lockStale' \in [Event -> BOOLEAN]
               /\ due' \in [Event -> BOOLEAN]
               /\ tooOld' \in [Event -> BOOLEAN]
    <3>1. Outcome(j) \in Status
      BY <2>11 DEF Outcome, Status, Terminal, Job
    <3>2. due' \in [Event -> BOOLEAN]
      BY <2>11 DEF WriteOutcome
    <3>3. /\ status' \in [Event -> Status]
          /\ lockedBy' \in [Event -> Worker \union {None}]
      BY <2>11, <3>1 DEF WriteOutcome
    <3>4. lockStale' \in [Event -> BOOLEAN]
      BY <2>11 DEF WriteOutcome
    <3>5. attempts' = attempts /\ tooOld' = tooOld
      BY <2>11 DEF WriteOutcome
    <3>6. QED
      BY <3>2, <3>3, <3>4, <3>5
  <2>12. ASSUME NEW e \in Event, NEW j \in jobs[e], Deliver(e, j)
         PROVE TypeOK'
    <3>1. \A retryable \in BOOLEAN :
            AfterFailure(e, j, retryable) \in {"retry", "dead"}
      BY DEF AfterFailure
    <3>2. missing' \in [Event -> SUBSET Target] /\ subscribed' \in SUBSET Target
      BY <2>12, <2>0 DEF Deliver, DeliverAccepted, DeliverFails
    <3>3. CASE DeliverAccepted(e, j)
      BY <3>2, <3>3, <2>9 DEF DeliverAccepted
    <3>4. CASE DeliverFails(e, j)
      BY <3>1, <3>2, <3>4, <2>9 DEF DeliverFails
    <3>5. QED
      BY <2>12, <3>3, <3>4 DEF Deliver
  <2>19. ASSUME NEW e \in Event, NEW j \in jobs[e], Prepare(e, j)
         PROVE TypeOK'
    <3>1. CASE RefuseOld(e, j)
      BY <3>1, <2>9 DEF RefuseOld
    <3>2. CASE ResolveFails(e, j)
      BY <3>2, <2>9 DEF ResolveFails
    <3>3. CASE Resolve(e, j)
      <4>1. j \in Job
        OBVIOUS
      <4>2. [j EXCEPT !.stage = "resolved", !.targets = subscribed] \in Job
        BY <4>1 DEF Job
      <4>3. jobs' \in [Event -> SUBSET Job] /\ awaits' = awaits
        BY <3>3, <4>2 DEF Resolve, Become
      <4>4. QED
        BY <3>3, <4>3 DEF Resolve
    <3>4. QED
      BY <2>19, <3>1, <3>2, <3>3 DEF Prepare
  <2>13. ASSUME NEW e \in Event, NEW j \in jobs[e], Mark(e, j)
         PROVE TypeOK'
    BY <2>13, <2>10, <2>11 DEF Mark, MarkSent, MarkForRetry, MarkDeadLetter
  <2>14. ASSUME NEW e \in Event, NEW j \in jobs[e], MarkSentFails(e, j)
         PROVE TypeOK'
    BY <2>14, <2>9, <2>11 DEF MarkSentFails, FaultyWrite
  <2>15. ASSUME NEW e \in Event, NEW j \in jobs[e], MarkFailureFails(e, j)
         PROVE TypeOK'
    <3>1. /\ j \in Job /\ j.worker \in Worker
          /\ j.stage \in {"accepted", "retry", "dead"}
      BY <2>15 DEF MarkFailureFails, Job
    <3>2. /\ jobs' \in [Event -> SUBSET Job]
          /\ ticking' \in [Worker -> BOOLEAN]
          /\ awaits' \in [Worker -> SUBSET (Event \X Nat)]
          /\ alive' \in [Worker -> BOOLEAN]
      BY <2>15, <3>1 DEF MarkFailureFails
    <3>3. /\ expiries' \in [Event -> Nat]
          /\ deliveries' \in [Event -> Nat]
          /\ missing' \in [Event -> SUBSET Target]
          /\ subscribed' \in SUBSET Target
          /\ faults' \in Nat
      BY <2>15 DEF MarkFailureFails, FaultyWrite
    <3>4. WriteOutcome(e, j, Outcome(j)) \/ UNCHANGED rowVars
      BY <2>15 DEF MarkFailureFails, FaultyWrite
    <3>5. QED
      BY <3>1, <3>2, <3>3, <3>4, <2>11
  <2>16. CASE UNCHANGED vars
    BY <2>16 DEF vars
  <2>17. QED
    BY <2>1, <2>2, <2>3, <2>5, <2>6, <2>7, <2>8, <2>12, <2>13, <2>14, <2>15,
       <2>16, <2>18, <2>19 DEF Next
<1>3. QED
  BY <1>1, <1>2, PTL DEF Spec

-----------------------------------------------------------------------------
(* Counting jobs                                                           *)

LEMMA CardSubset ==
  ASSUME NEW S, IsFiniteSet(S), NEW T \in SUBSET S
  PROVE  /\ IsFiniteSet(T)
         /\ Cardinality(S) \in Nat
         /\ Cardinality(T) \in Nat
         /\ Cardinality(T) <= Cardinality(S)
BY FS_Subset, FS_CardinalityType

LEMMA CardWithout ==
  ASSUME NEW S, IsFiniteSet(S), NEW x \in S, NEW T \in SUBSET (S \ {x})
  PROVE  /\ IsFiniteSet(T)
         /\ Cardinality(T) <= Cardinality(S) - 1
<1>1. IsFiniteSet(S \ {x}) /\ Cardinality(S \ {x}) = Cardinality(S) - 1
  BY FS_RemoveElement
<1>2. QED
  BY <1>1, CardSubset

LEMMA CardPlus ==
  ASSUME NEW S, IsFiniteSet(S), NEW y, NEW T \in SUBSET (S \union {y})
  PROVE  /\ IsFiniteSet(T)
         /\ Cardinality(T) \in Nat
         /\ Cardinality(T) <= Cardinality(S) + 1
<1>1. Cardinality(S) \in Nat
  BY FS_CardinalityType
<1>2. /\ IsFiniteSet(S \union {y})
      /\ Cardinality(S \union {y}) =
           IF y \in S THEN Cardinality(S) ELSE Cardinality(S) + 1
  BY FS_AddElement
<1>3. /\ IsFiniteSet(T) /\ Cardinality(T) \in Nat
      /\ Cardinality(T) <= Cardinality(S \union {y})
  BY <1>2, CardSubset
<1>4. QED
  BY <1>1, <1>2, <1>3

LEMMA CardSwap ==
  ASSUME NEW S, IsFiniteSet(S), NEW x \in S, NEW y,
         NEW T \in SUBSET ((S \ {x}) \union {y})
  PROVE  /\ IsFiniteSet(T)
         /\ Cardinality(T) <= Cardinality(S)
<1>1. IsFiniteSet(S \ {x}) /\ Cardinality(S \ {x}) = Cardinality(S) - 1
  BY FS_RemoveElement
<1>2. Cardinality(S) \in Nat /\ Cardinality(S \ {x}) \in Nat
  BY <1>1, FS_CardinalityType
<1>3. IsFiniteSet(T) /\ Cardinality(T) \in Nat
      /\ Cardinality(T) <= Cardinality(S \ {x}) + 1
  BY <1>1, CardPlus
<1>4. QED
  BY <1>1, <1>2, <1>3

\* The job sets of a row are finite, so their sizes are numbers.
LEMMA JobSetsFinite ==
  ASSUME NEW e \in Event, IsFiniteSet(jobs[e])
  PROVE  /\ IsFiniteSet(OpenJobs(e)) /\ IsFiniteSet(RetryingJobs(e))
         /\ Cardinality(OpenJobs(e)) \in Nat
         /\ Cardinality(RetryingJobs(e)) \in Nat
<1>1. OpenJobs(e) \in SUBSET jobs[e] /\ RetryingJobs(e) \in SUBSET jobs[e]
  BY DEF OpenJobs, RetryingJobs
<1>2. QED
  BY <1>1, CardSubset

LEMMA JobSetsFiniteNext ==
  ASSUME NEW e \in Event, IsFiniteSet(jobs'[e])
  PROVE  /\ Cardinality(OpenJobs(e)') \in Nat
         /\ Cardinality(RetryingJobs(e)') \in Nat
<1>1. /\ OpenJobs(e)' \in SUBSET jobs'[e]
      /\ RetryingJobs(e)' \in SUBSET jobs'[e]
  BY DEF OpenJobs, RetryingJobs
<1>2. QED
  BY <1>1, CardSubset

\* A job that stops being open frees its place in both budgets.
LEMMA JobCloses ==
  ASSUME TypeOK, NEW e \in Event, IsFiniteSet(jobs[e]), NEW j \in jobs[e],
         NEW k, k.stage \in {"accepted", "dead"},
         jobs'[e] \subseteq (jobs[e] \ {j}) \union {k}
  PROVE  /\ IsFiniteSet(jobs'[e])
         /\ Cardinality(OpenJobs(e)') <= Cardinality(OpenJobs(e))
         /\ Cardinality(RetryingJobs(e)') <= Cardinality(RetryingJobs(e))
         /\ j.stage \in {"claimed", "resolved", "retry"} =>
              Cardinality(OpenJobs(e)') <= Cardinality(OpenJobs(e)) - 1
         /\ j.stage \in {"claimed", "resolved", "retry"} /\ j.attempt < MaxAttempts =>
              Cardinality(RetryingJobs(e)') <= Cardinality(RetryingJobs(e)) - 1
<1>1. IsFiniteSet(jobs'[e])
  BY CardSwap
<1>2. /\ OpenJobs(e)' \subseteq OpenJobs(e)
      /\ RetryingJobs(e)' \subseteq RetryingJobs(e)
  BY DEF OpenJobs, RetryingJobs
<1>3. IsFiniteSet(OpenJobs(e)) /\ IsFiniteSet(RetryingJobs(e))
  BY JobSetsFinite
<1>4. ASSUME j.stage \in {"claimed", "resolved", "retry"}
      PROVE  j \in OpenJobs(e) /\ OpenJobs(e)' \subseteq OpenJobs(e) \ {j}
  BY <1>4 DEF OpenJobs
<1>5. ASSUME j.stage \in {"claimed", "resolved", "retry"}, j.attempt < MaxAttempts
      PROVE  /\ j \in RetryingJobs(e)
             /\ RetryingJobs(e)' \subseteq RetryingJobs(e) \ {j}
  BY <1>5 DEF OpenJobs, RetryingJobs
<1>6. QED
  BY <1>1, <1>2, <1>3, <1>4, <1>5, CardSubset, CardWithout

\* A job that goes on or will retry keeps its place.
LEMMA JobKeeps ==
  ASSUME TypeOK, NEW e \in Event, IsFiniteSet(jobs[e]), NEW j \in jobs[e],
         j.stage \in {"claimed", "resolved"},
         NEW k, k.attempt = j.attempt,
         jobs'[e] \subseteq (jobs[e] \ {j}) \union {k}
  PROVE  /\ IsFiniteSet(jobs'[e])
         /\ Cardinality(OpenJobs(e)') <= Cardinality(OpenJobs(e))
         /\ Cardinality(RetryingJobs(e)') <= Cardinality(RetryingJobs(e))
<1>1. IsFiniteSet(jobs'[e])
  BY CardSwap
<1>2. j \in OpenJobs(e) /\ (j.attempt < MaxAttempts => j \in RetryingJobs(e))
  BY DEF OpenJobs, RetryingJobs
<1>3. /\ OpenJobs(e)' \subseteq (OpenJobs(e) \ {j}) \union {k}
      /\ IF j.attempt < MaxAttempts
         THEN RetryingJobs(e)' \subseteq (RetryingJobs(e) \ {j}) \union {k}
         ELSE RetryingJobs(e)' \subseteq RetryingJobs(e)
  BY DEF OpenJobs, RetryingJobs
<1>4. IsFiniteSet(OpenJobs(e)) /\ IsFiniteSet(RetryingJobs(e))
  BY JobSetsFinite
<1>5. Cardinality(OpenJobs(e)') <= Cardinality(OpenJobs(e))
  BY <1>2, <1>3, <1>4, CardSwap
<1>6. CASE j.attempt < MaxAttempts
  BY <1>1, <1>2, <1>3, <1>4, <1>5, <1>6, CardSwap
<1>7. CASE ~(j.attempt < MaxAttempts)
  BY <1>1, <1>3, <1>4, <1>5, <1>7, CardSubset
<1>8. QED
  BY <1>6, <1>7

\* A claim adds one open job, and one that may retry only below the limit.
LEMMA JobStarts ==
  ASSUME TypeOK, NEW e \in Event, IsFiniteSet(jobs[e]), NEW k,
         jobs'[e] \subseteq jobs[e] \union {k}
  PROVE  /\ IsFiniteSet(jobs'[e])
         /\ Cardinality(OpenJobs(e)') <= Cardinality(OpenJobs(e)) + 1
         /\ Cardinality(RetryingJobs(e)') <= Cardinality(RetryingJobs(e)) + 1
         /\ ~(k.attempt < MaxAttempts) =>
              Cardinality(RetryingJobs(e)') <= Cardinality(RetryingJobs(e))
<1>1. IsFiniteSet(jobs[e] \union {k}) /\ IsFiniteSet(jobs'[e])
  BY FS_AddElement, CardSubset
<1>2. /\ IsFiniteSet(OpenJobs(e)) /\ Cardinality(OpenJobs(e)) \in Nat
      /\ IsFiniteSet(RetryingJobs(e)) /\ Cardinality(RetryingJobs(e)) \in Nat
  BY JobSetsFinite
<1>3. OpenJobs(e)' \in SUBSET (OpenJobs(e) \union {k})
  BY DEF OpenJobs
<1>4. RetryingJobs(e)' \in SUBSET (RetryingJobs(e) \union {k})
  BY DEF OpenJobs, RetryingJobs
<1>5. ~(k.attempt < MaxAttempts) =>
        RetryingJobs(e)' \in SUBSET RetryingJobs(e)
  BY DEF OpenJobs, RetryingJobs
<1>6. Cardinality(OpenJobs(e)') <= Cardinality(OpenJobs(e)) + 1
  BY <1>2, <1>3, CardPlus
<1>7. Cardinality(RetryingJobs(e)') <= Cardinality(RetryingJobs(e)) + 1
  BY <1>2, <1>4, CardPlus
<1>8. ~(k.attempt < MaxAttempts) =>
        Cardinality(RetryingJobs(e)') <= Cardinality(RetryingJobs(e))
  BY <1>2, <1>5, CardSubset
<1>9. QED
  BY <1>1, <1>6, <1>7, <1>8

\* Losing jobs and missing fewer devices never hurts a row.
LEMMA RowKept ==
  ASSUME TypeOK, TypeOK', NEW e \in Event, RowInv(e),
         jobs'[e] \subseteq jobs[e],
         missing'[e] \subseteq missing[e], missing'[e] \subseteq subscribed',
         UNCHANGED <<status[e], attempts[e], lockedBy[e], expiries[e],
                     deliveries[e]>>
  PROVE  RowInv(e)'
<1>1. IsFiniteSet(jobs[e]) /\ jobs'[e] \in SUBSET jobs[e]
  BY DEF RowInv, JobInv
<1>2. OpenJobs(e)' \in SUBSET OpenJobs(e)
      /\ RetryingJobs(e)' \in SUBSET RetryingJobs(e)
  BY DEF OpenJobs, RetryingJobs
<1>3. /\ Cardinality(OpenJobs(e)') <= Cardinality(OpenJobs(e))
      /\ Cardinality(OpenJobs(e)') \in Nat
      /\ Cardinality(OpenJobs(e)) \in Nat
      /\ Cardinality(RetryingJobs(e)') <= Cardinality(RetryingJobs(e))
      /\ Cardinality(RetryingJobs(e)') \in Nat
      /\ Cardinality(RetryingJobs(e)) \in Nat
  BY <1>1, <1>2, JobSetsFinite, CardSubset
<1>5. IsFiniteSet(jobs'[e])
  BY <1>1, CardSubset
<1>6. /\ LockInv(e)' /\ JobInv(e)' /\ missing'[e] \subseteq subscribed'
      /\ status'[e] = "sent" => missing'[e] = {}
  BY <1>1, <1>5 DEF RowInv, LockInv, JobInv
<1>7. DeliveryBudget(e)'
  BY <1>3 DEF RowInv, DeliveryBudget, Free, TypeOK
<1>8. ClaimBudget(e)'
  BY <1>3, ConstantsAssumption DEF RowInv, ClaimBudget, Free, TypeOK
<1>9. QED
  BY <1>6, <1>7, <1>8 DEF RowInv

-----------------------------------------------------------------------------
(* The inductive invariant                                                 *)

\* The budgets are stated over numbers.
LEMMA BudgetTypes ==
  ASSUME TypeOK, NEW e \in Event, RowInv(e)
  PROVE  /\ IsFiniteSet(jobs[e])
         /\ Cardinality(OpenJobs(e)) \in Nat
         /\ Cardinality(RetryingJobs(e)) \in Nat
         /\ attempts[e] \in Nat /\ deliveries[e] \in Nat
         /\ expiries[e] \in Nat /\ MaxAttempts \in Nat \ {0}
BY JobSetsFinite, ConstantsAssumption DEF RowInv, JobInv, TypeOK

\* The effect of a claim statement on one row, whether or not its reply reaches
\* the worker.
LEMMA ClaimRow ==
  ASSUME TypeOK, TypeOK', NEW w \in Worker, NEW batch \in Batches,
         ClaimRows(w, batch), NEW e \in Event, RowInv(e),
         \/ jobs'[e] = jobs[e]
         \/ e \in batch /\ jobs'[e] = jobs[e] \union {NewJob(w, e)}
  PROVE  RowInv(e)'
<1>1. e \in batch => e \in Candidates
  BY DEF Batches
<1>2. /\ IsFiniteSet(jobs[e])
      /\ Cardinality(OpenJobs(e)) \in Nat /\ Cardinality(RetryingJobs(e)) \in Nat
      /\ attempts[e] \in Nat /\ deliveries[e] \in Nat /\ expiries[e] \in Nat
      /\ MaxAttempts \in Nat \ {0}
  BY BudgetTypes
<1>3. CASE e \in batch
  <2>1. /\ status[e] = "pending" /\ status'[e] = "processing"
        /\ attempts'[e] = attempts[e] + 1 /\ lockedBy'[e] = w
        /\ expiries'[e] = expiries[e] /\ deliveries'[e] = deliveries[e]
        /\ missing'[e] = missing[e] /\ subscribed' = subscribed
    BY <1>1, <1>3 DEF Candidates, Stale, ClaimRows, targetVars
  <2>2. /\ jobs'[e] \subseteq jobs[e] \union {NewJob(w, e)}
        /\ NewJob(w, e).attempt = attempts[e] + 1
        /\ NewJob(w, e).stage = "claimed"
    BY DEF NewJob
  <2>3. /\ IsFiniteSet(jobs'[e])
        /\ Cardinality(OpenJobs(e)') <= Cardinality(OpenJobs(e)) + 1
        /\ Cardinality(RetryingJobs(e)') <= Cardinality(RetryingJobs(e)) + 1
        /\ ~(attempts[e] + 1 < MaxAttempts) =>
             Cardinality(RetryingJobs(e)') <= Cardinality(RetryingJobs(e))
    BY <1>2, <2>2, JobStarts
  <2>4. /\ Cardinality(OpenJobs(e)') \in Nat
        /\ Cardinality(RetryingJobs(e)') \in Nat
    BY <2>3, JobSetsFiniteNext
  <2>5. LockInv(e)'
    BY <2>1, ConstantsAssumption DEF LockInv
  <2>6. JobInv(e)'
    <3>1. SUFFICES ASSUME NEW j \in jobs'[e]
                   PROVE  /\ j.attempt <= attempts'[e]
                          /\ j.stage = "resolved" => missing'[e] \subseteq j.targets
                          /\ j.stage = "accepted" => missing'[e] = {}
                          /\ j.stage = "retry" => j.attempt < MaxAttempts
      BY <2>1, <2>3 DEF JobInv
    <3>2. CASE j = NewJob(w, e)
      BY <1>2, <2>1, <2>2, <3>2
    <3>3. CASE j \in jobs[e]
      <4>1. j.attempt \in Nat
        BY <3>3 DEF TypeOK, Job
      <4>2. QED
        BY <1>2, <2>1, <3>3, <4>1 DEF RowInv, JobInv
    <3>4. QED
      BY <2>2, <3>2, <3>3
  <2>7. DeliveryBudget(e)'
    BY <1>2, <2>1, <2>3, <2>4 DEF RowInv, DeliveryBudget, Free
  <2>8. ClaimBudget(e)'
    BY <1>2, <2>1, <2>3, <2>4 DEF RowInv, ClaimBudget, Free
  <2>9. QED
    BY <2>1, <2>5, <2>6, <2>7, <2>8 DEF RowInv
<1>4. CASE e \notin batch /\ e \in Stale
  <2>1. /\ status[e] = "processing" /\ status'[e] = "pending"
        /\ attempts'[e] = attempts[e] /\ lockedBy'[e] = None
        /\ expiries'[e] = expiries[e] + 1 /\ deliveries'[e] = deliveries[e]
        /\ missing'[e] = missing[e] /\ subscribed' = subscribed
        /\ jobs'[e] = jobs[e]
    BY <1>4 DEF Stale, ClaimRows, targetVars
  <2>2. OpenJobs(e)' = OpenJobs(e) /\ RetryingJobs(e)' = RetryingJobs(e)
    BY <2>1 DEF OpenJobs, RetryingJobs
  <2>3. LockInv(e)' /\ JobInv(e)'
    BY <2>1 DEF RowInv, LockInv, JobInv
  <2>4. DeliveryBudget(e)' /\ ClaimBudget(e)'
    BY <1>2, <2>1, <2>2 DEF RowInv, DeliveryBudget, ClaimBudget, Free
  <2>5. QED
    BY <2>1, <2>3, <2>4 DEF RowInv
<1>5. CASE e \notin batch /\ e \notin Stale
  <2>1. UNCHANGED <<status[e], attempts[e], lockedBy[e], expiries[e],
                    deliveries[e], missing[e], subscribed, jobs[e]>>
    BY <1>5 DEF ClaimRows, targetVars
  <2>2. QED
    BY <2>1, RowKept DEF RowInv
<1>6. QED
  BY <1>3, <1>4, <1>5

\* What a delivery does to the devices a row misses.
LEMMA ExcuseRow ==
  ASSUME TypeOK, NEW e, NEW served, NEW gone, Excuse(e, served, gone),
         NEW f \in Event, missing[f] \subseteq subscribed
  PROVE  /\ missing'[f] \subseteq missing[f]
         /\ missing'[f] \subseteq subscribed'
         /\ f = e => missing'[f] = missing[f] \ (gone \union served)
<1>1. missing'[f] = missing[f] \ (gone \union (IF f = e THEN served ELSE {}))
  BY DEF Excuse
<1>2. QED
  BY <1>1 DEF Excuse

\* A job goes on to its next stage: an accepted one is counted as a delivery
\* and leaves no device of the row missing.
LEMMA AdvanceRow ==
  ASSUME TypeOK, TypeOK', NEW e \in Event, RowInv(e), NEW j \in jobs[e],
         j.stage \in {"claimed", "resolved"},
         NEW k, jobs'[e] \subseteq (jobs[e] \ {j}) \union {k},
         k.attempt = j.attempt,
         k.stage \in {"resolved", "retry", "accepted", "dead"},
         k.stage = "resolved" => missing'[e] \subseteq k.targets,
         k.stage = "retry" => j.attempt < MaxAttempts,
         k.stage = "accepted" => missing'[e] = {},
         deliveries'[e] = deliveries[e] + (IF k.stage = "accepted" THEN 1 ELSE 0),
         missing'[e] \subseteq missing[e], missing'[e] \subseteq subscribed',
         UNCHANGED <<status[e], attempts[e], lockedBy[e], expiries[e]>>
  PROVE  RowInv(e)'
<1>1. /\ IsFiniteSet(jobs[e])
      /\ Cardinality(OpenJobs(e)) \in Nat /\ Cardinality(RetryingJobs(e)) \in Nat
      /\ attempts[e] \in Nat /\ deliveries[e] \in Nat /\ expiries[e] \in Nat
      /\ MaxAttempts \in Nat \ {0}
  BY BudgetTypes
<1>2. j.attempt \in Nat
  BY DEF TypeOK, Job
<1>3. jobs'[e] \subseteq (jobs[e] \ {j}) \union {k}
  OBVIOUS
<1>4. /\ IsFiniteSet(jobs'[e])
      /\ Cardinality(RetryingJobs(e)') <= Cardinality(RetryingJobs(e))
      /\ Cardinality(OpenJobs(e)') <= Cardinality(OpenJobs(e))
      /\ k.stage \in {"accepted", "dead"} =>
           Cardinality(OpenJobs(e)') <= Cardinality(OpenJobs(e)) - 1
  <2>1. CASE k.stage \in {"accepted", "dead"}
    <3>1. j.stage \in {"claimed", "resolved", "retry"}
      OBVIOUS
    <3>2. /\ IsFiniteSet(jobs'[e])
          /\ Cardinality(OpenJobs(e)') <= Cardinality(OpenJobs(e)) - 1
          /\ Cardinality(RetryingJobs(e)') <= Cardinality(RetryingJobs(e))
      BY <1>1, <1>3, <2>1, <3>1, JobCloses
    <3>3. QED
      BY <1>1, <2>1, <3>2, JobSetsFiniteNext
  <2>2. CASE k.stage \in {"resolved", "retry"}
    BY <1>1, <1>3, <2>2, JobKeeps
  <2>3. QED
    BY <2>1, <2>2
<1>5. Cardinality(OpenJobs(e)') \in Nat /\ Cardinality(RetryingJobs(e)') \in Nat
  BY <1>4, JobSetsFiniteNext
<1>6. LockInv(e)' /\ (status'[e] = "sent" => missing'[e] = {})
  BY DEF RowInv, LockInv
<1>7. JobInv(e)'
  <2>1. SUFFICES ASSUME NEW i \in jobs'[e]
                 PROVE  /\ i.attempt <= attempts'[e]
                        /\ i.stage = "resolved" => missing'[e] \subseteq i.targets
                        /\ i.stage = "accepted" => missing'[e] = {}
                        /\ i.stage = "retry" => i.attempt < MaxAttempts
    BY <1>4 DEF RowInv, JobInv
  <2>2. CASE i = k
    BY <2>2 DEF RowInv, JobInv
  <2>3. CASE i \in jobs[e]
    BY <2>3 DEF RowInv, JobInv
  <2>4. QED
    BY <2>2, <2>3
<1>8. DeliveryBudget(e)' /\ ClaimBudget(e)'
  BY <1>1, <1>4, <1>5 DEF RowInv, DeliveryBudget, ClaimBudget, Free
<1>9. QED
  BY <1>6, <1>7, <1>8 DEF RowInv

\* A job is refused for its age, resolved to targets, or fails to be.
LEMMA PrepareRow ==
  ASSUME TypeOK, TypeOK', NEW e \in Event, RowInv(e), NEW j \in jobs[e],
         Prepare(e, j)
  PROVE  RowInv(e)'
<1>1. j \in Job /\ j.stage = "claimed"
  BY DEF Prepare, RefuseOld, Resolve, ResolveFails, TypeOK
<1>2. UNCHANGED <<status[e], attempts[e], lockedBy[e], expiries[e],
                  deliveries[e], missing[e], subscribed>>
  BY DEF Prepare, RefuseOld, Resolve, ResolveFails, rowVars, targetVars, countVars
<1>3. deliveries[e] \in Nat /\ missing[e] \subseteq subscribed
  BY DEF TypeOK, RowInv
<1>4. CASE Resolve(e, j)
  <2> DEFINE k == [j EXCEPT !.stage = "resolved", !.targets = subscribed]
  <2>1. /\ jobs'[e] \subseteq (jobs[e] \ {j}) \union {k}
        /\ k.stage = "resolved" /\ k.attempt = j.attempt /\ k.targets = subscribed
    BY <1>1, <1>4 DEF Resolve, Become, TypeOK, Job
  <2> HIDE DEF k
  <2>2. QED
    BY <1>1, <1>2, <1>3, <2>1, AdvanceRow
<1>5. CASE RefuseOld(e, j) \/ ResolveFails(e, j)
  <2> DEFINE k == [j EXCEPT !.stage = "dead", !.targets = {}]
  <2>1. /\ jobs'[e] \subseteq (jobs[e] \ {j}) \union {k}
        /\ k.stage = "dead" /\ k.attempt = j.attempt
    BY <1>1, <1>5 DEF RefuseOld, ResolveFails, Advance, Become, TypeOK, Job
  <2> HIDE DEF k
  <2>2. QED
    BY <1>1, <1>2, <1>3, <2>1, AdvanceRow
<1>6. QED
  BY <1>4, <1>5 DEF Prepare

\* A delivery is accepted, or some target fails.
LEMMA DeliverRow ==
  ASSUME TypeOK, TypeOK', NEW e \in Event, RowInv(e), NEW j \in jobs[e],
         Deliver(e, j)
  PROVE  RowInv(e)'
<1>1. j \in Job /\ j.stage = "resolved"
  BY DEF Deliver, DeliverAccepted, DeliverFails, TypeOK
<1>2. UNCHANGED <<status[e], attempts[e], lockedBy[e], expiries[e]>>
  BY DEF Deliver, DeliverAccepted, DeliverFails, rowVars, countVars
<1>3. /\ deliveries[e] \in Nat
      /\ missing[e] \subseteq subscribed /\ missing[e] \subseteq j.targets
  BY <1>1 DEF TypeOK, RowInv, JobInv
<1>4. PICK served, gone : /\ Excuse(e, served, gone)
                          /\ DeliverAccepted(e, j) => NoneFailed(j, served, gone)
  BY DEF Deliver, DeliverAccepted, DeliverFails
<1>5. /\ missing'[e] \subseteq missing[e] /\ missing'[e] \subseteq subscribed'
      /\ missing'[e] = missing[e] \ (gone \union served)
  BY <1>3, <1>4, ExcuseRow
<1>6. CASE DeliverAccepted(e, j)
  <2> DEFINE k == [j EXCEPT !.stage = "accepted", !.targets = {}]
  <2>1. /\ jobs'[e] \subseteq (jobs[e] \ {j}) \union {k}
        /\ k.stage = "accepted" /\ k.attempt = j.attempt
        /\ deliveries'[e] = deliveries[e] + 1
    BY <1>1, <1>6 DEF DeliverAccepted, Advance, Become, TypeOK, Job
  <2>2. missing'[e] = {}
    BY <1>3, <1>4, <1>5, <1>6 DEF NoneFailed
  <2> HIDE DEF k
  <2>3. QED
    BY <1>1, <1>2, <1>5, <2>1, <2>2, AdvanceRow
<1>7. CASE DeliverFails(e, j)
  <2>1. PICK retryable \in BOOLEAN : Advance(e, j, AfterFailure(e, j, retryable))
    BY <1>7 DEF DeliverFails
  <2> DEFINE k == [j EXCEPT !.stage = AfterFailure(e, j, retryable), !.targets = {}]
  <2>2. /\ jobs'[e] \subseteq (jobs[e] \ {j}) \union {k}
        /\ k.stage \in {"retry", "dead"} /\ k.attempt = j.attempt
        /\ k.stage = "retry" => j.attempt < MaxAttempts
    BY <1>1, <2>1 DEF AfterFailure, Advance, Become, TypeOK, Job
  <2>3. deliveries'[e] = deliveries[e]
    BY <1>7 DEF DeliverFails, countVars
  <2> HIDE DEF k
  <2>4. QED
    BY <1>1, <1>2, <1>3, <1>5, <2>2, <2>3, AdvanceRow
<1>8. QED
  BY <1>6, <1>7 DEF Deliver

\* A job writes its outcome, or tries to, and ends or turns to recording a
\* failure.
LEMMA MarkRow ==
  ASSUME TypeOK, TypeOK', NEW e \in Event, RowInv(e), NEW j \in jobs[e],
         j.stage \in {"accepted", "retry", "dead"},
         WriteOutcome(e, j, Outcome(j)) \/ UNCHANGED rowVars,
         UNCHANGED <<expiries[e], deliveries[e], missing[e], subscribed>>,
         jobs'[e] \subseteq (jobs[e] \ {j})
                    \union {[j EXCEPT !.stage = "dead", !.targets = {}]}
  PROVE  RowInv(e)'
<1> DEFINE k == [j EXCEPT !.stage = "dead", !.targets = {}]
<1>1. /\ IsFiniteSet(jobs[e])
      /\ Cardinality(OpenJobs(e)) \in Nat /\ Cardinality(RetryingJobs(e)) \in Nat
      /\ attempts[e] \in Nat /\ deliveries[e] \in Nat /\ expiries[e] \in Nat
      /\ MaxAttempts \in Nat \ {0}
  BY BudgetTypes
<1>2. j \in Job /\ j.worker # None /\ j.stage \in {"accepted", "retry", "dead"}
  BY ConstantsAssumption DEF TypeOK, Job
<1>3. k.stage = "dead" /\ k.attempt = j.attempt
  BY <1>2 DEF Job
<1>4. /\ j.attempt <= attempts[e]
      /\ j.stage = "accepted" => missing[e] = {}
      /\ j.stage = "retry" => j.attempt < MaxAttempts
  BY DEF RowInv, JobInv
<1>5. jobs'[e] \subseteq (jobs[e] \ {j}) \union {k}
  OBVIOUS
<1> HIDE DEF k
<1>6. /\ IsFiniteSet(jobs'[e])
      /\ Cardinality(OpenJobs(e)') <= Cardinality(OpenJobs(e))
      /\ Cardinality(RetryingJobs(e)') <= Cardinality(RetryingJobs(e))
      /\ j.stage = "retry" =>
           /\ Cardinality(OpenJobs(e)') <= Cardinality(OpenJobs(e)) - 1
           /\ Cardinality(RetryingJobs(e)') <= Cardinality(RetryingJobs(e)) - 1
  <2>1. k.stage \in {"accepted", "dead"}
    BY <1>3
  <2>2. QED
    BY <1>1, <1>4, <1>5, <2>1, JobCloses
<1>7. Cardinality(OpenJobs(e)') \in Nat /\ Cardinality(RetryingJobs(e)') \in Nat
  BY <1>6, JobSetsFiniteNext
<1>8. attempts'[e] = attempts[e]
  BY DEF WriteOutcome, rowVars
<1>9. status[e] # "absent" /\ status'[e] # "absent"
  BY <1>2 DEF RowInv, JobInv, WriteOutcome, Outcome, rowVars, TypeOK
<1>10. JobInv(e)'
  BY <1>3, <1>4, <1>5, <1>6, <1>8, <1>9 DEF RowInv, JobInv
<1>11. CASE WriteOutcome(e, j, Outcome(j)) /\ HoldsLock(e, j)
  <2>1. /\ status[e] = "processing"
        /\ status'[e] = Outcome(j)
        /\ lockedBy'[e] = None
    BY <1>2, <1>11 DEF WriteOutcome, HoldsLock, RowInv, LockInv, TypeOK
  <2>2. CASE j.stage = "retry"
    <3>1. status'[e] = "pending"
      BY <2>1, <2>2 DEF Outcome
    <3>2. LockInv(e)' /\ (status'[e] = "sent" => missing'[e] = {})
      BY <2>1, <3>1 DEF LockInv
    <3>3. DeliveryBudget(e)' /\ ClaimBudget(e)'
      BY <1>1, <1>6, <1>7, <1>8, <2>1, <2>2, <3>1
         DEF RowInv, DeliveryBudget, ClaimBudget, Free
    <3>4. QED
      BY <1>10, <3>2, <3>3 DEF RowInv
  <2>3. CASE j.stage # "retry"
    <3>1. /\ status'[e] \in {"sent", "dead_letter"}
          /\ status'[e] = "sent" => missing'[e] = {}
      BY <1>2, <1>4, <2>1, <2>3 DEF Outcome
    <3>2. LockInv(e)'
      BY <2>1, <3>1 DEF LockInv
    <3>3. DeliveryBudget(e)' /\ ClaimBudget(e)'
      BY <1>1, <1>6, <1>7, <1>8, <2>1, <3>1
         DEF RowInv, DeliveryBudget, ClaimBudget, Free
    <3>4. QED
      BY <1>10, <3>1, <3>2, <3>3 DEF RowInv
  <2>4. QED
    BY <2>2, <2>3
<1>12. CASE ~(WriteOutcome(e, j, Outcome(j)) /\ HoldsLock(e, j))
  <2>1. status'[e] = status[e] /\ lockedBy'[e] = lockedBy[e]
    BY <1>12 DEF WriteOutcome, rowVars
  <2>2. LockInv(e)' /\ (status'[e] = "sent" => missing'[e] = {})
    BY <2>1 DEF RowInv, LockInv
  <2>3. DeliveryBudget(e)' /\ ClaimBudget(e)'
    BY <1>1, <1>6, <1>7, <1>8, <2>1
       DEF RowInv, DeliveryBudget, ClaimBudget, Free
  <2>4. QED
    BY <1>10, <2>2, <2>3 DEF RowInv
<1>13. QED
  BY <1>11, <1>12

\* A row no job and no claim works on in a step keeps its invariant.
LEMMA OtherRow ==
  ASSUME TypeOK, TypeOK', NEW f \in Event, RowInv(f),
         NEW e \in Event, e # f, NEW j \in jobs[e],
         \/ Prepare(e, j) \/ Deliver(e, j) \/ Mark(e, j)
         \/ MarkSentFails(e, j) \/ MarkFailureFails(e, j)
  PROVE  RowInv(f)'
<1> USE DEF Prepare, RefuseOld, Resolve, ResolveFails, Deliver, DeliverAccepted,
            DeliverFails, Mark, MarkSent, MarkForRetry, MarkDeadLetter,
            MarkSentFails, MarkFailureFails
<1>1. UNCHANGED <<status[f], attempts[f], lockedBy[f]>>
  BY DEF FaultyWrite, WriteOutcome, rowVars, TypeOK
<1>2. UNCHANGED <<expiries[f], deliveries[f]>>
  BY DEF countVars, TypeOK
<1>3. jobs'[f] = jobs[f]
  BY DEF Advance, Become, Finish, TypeOK
<1>4. missing[f] \subseteq subscribed
  BY DEF RowInv
<1>5. \/ UNCHANGED <<subscribed, missing>>
      \/ \E served, gone : Excuse(e, served, gone)
  BY DEF targetVars
<1>6. missing'[f] \subseteq missing[f] /\ missing'[f] \subseteq subscribed'
  BY <1>4, <1>5, ExcuseRow
<1>7. QED
  BY <1>1, <1>2, <1>3, <1>6, RowKept

\* A row that is enqueued.
LEMMA EnqueueRow ==
  ASSUME TypeOK, TypeOK', NEW e \in Event, RowInv(e), Enqueue(e)
  PROVE  RowInv(e)'
<1>1. /\ status[e] = "absent" /\ status'[e] = "pending"
      /\ jobs'[e] = jobs[e] /\ lockedBy'[e] = lockedBy[e]
      /\ UNCHANGED <<attempts[e], expiries[e], deliveries[e]>>
      /\ missing'[e] = subscribed /\ subscribed' = subscribed
  BY DEF Enqueue, TypeOK, processVars, countVars
<1>2. OpenJobs(e)' = OpenJobs(e) /\ RetryingJobs(e)' = RetryingJobs(e)
  BY <1>1 DEF OpenJobs, RetryingJobs
<1>3. LockInv(e)' /\ JobInv(e)' /\ (status'[e] = "sent" => missing'[e] = {})
  BY <1>1 DEF RowInv, LockInv, JobInv
<1>4. DeliveryBudget(e)' /\ ClaimBudget(e)'
  BY <1>1, <1>2 DEF RowInv, DeliveryBudget, ClaimBudget, Free
<1>5. QED
  BY <1>1, <1>3, <1>4 DEF RowInv

\* A row that retention deletes.
LEMMA PurgeRow ==
  ASSUME TypeOK, TypeOK', NEW w \in Worker, EndTick(w),
         NEW e \in Event, RowInv(e)
  PROVE  RowInv(e)'
<1>1. /\ \/ status'[e] = status[e]
         \/ status[e] \in {"sent", "dead_letter"} /\ status'[e] = "purged"
      /\ UNCHANGED <<attempts[e], lockedBy[e], jobs[e], expiries[e],
                     deliveries[e]>>
  BY DEF EndTick, PastRetention, Terminal, countVars
<1>4. missing'[e] \subseteq missing[e] /\ missing'[e] \subseteq subscribed'
  BY ExcuseRow DEF EndTick, RowInv
<1>2. CASE status'[e] = status[e]
  BY <1>1, <1>2, <1>4, RowKept
<1>3. CASE status[e] \in {"sent", "dead_letter"} /\ status'[e] = "purged"
  <2>1. OpenJobs(e)' = OpenJobs(e) /\ RetryingJobs(e)' = RetryingJobs(e)
    BY <1>1 DEF OpenJobs, RetryingJobs
  <2>2. LockInv(e)' /\ JobInv(e)'
    BY <1>1, <1>3, <1>4 DEF RowInv, LockInv, JobInv
  <2>3. DeliveryBudget(e)' /\ ClaimBudget(e)'
    BY <1>1, <1>3, <2>1 DEF RowInv, DeliveryBudget, ClaimBudget, Free
  <2>4. QED
    BY <1>3, <1>4, <2>2, <2>3 DEF RowInv
<1>5. QED
  BY <1>1, <1>2, <1>3

\* The inductive invariant holds in every reachable state: locks, jobs and the
\* two budgets of every row.
THEOREM InductiveInvariant == Spec => []IInv
<1>1. Init => IInv
  <2> SUFFICES ASSUME Init PROVE IInv
    OBVIOUS
  <2>1. TypeOK
    BY DEF Init, TypeOK, Status, Terminal
  <2>2. ASSUME NEW e \in Event PROVE RowInv(e)
    <3>1. /\ status[e] = "absent" /\ attempts[e] = 0 /\ lockedBy[e] = None
          /\ jobs[e] = {} /\ expiries[e] = 0 /\ deliveries[e] = 0
          /\ missing[e] = {}
      BY DEF Init
    <3>2. OpenJobs(e) = {} /\ RetryingJobs(e) = {}
      BY <3>1 DEF OpenJobs, RetryingJobs
    <3>3. IsFiniteSet({}) /\ Cardinality({}) = 0
      BY FS_EmptySet
    <3>4. LockInv(e) /\ JobInv(e)
      BY <3>1, <3>3 DEF LockInv, JobInv
    <3>5. DeliveryBudget(e) /\ ClaimBudget(e)
      BY <3>1, <3>2, <3>3, ConstantsAssumption
         DEF DeliveryBudget, ClaimBudget, Free
    <3>6. QED
      BY <3>1, <3>4, <3>5 DEF RowInv
  <2>3. QED
    BY <2>1, <2>2 DEF IInv
<1>2. IInv /\ TypeOK' /\ [Next]_vars => IInv'
  <2> SUFFICES ASSUME TypeOK, TypeOK', [Next]_vars, NEW f \in Event, RowInv(f)
               PROVE  RowInv(f)'
    BY DEF IInv
  <2>0. missing[f] \subseteq subscribed
    BY DEF RowInv
  <2>12. ASSUME NEW t \in Target, Subscribe(t) \/ Unsubscribe(t)
         PROVE  RowInv(f)'
    <3>1. UNCHANGED <<status[f], attempts[f], lockedBy[f], expiries[f],
                      deliveries[f], jobs[f]>>
      BY <2>12 DEF Subscribe, Unsubscribe, rowVars, processVars, countVars
    <3>2. missing'[f] \subseteq missing[f] /\ missing'[f] \subseteq subscribed'
      BY <2>0, <2>12, ExcuseRow DEF Subscribe, Unsubscribe
    <3>3. QED
      BY <3>1, <3>2, RowKept
  <2>1. ASSUME NEW e \in Event, Enqueue(e) PROVE RowInv(f)'
    <3>1. CASE e = f
      BY <2>1, <3>1, EnqueueRow
    <3>2. CASE e # f
      <4>1. UNCHANGED <<status[f], attempts[f], lockedBy[f], expiries[f],
                        deliveries[f], missing[f], subscribed, jobs[f]>>
        BY <2>1, <3>2 DEF Enqueue, processVars, countVars, TypeOK
      <4>2. QED
        BY <2>0, <4>1, RowKept
    <3>3. QED
      BY <3>1, <3>2
  <2>2. ASSUME NEW e \in Event, DelayElapses(e) \/ GrowsOld(e) \/ LockTimesOut(e)
        PROVE  RowInv(f)'
    <3>1. UNCHANGED <<status[f], attempts[f], lockedBy[f], expiries[f],
                      deliveries[f], missing[f], subscribed, jobs[f]>>
      BY <2>2 DEF DelayElapses, GrowsOld, LockTimesOut, processVars, targetVars,
                  countVars
    <3>2. QED
      BY <2>0, <3>1, RowKept
  <2>3. ASSUME NEW w \in Worker, Tick(w) PROVE RowInv(f)'
    <3>1. PICK batch \in Batches :
            /\ ClaimRows(w, batch)
            /\ jobs' = [e \in Event |->
                 IF e \in batch THEN jobs[e] \union {NewJob(w, e)} ELSE jobs[e]]
      BY <2>3 DEF Tick
    <3>2. \/ jobs'[f] = jobs[f]
          \/ f \in batch /\ jobs'[f] = jobs[f] \union {NewJob(w, f)}
      BY <3>1
    <3>3. QED
      BY <3>1, <3>2, ClaimRow
  <2>4. ASSUME NEW w \in Worker, TickLosesClaim(w) PROVE RowInv(f)'
    <3>1. PICK batch \in Batches : ClaimRows(w, batch)
      BY <2>4 DEF TickLosesClaim
    <3>2. jobs'[f] = jobs[f]
      BY <2>4 DEF TickLosesClaim, processVars
    <3>3. QED
      BY <3>1, <3>2, ClaimRow
  <2>5. ASSUME NEW w \in Worker, EndTick(w) PROVE RowInv(f)'
    BY <2>5, PurgeRow
  <2>6. ASSUME NEW w \in Worker, Crash(w) PROVE RowInv(f)'
    <3>1. /\ UNCHANGED <<status[f], attempts[f], lockedBy[f], expiries[f],
                         deliveries[f], missing[f], subscribed>>
          /\ jobs'[f] \subseteq jobs[f]
      BY <2>6 DEF Crash, rowVars, targetVars, countVars
    <3>2. QED
      BY <2>0, <3>1, RowKept
  <2>7. ASSUME NEW e \in Event, NEW j \in jobs[e], e # f,
               \/ Prepare(e, j) \/ Deliver(e, j) \/ Mark(e, j)
               \/ MarkSentFails(e, j) \/ MarkFailureFails(e, j)
        PROVE  RowInv(f)'
    BY <2>7, OtherRow
  <2>8. ASSUME NEW j \in jobs[f], Prepare(f, j) \/ Deliver(f, j) PROVE RowInv(f)'
    BY <2>8, PrepareRow, DeliverRow
  <2>9. ASSUME NEW j \in jobs[f],
               Mark(f, j) \/ MarkSentFails(f, j) \/ MarkFailureFails(f, j)
        PROVE  RowInv(f)'
    <3>1. j.stage \in {"accepted", "retry", "dead"}
      BY <2>9 DEF Mark, MarkSent, MarkForRetry, MarkDeadLetter, MarkSentFails,
                  MarkFailureFails
    <3>2. WriteOutcome(f, j, Outcome(j)) \/ UNCHANGED rowVars
      BY <2>9 DEF Mark, MarkSent, MarkForRetry, MarkDeadLetter, MarkSentFails,
                  MarkFailureFails, FaultyWrite
    <3>3. UNCHANGED <<expiries[f], deliveries[f], missing[f], subscribed>>
      BY <2>9 DEF Mark, MarkSent, MarkForRetry, MarkDeadLetter, MarkSentFails,
                  MarkFailureFails, targetVars, countVars
    <3>4. jobs'[f] \subseteq (jobs[f] \ {j})
                     \union {[j EXCEPT !.stage = "dead", !.targets = {}]}
      BY <2>9 DEF Mark, MarkSent, MarkForRetry, MarkDeadLetter, MarkSentFails,
                  MarkFailureFails, Advance, Become, Finish, TypeOK
    <3>5. QED
      BY <3>1, <3>2, <3>3, <3>4, MarkRow
  <2>10. CASE UNCHANGED vars
    <3>1. UNCHANGED <<status[f], attempts[f], lockedBy[f], expiries[f],
                      deliveries[f], missing[f], subscribed, jobs[f]>>
      BY <2>10 DEF vars, rowVars, processVars, targetVars, countVars
    <3>2. QED
      BY <2>0, <3>1, RowKept
  <2>11. QED
    BY <2>1, <2>2, <2>3, <2>4, <2>5, <2>6, <2>7, <2>8, <2>9, <2>10, <2>12
       DEF Next
<1>3. QED
  BY <1>1, <1>2, TypeCorrect, PTL DEF Spec

-----------------------------------------------------------------------------
(* What follows from it                                                    *)

\* Whatever devices come and go and whichever of them each attempt is resolved
\* to: a row recorded as sent misses none that stayed subscribed.
THEOREM SentIsComplete == Spec => []SentMissesNobody
<1>1. IInv => SentMissesNobody
  BY DEF IInv, RowInv, SentMissesNobody
<1>2. QED
  BY <1>1, InductiveInvariant, PTL

\* However many workers, faults and overlapping ticks: a row is delivered without
\* failure at most once more than its lock expired.
THEOREM DuplicatesAreBounded == Spec => []DuplicatesNeedExpiry
<1>1. IInv => DuplicatesNeedExpiry
  <2> SUFFICES ASSUME TypeOK, NEW e \in Event, RowInv(e)
               PROVE  deliveries[e] <= 1 + expiries[e]
    BY DEF IInv, DuplicatesNeedExpiry
  <2>1. QED
    BY BudgetTypes DEF RowInv, DeliveryBudget
<1>2. QED
  BY <1>1, InductiveInvariant, PTL

\* A set of at most one element has no second one.
LEMMA TwoJobs ==
  ASSUME NEW S, IsFiniteSet(S), Cardinality(S) <= 1, NEW i \in S, NEW j \in S
  PROVE  i = j
<1> SUFFICES ASSUME i # j PROVE FALSE
  OBVIOUS
<1>1. IsFiniteSet({i, j}) /\ Cardinality({i, j}) = 2
  <2>1. IsFiniteSet({i}) /\ Cardinality({i}) = 1
    BY FS_Singleton
  <2>2. IsFiniteSet({i} \union {j}) /\ Cardinality({i} \union {j}) = Cardinality({i}) + 1
    BY <2>1, FS_AddElement
  <2>3. {i} \union {j} = {i, j}
    OBVIOUS
  <2>4. QED
    BY <2>1, <2>2, <2>3
<1>2. Cardinality({i, j}) <= Cardinality(S)
  BY FS_Subset
<1>3. QED
  BY <1>1, <1>2, FS_CardinalityType

\* Until its lock has been found stale, a row has one job at most that may still
\* deliver it or give it back, none while it waits to be claimed, and none once
\* it has been delivered: the lock keeps workers apart, however many there are
\* and whatever fails.
THEOREM OneWorkerUntilExpiry ==
  Spec => [](\A e \in Event : expiries[e] = 0 =>
               /\ \A i, j \in OpenJobs(e) : i = j
               /\ Free(e) \/ deliveries[e] > 0 => OpenJobs(e) = {})
<1>1. IInv => \A e \in Event : expiries[e] = 0 =>
                /\ \A i, j \in OpenJobs(e) : i = j
                /\ Free(e) \/ deliveries[e] > 0 => OpenJobs(e) = {}
  <2> SUFFICES ASSUME TypeOK, NEW e \in Event, RowInv(e), expiries[e] = 0
               PROVE  /\ \A i, j \in OpenJobs(e) : i = j
                      /\ Free(e) \/ deliveries[e] > 0 => OpenJobs(e) = {}
    BY DEF IInv
  <2>1. IsFiniteSet(OpenJobs(e)) /\ Cardinality(OpenJobs(e)) \in Nat
    BY FS_Subset, FS_CardinalityType DEF RowInv, JobInv, OpenJobs
  <2>2. deliveries[e] \in Nat
    BY DEF TypeOK
  <2>3. Cardinality(OpenJobs(e)) + deliveries[e] + (IF Free(e) THEN 1 ELSE 0) <= 1
    BY DEF RowInv, DeliveryBudget
  <2>4. /\ Cardinality(OpenJobs(e)) <= 1
        /\ Free(e) \/ deliveries[e] > 0 => Cardinality(OpenJobs(e)) = 0
    BY <2>1, <2>2, <2>3
  <2>5. \A i, j \in OpenJobs(e) : i = j
    BY <2>1, <2>4, TwoJobs
  <2>6. Cardinality(OpenJobs(e)) = 0 => OpenJobs(e) = {}
    BY <2>1, FS_EmptySet
  <2>7. QED
    BY <2>4, <2>5, <2>6
<1>2. QED
  BY <1>1, InductiveInvariant, PTL

\* Only the recovery of a stale lock takes a row past MAX_ATTEMPTS.
THEOREM AttemptsAreBounded == Spec => []AttemptsBounded
<1>1. IInv => AttemptsBounded
  <2> SUFFICES ASSUME TypeOK, NEW e \in Event, RowInv(e)
               PROVE  attempts[e] <= MaxAttempts + expiries[e]
    BY DEF IInv, AttemptsBounded
  <2>1. QED
    BY BudgetTypes DEF RowInv, ClaimBudget
<1>2. QED
  BY <1>1, InductiveInvariant, PTL

\* No late worker takes back the outcome of a settled row.
THEOREM SettledForGood == Spec => TerminalIsFinal
<1>1. IInv /\ [Next]_vars =>
        [\A e \in Event : status[e] \in Terminal =>
           status'[e] \in {status[e], "purged"}]_vars
  <2> SUFFICES ASSUME TypeOK, [Next]_vars, NEW e \in Event, RowInv(e),
                      status[e] \in Terminal
               PROVE  status'[e] \in {status[e], "purged"}
    BY DEF IInv
  <2> USE DEF Terminal
  <2>1. lockedBy[e] = None
    BY DEF RowInv, LockInv
  <2>2. ASSUME NEW f \in Event,
               \/ Enqueue(f) \/ DelayElapses(f) \/ GrowsOld(f) \/ LockTimesOut(f)
        PROVE  status'[e] = status[e]
    BY <2>2 DEF Enqueue, DelayElapses, GrowsOld, LockTimesOut, TypeOK
  <2>3. ASSUME NEW w \in Worker, Tick(w) \/ TickLosesClaim(w)
        PROVE  status'[e] = status[e]
    BY <2>3 DEF Tick, TickLosesClaim, ClaimRows, Batches, Candidates, Stale
  <2>4. ASSUME NEW w \in Worker, EndTick(w) \/ Crash(w)
        PROVE  status'[e] \in {status[e], "purged"}
    BY <2>4 DEF EndTick, Crash, rowVars
  <2>5. ASSUME NEW f \in Event, NEW j \in jobs[f], Prepare(f, j) \/ Deliver(f, j)
        PROVE  status'[e] = status[e]
    BY <2>5 DEF Prepare, RefuseOld, Resolve, ResolveFails, Deliver,
                DeliverAccepted, DeliverFails, rowVars
  <2>9. ASSUME NEW t \in Target, Subscribe(t) \/ Unsubscribe(t)
        PROVE  status'[e] = status[e]
    BY <2>9 DEF Subscribe, Unsubscribe, rowVars
  <2>6. ASSUME NEW f \in Event, NEW j \in jobs[f],
               Mark(f, j) \/ MarkSentFails(f, j) \/ MarkFailureFails(f, j)
        PROVE  status'[e] = status[e]
    <3>1. WriteOutcome(f, j, Outcome(j)) \/ UNCHANGED rowVars
      BY <2>6 DEF Mark, MarkSent, MarkForRetry, MarkDeadLetter, MarkSentFails,
                  MarkFailureFails, FaultyWrite
    <3>2. j.worker # None
      BY ConstantsAssumption DEF TypeOK, Job
    <3>3. QED
      BY <2>1, <3>1, <3>2 DEF WriteOutcome, HoldsLock, rowVars, TypeOK
  <2>7. CASE UNCHANGED vars
    BY <2>7 DEF vars, rowVars
  <2>8. QED
    BY <2>2, <2>3, <2>4, <2>5, <2>6, <2>7, <2>9 DEF Next
<1>2. QED
  BY <1>1, InductiveInvariant, PTL DEF Spec, TerminalIsFinal

-----------------------------------------------------------------------------
(* The outbox implements its contract                                      *)

phase == [e \in Event |->
            IF status[e] \in {"pending", "processing"} THEN "queued"
            ELSE status[e]]

\* The rows implement the contract producers rely on: claims, locks, retries,
\* crashes and failing writes are invisible, an event settles once, and as sent
\* only when it misses no target that stayed.
THEOREM Implementation == Spec => ImplementsContract
<1>1. Init => Contract!Init
  BY DEF Init, Contract!Init
<1>2. IInv /\ [Next]_vars => [Contract!Next]_<<phase, subscribed, missing>>
  <2> SUFFICES ASSUME TypeOK, \A e \in Event : RowInv(e), [Next]_vars
               PROVE  Contract!Next \/ UNCHANGED <<phase, subscribed, missing>>
    BY DEF IInv
  <2>1. ASSUME NEW e \in Event, Enqueue(e) PROVE Contract!Submit(e)
    BY <2>1 DEF Enqueue, Contract!Submit, TypeOK
  <2>2. ASSUME NEW e \in Event, DelayElapses(e) \/ GrowsOld(e) \/ LockTimesOut(e)
        PROVE  UNCHANGED <<phase, subscribed, missing>>
    BY <2>2 DEF DelayElapses, GrowsOld, LockTimesOut, targetVars, phase
  <2>10. ASSUME NEW t \in Target, Subscribe(t)
         PROVE  Contract!Subscribe(t)
    BY <2>10 DEF Subscribe, rowVars, Contract!Subscribe
  <2>11. ASSUME NEW t \in Target, Unsubscribe(t)
         PROVE  \E gone \in SUBSET Target : Contract!Unsubscribe(gone)
    <3>1. {t} \in SUBSET Target /\ Contract!Unsubscribe({t})
      BY <2>11 DEF Unsubscribe, Excuse, rowVars, Contract!Unsubscribe,
                   Contract!Leave
    <3>2. QED
      BY <3>1
  <2>3. ASSUME NEW w \in Worker, Tick(w) \/ TickLosesClaim(w)
        PROVE  UNCHANGED <<phase, subscribed, missing>>
    <3>1. PICK batch \in Batches : ClaimRows(w, batch)
      BY <2>3 DEF Tick, TickLosesClaim
    <3>2. batch \subseteq Candidates
      BY DEF Batches
    <3>3. \A e \in Event : phase'[e] = phase[e]
      BY <3>1, <3>2 DEF ClaimRows, Candidates, Stale, phase
    <3>4. QED
      BY <3>1, <3>3 DEF ClaimRows, targetVars, phase
  <2>4. ASSUME NEW w \in Worker, EndTick(w)
        PROVE  \E past \in SUBSET Event, gone \in SUBSET Target :
                 Contract!Forget(past, gone)
    <3>1. PICK past \in SUBSET {e \in Event : status[e] \in Terminal} :
            status' = [e \in Event |-> IF e \in past THEN "purged" ELSE status[e]]
      BY <2>4 DEF EndTick, PastRetention
    <3>2. PICK gone \in Lapsed : Excuse(None, {}, gone)
      BY <2>4 DEF EndTick
    <3>3. gone \in SUBSET Target
      BY DEF Lapsed, TypeOK
    <3>4. Contract!Forget(past, gone)
      BY <3>1, <3>2 DEF Contract!Forget, Contract!Leave, Excuse, Terminal
    <3>5. QED
      BY <3>1, <3>3, <3>4
  <2>5. ASSUME NEW w \in Worker, Crash(w) PROVE UNCHANGED <<phase, subscribed, missing>>
    BY <2>5 DEF Crash, rowVars, targetVars, phase
  <2>6. ASSUME NEW e \in Event, NEW j \in jobs[e], Deliver(e, j)
        PROVE  \E served, gone \in SUBSET Target : Contract!Reach(e, served, gone)
    <3>1. status' = status /\ status[e] # "absent"
      BY <2>6 DEF Deliver, DeliverAccepted, DeliverFails, rowVars, RowInv, JobInv
    <3>2. j \in Job
      BY DEF TypeOK
    <3>3. PICK served, gone \in SUBSET Target : Excuse(e, served, gone)
      BY <2>6, <3>2 DEF Deliver, DeliverAccepted, DeliverFails, MayBeGone, Job
    <3>4. Contract!Reach(e, served, gone)
      BY <3>1, <3>3 DEF Contract!Reach, Excuse
    <3>5. QED
      BY <3>4
  <2>12. ASSUME NEW e \in Event, NEW j \in jobs[e], Prepare(e, j)
         PROVE  UNCHANGED <<phase, subscribed, missing>>
    BY <2>12 DEF Prepare, RefuseOld, Resolve, ResolveFails, rowVars, targetVars,
                 phase
  <2>7. ASSUME NEW e \in Event, NEW j \in jobs[e],
               Mark(e, j) \/ MarkSentFails(e, j) \/ MarkFailureFails(e, j)
        PROVE  Contract!Send(e) \/ Contract!GiveUp(e) \/ UNCHANGED <<phase, subscribed, missing>>
    <3>1. UNCHANGED <<subscribed, missing>>
      BY <2>7 DEF Mark, MarkSent, MarkForRetry, MarkDeadLetter, MarkSentFails,
                  MarkFailureFails, targetVars
    <3>2. \/ status' = status
          \/ /\ HoldsLock(e, j)
             /\ status' = [status EXCEPT ![e] = Outcome(j)]
      BY <2>7 DEF Mark, MarkSent, MarkForRetry, MarkDeadLetter, MarkSentFails,
                  MarkFailureFails, FaultyWrite, WriteOutcome, rowVars
    <3>3. CASE status' = status
      BY <3>1, <3>3 DEF phase
    <3>4. CASE HoldsLock(e, j) /\ status' = [status EXCEPT ![e] = Outcome(j)]
      <4>1. /\ j \in Job /\ j.worker # None
            /\ j.stage \in {"accepted", "retry", "dead"}
        BY <2>7, ConstantsAssumption
           DEF TypeOK, Job, Mark, MarkSent, MarkForRetry, MarkDeadLetter,
               MarkSentFails, MarkFailureFails
      <4>2. status[e] = "processing"
        BY <3>4, <4>1 DEF HoldsLock, RowInv, LockInv
      <4>3. CASE j.stage = "accepted"
        <5>1. missing[e] = {}
          BY <4>3 DEF RowInv, JobInv
        <5>2. status' = [status EXCEPT ![e] = "sent"]
          BY <3>4, <4>3 DEF Outcome
        <5>3. QED
          BY <3>1, <4>2, <5>1, <5>2 DEF Contract!Send, TypeOK
      <4>4. CASE j.stage = "retry"
        <5>1. status' = [status EXCEPT ![e] = "pending"]
          BY <3>4, <4>4 DEF Outcome
        <5>2. QED
          BY <3>1, <4>2, <5>1 DEF phase, TypeOK
      <4>5. CASE j.stage = "dead"
        <5>1. status' = [status EXCEPT ![e] = "dead_letter"]
          BY <3>4, <4>5 DEF Outcome
        <5>2. QED
          BY <3>1, <4>2, <5>1 DEF Contract!GiveUp, TypeOK
      <4>6. QED
        BY <4>1, <4>3, <4>4, <4>5 DEF Job
    <3>5. QED
      BY <3>2, <3>3, <3>4
  <2>8. CASE UNCHANGED vars
    BY <2>8 DEF vars, rowVars, targetVars, phase
  <2>9. QED
    BY <2>1, <2>2, <2>3, <2>4, <2>5, <2>6, <2>7, <2>8, <2>10, <2>11, <2>12
       DEF Next, Contract!Next
<1>3. QED
  BY <1>1, <1>2, InductiveInvariant, PTL
     DEF Spec, ImplementsContract, Contract!Spec, Contract!vars, phase
=============================================================================

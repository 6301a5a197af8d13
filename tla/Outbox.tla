------------------------------- MODULE Outbox -------------------------------
(***************************************************************************)
(* The transactional outbox and its delivery workers, in the three copies  *)
(* the backend has of it: Web Push (push_notification_outbox), Meta        *)
(* Conversions (meta_conversion_outbox) and GA4 (ga4_event_outbox).        *)
(*                                                                         *)
(* A business transaction inserts a pending row.  Every API process runs a *)
(* worker that polls, claims a batch of due rows under a lock that times   *)
(* out, delivers them concurrently and writes the outcome back, fenced by  *)
(* locked_by.  Processes crash, the database refuses a write or loses the  *)
(* reply to one, a delivery outlives its lock, and the endpoint fails.     *)
(*                                                                         *)
(* Time is abstracted to what the code compares it with: whether a row is  *)
(* due, whether its lock is stale, whether it is too old.                  *)
(*                                                                         *)
(* Meta and GA4 have one endpoint.  Web Push resolves a row to devices on  *)
(* every attempt, and they come and go: one device set stands for what any *)
(* row resolves to, empty for the rows of the retired zone kinds.          *)
(***************************************************************************)
EXTENDS Integers, FiniteSets

CONSTANTS
  Event,         \* outbox rows; the database never reuses a row id
  Worker,        \* process incarnations: a workerId holds a fresh UUID
  Target,        \* the endpoints an event may be delivered to: devices
  None,          \* SQL NULL
  MaxAttempts,   \* *_OUTBOX_MAX_ATTEMPTS
  BatchSize,     \* *_OUTBOX_BATCH_SIZE
  WebPush,       \* Web Push, or else the copy of Meta and GA4, which have
                 \* fixed endpoints and refuse an old event before delivery
  MaxFaults      \* bound on crashes, database faults and overrun locks

ASSUME ConstantsAssumption ==
  /\ None \notin Worker
  /\ MaxAttempts \in Nat \ {0}
  /\ BatchSize \in Nat \ {0}
  /\ WebPush \in BOOLEAN
  /\ MaxFaults \in Nat

VARIABLES
  status,     \* outbox row: its status, "absent" before it is inserted and
              \* "purged" once retention deleted it
  attempts,   \* outbox row: attempt_count
  lockedBy,   \* outbox row: locked_by
  lockStale,  \* outbox row: locked_at is older than the lock timeout
  due,        \* outbox row: next_attempt_at has been reached
  tooOld,     \* outbox row: created_at is older than the maximum event age
  alive,      \* process: it has not crashed
  ticking,    \* process: isTickRunning
  awaits,     \* process: the claims (row, attempt) its running tick waits for
  jobs,       \* processes: the processEvent calls in progress for a row
  subscribed, \* the devices a row would be resolved to now
  faults,     \* number of faults so far
  expiries,   \* history: times the lock of a row was found stale
  deliveries, \* history: times a job delivered a row with no failed target
  missing     \* history: the devices subscribed when the row was enqueued,
              \* and ever since, that have not received it

rowVars     == <<status, attempts, lockedBy, lockStale, due, tooOld>>
processVars == <<alive, ticking, awaits, jobs>>
targetVars  == <<subscribed, missing>>
countVars   == <<expiries, deliveries>>
vars        == <<rowVars, processVars, faults, targetVars, countVars>>

Terminal == {"sent", "dead_letter"}
Status   == {"absent", "pending", "processing", "purged"} \union Terminal

\* One processEvent call: the claim it works for and the step it is at.
Job == [worker  : Worker,
        attempt : Nat \ {0},
        targets : SUBSET Target,
        stage   : {"claimed", "resolved", "accepted", "retry", "dead"}]

TypeOK ==
  /\ status \in [Event -> Status]
  /\ attempts \in [Event -> Nat]
  /\ lockedBy \in [Event -> Worker \union {None}]
  /\ lockStale \in [Event -> BOOLEAN]
  /\ due \in [Event -> BOOLEAN]
  /\ tooOld \in [Event -> BOOLEAN]
  /\ alive \in [Worker -> BOOLEAN]
  /\ ticking \in [Worker -> BOOLEAN]
  /\ awaits \in [Worker -> SUBSET (Event \X Nat)]
  /\ jobs \in [Event -> SUBSET Job]
  /\ faults \in Nat
  /\ expiries \in [Event -> Nat]
  /\ deliveries \in [Event -> Nat]
  /\ missing \in [Event -> SUBSET Target]
  /\ subscribed \in SUBSET Target

Init ==
  /\ status = [e \in Event |-> "absent"]
  /\ attempts = [e \in Event |-> 0]
  /\ lockedBy = [e \in Event |-> None]
  /\ lockStale = [e \in Event |-> FALSE]
  /\ due = [e \in Event |-> FALSE]
  /\ tooOld = [e \in Event |-> FALSE]
  /\ alive = [w \in Worker |-> TRUE]
  /\ ticking = [w \in Worker |-> FALSE]
  /\ awaits = [w \in Worker |-> {}]
  /\ jobs = [e \in Event |-> {}]
  /\ faults = 0
  /\ expiries = [e \in Event |-> 0]
  /\ deliveries = [e \in Event |-> 0]
  /\ missing = [e \in Event |-> {}]
  /\ subscribed = Target

Fault ==
  /\ faults < MaxFaults
  /\ faults' = faults + 1

-----------------------------------------------------------------------------
(* The passing of time                                                     *)

\* The retry delay of a pending row has elapsed.
DelayElapses(e) ==
  /\ status[e] = "pending"
  /\ ~due[e]
  /\ due' = [due EXCEPT ![e] = TRUE]
  /\ UNCHANGED <<status, attempts, lockedBy, lockStale, tooOld, processVars,
                 faults, targetVars, countVars>>

\* The event outlives its usefulness.
GrowsOld(e) ==
  /\ status[e] \in {"pending", "processing"}
  /\ ~tooOld[e]
  /\ tooOld' = [tooOld EXCEPT ![e] = TRUE]
  /\ UNCHANGED <<status, attempts, lockedBy, lockStale, due, processVars,
                 faults, targetVars, countVars>>

\* No job is left of the claim that holds the row.
Orphaned(e) == \A j \in jobs[e] : j.worker # lockedBy[e]

\* The lock times out: freely when its holder is gone, as a fault (a delivery
\* slower than the timeout) when it is still at work.
LockTimesOut(e) ==
  /\ status[e] = "processing"
  /\ ~lockStale[e]
  /\ IF Orphaned(e) THEN UNCHANGED faults ELSE Fault
  /\ lockStale' = [lockStale EXCEPT ![e] = TRUE]
  /\ UNCHANGED <<status, attempts, lockedBy, due, tooOld, processVars,
                 targetVars, countVars>>

-----------------------------------------------------------------------------
(* The producers                                                           *)

\* A business transaction commits with the row in it.
Enqueue(e) ==
  /\ status[e] = "absent"
  /\ status' = [status EXCEPT ![e] = "pending"]
  /\ due' = [due EXCEPT ![e] = TRUE]
  /\ missing' = [missing EXCEPT ![e] = subscribed]
  /\ UNCHANGED <<attempts, lockedBy, lockStale, tooOld, processVars, faults,
                 subscribed, countVars>>

-----------------------------------------------------------------------------
(* The devices                                                             *)

\* The devices in gone are no longer resolved; row e, if any, reached served.
Excuse(e, served, gone) ==
  /\ subscribed' = subscribed \ gone
  /\ missing' = [f \in Event |->
       missing[f] \ (gone \union (IF f = e THEN served ELSE {}))]

\* A device registers, or gets back to an owner the rows resolve to.
Subscribe(t) ==
  /\ WebPush
  /\ t \notin subscribed
  /\ subscribed' = subscribed \union {t}
  /\ UNCHANGED <<rowVars, processVars, faults, missing, countVars>>

\* A device is unregistered, moves to another owner, or its owner loses access.
Unsubscribe(t) ==
  /\ WebPush
  /\ t \in subscribed
  /\ Excuse(None, {}, {t})
  /\ UNCHANGED <<rowVars, processVars, faults, countVars>>

-----------------------------------------------------------------------------
(* The worker's tick                                                       *)

StaleNeverRecovered == {}

Stale == {e \in Event : status[e] = "processing" /\ lockStale[e]}

CandidatesWhateverStatus ==
  {e \in Event : status[e] \in {"pending", "processing"} /\ due[e]}

Candidates == {e \in Event : status[e] = "pending" /\ due[e]}

\* The batches one claim statement can take: due rows, as many as the limit
\* allows.  Rows it recovers are not among them: both parts of the statement
\* read the same snapshot.
Batches ==
  {b \in SUBSET Candidates :
     \/ Cardinality(b) = BatchSize
     \/ b = Candidates /\ Cardinality(b) < BatchSize}

ClaimRows(w, batch) ==
  /\ status' = [e \in Event |->
       IF e \in batch THEN "processing"
       ELSE IF e \in Stale THEN "pending" ELSE status[e]]
  /\ attempts' = [e \in Event |->
       IF e \in batch THEN attempts[e] + 1 ELSE attempts[e]]
  /\ lockedBy' = [e \in Event |->
       IF e \in batch THEN w
       ELSE IF e \in Stale THEN None ELSE lockedBy[e]]
  /\ lockStale' = [e \in Event |-> lockStale[e] /\ e \notin Stale]
  /\ expiries' = [e \in Event |->
       IF e \in Stale THEN expiries[e] + 1 ELSE expiries[e]]
  /\ UNCHANGED <<due, tooOld, targetVars, deliveries>>

NewJob(w, e) ==
  [worker  |-> w, attempt |-> attempts[e] + 1,
   targets |-> {}, stage |-> "claimed"]

\* tick(): recover stale rows, claim a batch, start one job per claimed row.
Tick(w) ==
  /\ alive[w]
  /\ ~ticking[w]
  /\ \E batch \in Batches :
       /\ ClaimRows(w, batch)
       /\ jobs' = [e \in Event |->
            IF e \in batch THEN jobs[e] \union {NewJob(w, e)} ELSE jobs[e]]
       /\ awaits' = [awaits EXCEPT
            ![w] = {<<e, attempts[e] + 1>> : e \in batch}]
  /\ ticking' = [ticking EXCEPT ![w] = TRUE]
  /\ UNCHANGED <<alive, faults>>

\* The claim commits but its reply is lost: the tick fails with rows locked
\* that no job works for.
TickLosesClaim(w) ==
  /\ alive[w]
  /\ ~ticking[w]
  /\ Fault
  /\ \E batch \in Batches : ClaimRows(w, batch)
  /\ UNCHANGED processVars

PastRetentionWhateverStatus ==
  SUBSET {e \in Event : status[e] # "absent"}

\* The sets of rows whose retention may have elapsed.
PastRetention == SUBSET {e \in Event : status[e] \in Terminal}

\* The sets of devices cleanup may find lapsed.
Lapsed == IF WebPush THEN SUBSET subscribed ELSE {{}}

\* All jobs of the tick are done; cleanup deletes rows past retention and
\* devices not seen for long.
EndTick(w) ==
  /\ ticking[w]
  /\ awaits[w] = {}
  /\ \E gone \in Lapsed : Excuse(None, {}, gone)
  /\ \E past \in PastRetention :
       status' = [e \in Event |->
         IF e \in past THEN "purged" ELSE status[e]]
  /\ ticking' = [ticking EXCEPT ![w] = FALSE]
  /\ UNCHANGED <<attempts, lockedBy, lockStale, due, tooOld, alive, awaits,
                 jobs, faults, countVars>>

-----------------------------------------------------------------------------
(* processEvent                                                            *)

Become(e, j, k) ==
  /\ jobs' = [jobs EXCEPT ![e] = (@ \ {j}) \union {k}]
  /\ UNCHANGED awaits

Advance(e, j, stage) ==
  Become(e, j, [j EXCEPT !.stage = stage, !.targets = {}])

Finish(e, j) ==
  /\ jobs' = [jobs EXCEPT ![e] = @ \ {j}]
  /\ awaits' = [awaits EXCEPT ![j.worker] = @ \ {<<e, j.attempt>>}]

\* Meta and GA4 only: an event too old is not delivered at all.
RefuseOld(e, j) ==
  /\ ~WebPush
  /\ j.stage = "claimed"
  /\ tooOld[e]
  /\ Advance(e, j, "dead")
  /\ UNCHANGED <<rowVars, alive, ticking, faults, targetVars, countVars>>

\* resolveDeliveryTargets: the devices of this attempt, perhaps none.
Resolve(e, j) ==
  /\ j.stage = "claimed"
  /\ WebPush \/ ~tooOld[e]
  /\ Become(e, j, [j EXCEPT !.stage = "resolved", !.targets = subscribed])
  /\ UNCHANGED <<rowVars, alive, ticking, faults, targetVars, countVars>>

\* The targets or the payload cannot be read: a failure not to be retried.
ResolveFails(e, j) ==
  /\ j.stage = "claimed"
  /\ WebPush \/ ~tooOld[e]
  /\ Advance(e, j, "dead")
  /\ UNCHANGED <<rowVars, alive, ticking, faults, targetVars, countVars>>

NoneFailedIfAny(j, served, gone) ==
  served \union gone # {} \/ j.targets = {}

\* Promise.allSettled: no target failed.  One the push service does not know
\* any more, or whose keys cannot be read, is not a failure.
NoneFailed(j, served, gone) == served \union gone = j.targets

\* The targets of an attempt that may turn out to be gone.
MayBeGone(j) == IF WebPush THEN j.targets ELSE {}

\* Every target accepts the event, or is gone and its subscription deleted.
DeliverAccepted(e, j) ==
  /\ j.stage = "resolved"
  /\ \E served \in SUBSET j.targets, gone \in SUBSET MayBeGone(j) :
       /\ served \intersect gone = {}
       /\ NoneFailed(j, served, gone)
       /\ Excuse(e, served, gone)
  /\ Advance(e, j, "accepted")
  /\ deliveries' = [deliveries EXCEPT ![e] = @ + 1]
  /\ UNCHANGED <<rowVars, alive, ticking, faults, expiries>>

AfterFailureOneTooMany(e, j, retryable) ==
  IF retryable /\ ~tooOld[e] /\ j.attempt <= MaxAttempts
  THEN "retry" ELSE "dead"

\* What the catch block decides on a failure.
AfterFailure(e, j, retryable) ==
  IF retryable /\ ~tooOld[e] /\ j.attempt < MaxAttempts
  THEN "retry" ELSE "dead"

\* Some target refuses or cannot be reached; others, and even that one when
\* only its answer is lost, may have received the event, others may be gone.
DeliverFails(e, j) ==
  /\ j.stage = "resolved"
  /\ j.targets # {}
  /\ \E retryable \in BOOLEAN : Advance(e, j, AfterFailure(e, j, retryable))
  /\ \E served \in SUBSET j.targets, gone \in SUBSET MayBeGone(j) :
       /\ served \intersect gone = {}
       /\ Excuse(e, served, gone)
  /\ UNCHANGED <<rowVars, alive, ticking, faults, countVars>>

HoldsLockUnchecked(e, j) == status[e] # "absent"

HoldsLock(e, j) == lockedBy[e] = j.worker

\* updateMany where {id, locked_by: this.workerId}
WriteOutcome(e, j, outcome) ==
  /\ IF HoldsLock(e, j)
     THEN /\ status' = [status EXCEPT ![e] = outcome]
          /\ lockedBy' = [lockedBy EXCEPT ![e] = None]
          /\ lockStale' = [lockStale EXCEPT ![e] = FALSE]
          /\ due' = [due EXCEPT ![e] = @ /\ outcome # "pending"]
     ELSE UNCHANGED <<status, lockedBy, lockStale, due>>
  /\ UNCHANGED <<attempts, tooOld>>

Outcome(j) == CASE j.stage = "accepted" -> "sent"
                [] j.stage = "retry"    -> "pending"
                [] j.stage = "dead"     -> "dead_letter"

MarkSent(e, j) ==
  /\ j.stage = "accepted"
  /\ WriteOutcome(e, j, Outcome(j))
  /\ Finish(e, j)
  /\ UNCHANGED <<alive, ticking, faults, targetVars, countVars>>

MarkForRetry(e, j) ==
  /\ j.stage = "retry"
  /\ WriteOutcome(e, j, Outcome(j))
  /\ Finish(e, j)
  /\ UNCHANGED <<alive, ticking, faults, targetVars, countVars>>

MarkDeadLetter(e, j) ==
  /\ j.stage = "dead"
  /\ WriteOutcome(e, j, Outcome(j))
  /\ Finish(e, j)
  /\ UNCHANGED <<alive, ticking, faults, targetVars, countVars>>

\* A write that fails may have been committed all the same.
FaultyWrite(e, j) ==
  /\ Fault
  /\ \/ WriteOutcome(e, j, Outcome(j))
     \/ UNCHANGED rowVars

\* markSent throws inside the try block: the catch block takes the database
\* error for a permanent delivery failure.
MarkSentFails(e, j) ==
  /\ j.stage = "accepted"
  /\ FaultyWrite(e, j)
  /\ Advance(e, j, "dead")
  /\ UNCHANGED <<alive, ticking, targetVars, countVars>>

\* markForRetry or markDeadLetter throws: Promise.all rejects and the tick
\* ends, although its other jobs are still running.
MarkFailureFails(e, j) ==
  /\ j.stage \in {"retry", "dead"}
  /\ FaultyWrite(e, j)
  /\ jobs' = [jobs EXCEPT ![e] = @ \ {j}]
  /\ IF <<e, j.attempt>> \in awaits[j.worker]
     THEN /\ ticking' = [ticking EXCEPT ![j.worker] = FALSE]
          /\ awaits' = [awaits EXCEPT ![j.worker] = {}]
     ELSE UNCHANGED <<ticking, awaits>>
  /\ UNCHANGED <<alive, targetVars, countVars>>

Crash(w) ==
  /\ alive[w]
  /\ Fault
  /\ alive' = [alive EXCEPT ![w] = FALSE]
  /\ ticking' = [ticking EXCEPT ![w] = FALSE]
  /\ awaits' = [awaits EXCEPT ![w] = {}]
  /\ jobs' = [e \in Event |-> {j \in jobs[e] : j.worker # w}]
  /\ UNCHANGED <<rowVars, targetVars, countVars>>

-----------------------------------------------------------------------------

Prepare(e, j) == Resolve(e, j) \/ ResolveFails(e, j) \/ RefuseOld(e, j)
Deliver(e, j) == DeliverAccepted(e, j) \/ DeliverFails(e, j)
Mark(e, j)    == MarkSent(e, j) \/ MarkForRetry(e, j) \/ MarkDeadLetter(e, j)

Next ==
  \/ \E e \in Event : \/ Enqueue(e) \/ DelayElapses(e) \/ GrowsOld(e)
                      \/ LockTimesOut(e)
  \/ \E t \in Target : Subscribe(t) \/ Unsubscribe(t)
  \/ \E w \in Worker : Tick(w) \/ TickLosesClaim(w) \/ EndTick(w) \/ Crash(w)
  \/ \E e \in Event : \E j \in jobs[e] :
       \/ Prepare(e, j) \/ Deliver(e, j) \/ Mark(e, j)
       \/ MarkSentFails(e, j) \/ MarkFailureFails(e, j)

Spec == Init /\ [][Next]_vars

\* A live process keeps polling and its calls return; time passes.  Producers,
\* faults and the ageing of events are not fair: they need not happen.
Fairness ==
  /\ \A e \in Event : /\ WF_vars(DelayElapses(e))
                      /\ WF_vars(Orphaned(e) /\ LockTimesOut(e))
                      /\ WF_vars(\E j \in jobs[e] :
                           Prepare(e, j) \/ Deliver(e, j) \/ Mark(e, j))
  /\ \A w \in Worker : WF_vars(Tick(w)) /\ WF_vars(EndTick(w))

FairSpec == Spec /\ Fairness

-----------------------------------------------------------------------------
(* Properties                                                              *)

\* A row recorded as sent misses nobody: each device that was subscribed when
\* the event was enqueued has received it or has been unsubscribed since,
\* whatever the workers, retries and lock timeouts the row went through and
\* whichever devices each of its attempts was resolved to.
SentMissesNobody ==
  \A e \in Event : status[e] = "sent" => missing[e] = {}

\* Delivery is at least once, and a duplicate costs an expired lock: a row is
\* delivered without failure at most once more than its lock was found stale, however
\* many workers, overlapping ticks and failing writes are involved.
DuplicatesNeedExpiry ==
  \A e \in Event : deliveries[e] <= 1 + expiries[e]

\* Retries are bounded: beyond the configured attempts, only the recovery of a
\* stale lock gives a row one more.
AttemptsBounded ==
  \A e \in Event : attempts[e] <= MaxAttempts + expiries[e]

\* No late worker brings a row back: sent and dead_letter rows keep their
\* outcome until retention deletes them.
TerminalIsFinal ==
  [][\A e \in Event : status[e] \in Terminal =>
       status'[e] \in {status[e], "purged"}]_vars

\* Every enqueued event is settled unless all processes die.
EventuallySettled ==
  \A e \in Event :
    status[e] = "pending" ~> \/ status[e] \in Terminal \union {"purged"}
                             \/ \A w \in Worker : ~alive[w]

-----------------------------------------------------------------------------
(* The inductive invariant behind them, one row at a time                  *)

\* A row has a lock owner exactly while it is being processed.
LockInv(e) == status[e] = "processing" <=> lockedBy[e] # None

\* Jobs belong to a claim the row has had; the devices a row still misses are
\* among those its jobs resolved, none is left once one of them is accepted,
\* and a job that will retry has attempts left.
JobInv(e) ==
  /\ IsFiniteSet(jobs[e])
  /\ status[e] = "absent" => attempts[e] = 0 /\ jobs[e] = {}
  /\ \A j \in jobs[e] : /\ j.attempt <= attempts[e]
                        /\ j.stage = "resolved" => missing[e] \subseteq j.targets
                        /\ j.stage = "accepted" => missing[e] = {}
                        /\ j.stage = "retry" => j.attempt < MaxAttempts

\* The jobs that may still deliver the row, or give it back.
OpenJobs(e) == {j \in jobs[e] : j.stage \in {"claimed", "resolved", "retry"}}

\* The jobs that may still give the row back.
RetryingJobs(e) == {j \in OpenJobs(e) : j.attempt < MaxAttempts}

Free(e) == status[e] \in {"absent", "pending"}

\* Each delivery done or still possible is backed by the first claim or by an
\* expired lock.
DeliveryBudget(e) ==
  Cardinality(OpenJobs(e)) + deliveries[e] + (IF Free(e) THEN 1 ELSE 0)
    <= 1 + expiries[e]

\* Each claim beyond the configured attempts, made or still possible, is backed
\* by an expired lock.
ClaimBudget(e) ==
  Cardinality(RetryingJobs(e))
      + (IF attempts[e] < MaxAttempts THEN MaxAttempts - 1 ELSE attempts[e])
    <= MaxAttempts - 1 + expiries[e] + (IF Free(e) THEN 0 ELSE 1)

RowInv(e) ==
  /\ LockInv(e)
  /\ JobInv(e)
  /\ missing[e] \subseteq subscribed
  /\ status[e] = "sent" => missing[e] = {}
  /\ DeliveryBudget(e)
  /\ ClaimBudget(e)

\* What every reachable state satisfies, from which the invariants above and
\* the steps of the contract follow.
IInv == TypeOK /\ \A e \in Event : RowInv(e)

-----------------------------------------------------------------------------
(* What the outbox promises its producers                                  *)

Contract == INSTANCE OutboxContract WITH
  phase <- [e \in Event |->
              IF status[e] \in {"pending", "processing"} THEN "queued"
              ELSE status[e]]

ImplementsContract == Contract!Spec
=============================================================================

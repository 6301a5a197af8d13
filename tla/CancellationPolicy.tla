------------------------- MODULE CancellationPolicy -------------------------
(***************************************************************************)
(* The cancellation policy of one store: the cancellations of a calendar   *)
(* month are counted, a warning is issued at the first threshold and the   *)
(* store suspended at the second, and a store that an administrator lifts  *)
(* from such a suspension is on probation under a lower threshold.         *)
(*                                                                         *)
(* Cancellations, dashboard views and status changes are transactions      *)
(* under READ COMMITTED that read the row of the policy without a lock and *)
(* write it by tenant id.  A transaction's writes become visible at once   *)
(* when it commits, so they are one step; a status change holds the lock   *)
(* of the tenant's row from its first statement.  PostgreSQL breaks the    *)
(* deadlock between a change and a suspending cancellation, which lock the *)
(* two rows in opposite orders, by failing one of them: RollBack.          *)
(*                                                                         *)
(* The status "pending" also stands for "rejected", which the policy does  *)
(* not tell from it.  The thresholds stored in the row are displayed only. *)
(***************************************************************************)
EXTENDS Integers

CONSTANTS
  Call,                \* requests of users and administrators for the store
  None,                \* no request
  WarnAt,              \* WARNING_THRESHOLD
  SuspendAt,           \* NORMAL_SUSPENSION_THRESHOLD
  ProbationSuspendAt,  \* PROBATION_SUSPENSION_THRESHOLD
  MaxMonth,            \* bound on the months that pass
  MaxRaces,            \* bound on commits that rest on a stale read
  MaxSuspensions       \* bound on suspensions by the policy

ASSUME ConstantsAssumption ==
  /\ None \notin Call
  /\ WarnAt \in Nat \ {0}
  /\ SuspendAt \in Nat \ {0}
  /\ ProbationSuspendAt \in Nat \ {0}
  /\ MaxMonth \in Nat \ {0}
  /\ MaxRaces \in Nat
  /\ MaxSuspensions \in Nat

VARIABLES
  month,        \* the calendar month in Cairo
  status,       \* tenant: status
  row,          \* tenant_cancellation_policy_states: the store's row
  storeLock,    \* the status change that holds the tenant's row
  request,      \* requests: what each is doing
  seen,         \* requests: the policy's row as each has read it
  races,        \* history: commits that rest on a stale read
  suspensions,  \* history: suspensions by the policy
  probations    \* history: probations begun

vars == <<month, status, row, storeLock, request, seen, races, suspensions,
          probations>>

Status == {"active", "suspended", "pending"}

\* The window of a probation lasts a hundred years: it outlives every month.
Forever == MaxMonth + 1

Row == [window : 0 .. Forever, count : Nat, probation : BOOLEAN,
        warned : BOOLEAN, policy : BOOLEAN]

\* A store without a row is treated as one whose window is long past.
NoRow == [window |-> 0, count |-> 0, probation |-> FALSE, warned |-> FALSE,
          policy |-> FALSE]

Stage   == {"idle", "cancel", "counting", "view", "opening", "change", "locked"}
Request == [stage : Stage, month : 1 .. MaxMonth, from : Status, to : Status]
Idle    == [stage |-> "idle", month |-> 1, from |-> "active", to |-> "active"]

TypeOK ==
  /\ month \in 1 .. MaxMonth
  /\ status \in Status
  /\ row \in Row
  /\ storeLock \in Call \union {None}
  /\ request \in [Call -> Request]
  /\ seen \in [Call -> Row]
  /\ races \in Nat
  /\ suspensions \in Nat
  /\ probations \in Nat

Init ==
  /\ month = 1
  /\ status = "active"
  /\ row = NoRow
  /\ storeLock = None
  /\ request = [c \in Call |-> Idle]
  /\ seen = [c \in Call |-> NoRow]
  /\ races = 0
  /\ suspensions = 0
  /\ probations = 0

-----------------------------------------------------------------------------
(* The policy's row                                                        *)

\* ensureActiveWindowState: the window of row r contains the month.
Current(r, m) == r.window = m \/ r.window = Forever

\* Its upsert: a new window over the row as it is, on the probation it read.
OpenedKeepingCount(r, probation, m) ==
  [r EXCEPT !.window = m, !.probation = probation, !.warned = FALSE]
Opened(r, probation, m) ==
  [r EXCEPT !.window = m, !.count = 0, !.probation = probation,
            !.warned = FALSE]

Limit(probation) == IF probation THEN ProbationSuspendAt ELSE SuspendAt

\* The count a cancellation writes rests on the row it read.
NextCount(r, m) == IF Current(r, m) THEN r.count + 1 ELSE 1

Suspends(r, m) == NextCount(r, m) >= Limit(r.probation)

\* A warning is due at its threshold, unless the row has had one.
WarnedAbove(now, count) == now.warned \/ count > WarnAt
Warned(now, count)      == now.warned \/ count = WarnAt

\* recordMerchantCancellation: what it makes of the row, having read "read".
AfterCancellation(read, m) ==
  LET now   == IF Current(read, m) THEN row ELSE Opened(row, read.probation, m)
      count == NextCount(read, m)
  IN  [now EXCEPT !.count = count,
                  !.warned = Warned(now, count),
                  !.policy = @ \/ Suspends(read, m)]

\* recordAdminStatusChange: a suspension by the policy ends in probation.
ProbationRowStillFlagged ==
  [window |-> Forever, count |-> 0, probation |-> TRUE, warned |-> FALSE,
   policy |-> TRUE]
ProbationRow ==
  [window |-> Forever, count |-> 0, probation |-> TRUE, warned |-> FALSE,
   policy |-> FALSE]

-----------------------------------------------------------------------------
(* Requests                                                                *)

Start(c, stage, from, to) ==
  /\ request[c] = Idle
  /\ request' = [request EXCEPT ![c] =
                   [stage |-> stage, month |-> month, from |-> from,
                    to |-> to]]
  /\ UNCHANGED <<month, status, row, storeLock, seen, races, suspensions,
                 probations>>

\* Whatever the store's status: its users are refused unless it is active, but
\* an administrator who manages it cancels its orders without that check, and
\* the administrators' list of stores takes a snapshot of each.
BeginCancel(c) == Start(c, "cancel", "active", "active")
BeginView(c)   == Start(c, "view", "active", "active")

\* An administrator's request reads the status before its transaction.
BeginChange(c, to) == Start(c, "change", status, to)

ReadRow(c) ==
  /\ \/ request[c].stage = "cancel" /\ request' = [request EXCEPT
                                                     ![c].stage = "counting"]
     \/ /\ request[c].stage = "view"
        /\ request' = [request EXCEPT
             ![c] = IF Current(row, request[c].month)
                    THEN Idle ELSE [@ EXCEPT !.stage = "opening"]]
  /\ seen' = [seen EXCEPT ![c] = row]
  /\ UNCHANGED <<month, status, row, storeLock, races, suspensions,
                 probations>>

\* The commit of a request whose decisions may be stale, and its end.
End(c, stale) ==
  /\ IF stale THEN races < MaxRaces /\ races' = races + 1 ELSE UNCHANGED races
  /\ request' = [request EXCEPT ![c] = Idle]
  /\ seen' = [seen EXCEPT ![c] = NoRow]

\* The row has changed since c read it, or c's month is before the row's.
StaleRow(c) ==
  \/ seen[c] # row
  \/ seen[c].window > request[c].month /\ seen[c].window # Forever

CommitCancel(c) ==
  LET m == request[c].month
  IN  /\ request[c].stage = "counting"
      /\ row' = AfterCancellation(seen[c], m)
      /\ IF Suspends(seen[c], m)
         THEN /\ storeLock = None
              /\ status' = "suspended"
              /\ suspensions < MaxSuspensions
              /\ suspensions' = suspensions + 1
         ELSE UNCHANGED <<status, suspensions>>
      /\ End(c, StaleRow(c))
      /\ UNCHANGED <<month, storeLock, probations>>

\* getSnapshot on a window that is over.
CommitView(c) ==
  /\ request[c].stage = "opening"
  /\ row' = Opened(row, seen[c].probation, request[c].month)
  /\ End(c, StaleRow(c))
  /\ UNCHANGED <<month, status, storeLock, suspensions, probations>>

\* The update of the tenant's row, with the read of the policy's row after it.
LockStore(c) ==
  /\ request[c].stage = "change"
  /\ storeLock = None
  /\ storeLock' = c
  /\ request' = [request EXCEPT ![c].stage = "locked"]
  /\ seen' = [seen EXCEPT ![c] = row]
  /\ UNCHANGED <<month, status, row, races, suspensions, probations>>

StartsProbation(c) ==
  /\ request[c].from = "suspended"
  /\ request[c].to = "active"
  /\ seen[c].policy

Suspending(c) == request[c].to = "suspended" /\ request[c].from # "suspended"

CommitChange(c) ==
  /\ request[c].stage = "locked"
  /\ status' = request[c].to
  /\ \/ /\ StartsProbation(c)
        /\ row' = ProbationRow
        /\ probations' = probations + 1
     \/ /\ ~StartsProbation(c)
        /\ row' = IF Suspending(c)
                  THEN [row EXCEPT !.policy = FALSE] ELSE row
        /\ UNCHANGED probations
  /\ storeLock' = None
  /\ End(c, request[c].from # status)
  /\ UNCHANGED <<month, suspensions>>

\* The transaction fails or its process dies: nothing it wrote remains.
RollBack(c) ==
  /\ request[c] # Idle
  /\ request' = [request EXCEPT ![c] = Idle]
  /\ seen' = [seen EXCEPT ![c] = NoRow]
  /\ storeLock' = IF storeLock = c THEN None ELSE storeLock
  /\ UNCHANGED <<month, status, row, races, suspensions, probations>>

NextMonth ==
  /\ month < MaxMonth
  /\ month' = month + 1
  /\ UNCHANGED <<status, row, storeLock, request, seen, races, suspensions,
                 probations>>

Next ==
  \/ \E c \in Call :
       \/ BeginCancel(c)
       \/ BeginView(c)
       \/ \E to \in Status : BeginChange(c, to)
       \/ ReadRow(c)
       \/ CommitCancel(c)
       \/ CommitView(c)
       \/ LockStore(c)
       \/ CommitChange(c)
       \/ RollBack(c)
  \/ NextMonth

Spec == Init /\ [][Next]_vars

-----------------------------------------------------------------------------
(* Properties                                                              *)

\* However requests overlap, a store never begins more probations than it has
\* been suspended by the policy: no suspension is punished twice.
ProbationsArePaid == probations <= suspensions

\* No store approaches its suspension unwarned: unless a commit rests on a
\* stale read, a count past the warning threshold has had its warning.
WarnedInTime == races = 0 /\ row.count >= WarnAt => row.warned

\* How a store stands with the policy.
Standing == CASE status = "active"  -> "open"
              [] status = "pending" -> "pending"
              [] OTHER -> IF row.policy THEN "suspended_by_policy"
                                        ELSE "suspended_by_admin"

\* Until a commit rests on a stale read, the store's count, its suspensions
\* and its probations are those of the same operations done one at a time.
Contract == INSTANCE CancellationContract WITH
  window   <- row.window,
  count    <- row.count,
  standing <- Standing,
  excused  <- (races > 0)
ImplementsContract == Contract!Spec

-----------------------------------------------------------------------------
(* The inductive invariant                                                 *)

\* Probation and its window go together, in the row and in what was read of it.
ProbationWindow ==
  /\ row.probation <=> row.window = Forever
  /\ \A c \in Call : seen[c].probation <=> seen[c].window = Forever

\* A view opens a window only if the one it read was over.
OpeningInv ==
  \A c \in Call : request[c].stage = "opening" =>
    ~Current(seen[c], request[c].month) /\ ~seen[c].probation

\* What holds the tenant's row is a status change that read the policy's row
\* after it, and no suspension has been committed since.
LockInv ==
  \A c \in Call :
    /\ storeLock = c <=> request[c].stage = "locked"
    /\ request[c].stage = "locked" => (seen[c].policy <=> row.policy)

\* Every probation begun, and one that can begin, has its suspension.
Flagged         == IF row.policy THEN 1 ELSE 0
ProbationBudget == probations + Flagged <= suspensions

IInv ==
  /\ TypeOK
  /\ ProbationWindow
  /\ OpeningInv
  /\ LockInv
  /\ ProbationBudget
=============================================================================

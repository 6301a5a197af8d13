------------------------ MODULE CancellationContract ------------------------
(***************************************************************************)
(* What the cancellation policy promises a store, as if every operation    *)
(* happened at once: a cancellation counts for its own month or for the    *)
(* store's probation, any that reaches the threshold suspends the store,   *)
(* whatever its status was, and only a store that the policy has suspended *)
(* last goes to probation, which never ends.                               *)
(* The promise is off once an operation rests on what another has changed. *)
(***************************************************************************)
EXTENDS Integers

CONSTANTS
  Forever,             \* the window of a probation
  SuspendAt,           \* cancellations a month that suspend a store
  ProbationSuspendAt   \* the same on probation

VARIABLES
  window,     \* month of the count, 0 before the first, Forever on probation
  count,      \* cancellations in the window
  standing,   \* "open", "pending", "suspended_by_policy", "suspended_by_admin"
  excused     \* nothing is promised any more

vars == <<window, count, standing, excused>>

Suspended == {"suspended_by_policy", "suspended_by_admin"}

Init ==
  /\ window = 0
  /\ count = 0
  /\ standing = "open"
  /\ excused = FALSE

Limit == IF window = Forever THEN ProbationSuspendAt ELSE SuspendAt

\* A cancellation of a month opens the month's count.  Those an administrator
\* makes for a store that is not open count too, and may suspend it again.
Cancel ==
  /\ \E month \in window .. Forever :
       /\ window' = month
       /\ count' = IF month = window THEN count + 1 ELSE 1
       /\ month = Forever => window = Forever
  /\ \/ count' < Limit /\ UNCHANGED standing
     \/ count' >= Limit /\ standing' = "suspended_by_policy"

OpenMonth ==
  /\ window # Forever
  /\ window' \in (window + 1) .. (Forever - 1)
  /\ count' = 0
  /\ UNCHANGED standing

\* An administrator sets a status; that of a store suspended by the policy
\* starts a probation when it goes straight back to open.
Decide ==
  \/ /\ standing' \in {"open", "pending"}
     /\ ~(standing = "suspended_by_policy" /\ standing' = "open")
     /\ UNCHANGED <<window, count>>
  \/ /\ standing = "suspended_by_policy"
     /\ standing' = "open"
     /\ window' = Forever
     /\ count' = 0
  \/ /\ standing \notin Suspended
     /\ standing' = "suspended_by_admin"
     /\ UNCHANGED <<window, count>>

KeepPromise == Cancel \/ OpenMonth \/ Decide

Next == excused' \/ (KeepPromise /\ UNCHANGED excused)

Spec == Init /\ [][Next]_vars
=============================================================================

-------------------------- MODULE ManagedContract --------------------------
(***************************************************************************)
(* What managed access promises a store, as if every operation happened at *)
(* once: an enabled administrator is in one store at a time, which has     *)
(* granted access and not withdrawn it, and every session that ends leaves *)
(* one entry in the activity log.  The promise is off once an operation    *)
(* rests on what another has changed.                                      *)
(***************************************************************************)
EXTENDS Integers

CONSTANTS
  Store,
  None     \* no store

VARIABLES
  enabled,  \* the administrator's account
  granted,  \* stores whose access has not been withdrawn
  visiting, \* the store of the open session, or None
  trail,    \* entries about ended sessions
  excused   \* nothing is promised any more

vars == <<enabled, granted, visiting, trail, excused>>

Init ==
  /\ enabled = TRUE
  /\ granted = {}
  /\ visiting = None
  /\ trail = 0
  /\ excused = FALSE

\* Leaving a store, or being made to, is on record.
Leave == trail' = IF visiting = None THEN trail ELSE trail + 1

Grant ==
  /\ \E t \in Store : granted' = granted \union {t}
  /\ UNCHANGED <<enabled, visiting, trail>>

Revoke ==
  \E t \in Store :
    /\ granted' = granted \ {t}
    /\ IF visiting = t THEN visiting' = None /\ Leave
                       ELSE UNCHANGED <<visiting, trail>>
    /\ UNCHANGED enabled

SetEnabled ==
  \/ enabled' = TRUE /\ UNCHANGED <<granted, visiting, trail>>
  \/ enabled' = FALSE /\ visiting' = None /\ Leave /\ UNCHANGED granted

Visit ==
  /\ enabled
  /\ visiting' \in granted
  /\ Leave
  /\ UNCHANGED <<enabled, granted>>

Exit ==
  /\ visiting' = None
  /\ Leave
  /\ UNCHANGED <<enabled, granted>>

KeepPromise == Grant \/ Revoke \/ SetEnabled \/ Visit \/ Exit

Next == excused' \/ (KeepPromise /\ UNCHANGED excused)

Spec == Init /\ [][Next]_vars
=============================================================================

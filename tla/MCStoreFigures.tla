---------------------------- MODULE MCStoreFigures ----------------------------
(***************************************************************************)
(* What is computed from the orders of a store, on small instances: the    *)
(* figures of its dashboard and the closing of its day.  They share no     *)
(* state, so that how their steps interleave shows nothing: in every       *)
(* behaviour one of them moves.                                            *)
(***************************************************************************)
EXTENDS DashboardCache, DayClosure

VARIABLE part

vars == <<cacheVars, dayVars, part>>

Init ==
  /\ CacheInit
  /\ DayInit
  /\ part \in {"cache", "day"}

Next ==
  \/ part = "cache" /\ CacheNext /\ UNCHANGED <<dayVars, part>>
  \/ part = "day" /\ DayNext /\ UNCHANGED <<cacheVars, part>>

Spec == Init /\ [][Next]_vars /\ CacheFairness
=============================================================================

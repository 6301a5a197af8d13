--------------------------- MODULE OutboxContract ---------------------------
(***************************************************************************)
(* What an outbox promises the transactions that enqueue into it: an event *)
(* may reach its targets any number of times, but it is settled once, and  *)
(* as sent only when it misses none of the targets it was enqueued for,    *)
(* those that have left apart.  Workers, claims, locks, retries and the    *)
(* targets of each attempt are invisible here.                             *)
(***************************************************************************)
CONSTANTS Event, Target

VARIABLES
  phase,       \* "absent", "queued", "sent", "dead_letter" or "purged"
  subscribed,  \* the targets there are now
  missing      \* the targets of an event, still there, it has not reached

vars == <<phase, subscribed, missing>>

Init ==
  /\ phase = [e \in Event |-> "absent"]
  /\ subscribed = Target
  /\ missing = [e \in Event |-> {}]

\* A target that leaves is owed nothing more, not even when it comes back.
Leave(gone) ==
  /\ subscribed' = subscribed \ gone
  /\ missing' = [e \in Event |-> missing[e] \ gone]

Unsubscribe(gone) == Leave(gone) /\ UNCHANGED phase

Subscribe(t) ==
  /\ subscribed' = subscribed \union {t}
  /\ UNCHANGED <<phase, missing>>

Submit(e) ==
  /\ phase[e] = "absent"
  /\ phase' = [phase EXCEPT ![e] = "queued"]
  /\ missing' = [missing EXCEPT ![e] = subscribed]
  /\ UNCHANGED subscribed

\* Possible even after the event is settled: a slow worker may still be at it.
\* A delivery may find that targets are gone.
Reach(e, served, gone) ==
  /\ phase[e] # "absent"
  /\ subscribed' = subscribed \ gone
  /\ missing' = [f \in Event |->
       missing[f] \ (gone \union (IF f = e THEN served ELSE {}))]
  /\ UNCHANGED phase

Send(e) ==
  /\ phase[e] = "queued"
  /\ missing[e] = {}
  /\ phase' = [phase EXCEPT ![e] = "sent"]
  /\ UNCHANGED <<subscribed, missing>>

GiveUp(e) ==
  /\ phase[e] = "queued"
  /\ phase' = [phase EXCEPT ![e] = "dead_letter"]
  /\ UNCHANGED <<subscribed, missing>>

\* Retention: of settled events and of targets not seen for long.
Forget(past, gone) ==
  /\ \A e \in past : phase[e] \in {"sent", "dead_letter"}
  /\ phase' = [e \in Event |-> IF e \in past THEN "purged" ELSE phase[e]]
  /\ Leave(gone)

Next ==
  \/ \E e \in Event : Submit(e) \/ Send(e) \/ GiveUp(e)
  \/ \E e \in Event, served, gone \in SUBSET Target : Reach(e, served, gone)
  \/ \E t \in Target : Subscribe(t)
  \/ \E gone \in SUBSET Target : Unsubscribe(gone)
  \/ \E past \in SUBSET Event, gone \in SUBSET Target : Forget(past, gone)

Spec == Init /\ [][Next]_vars
=============================================================================

---------------------------- MODULE PushContract ----------------------------
(***************************************************************************)
(* What the push subscriptions promise those who hold them, as if every    *)
(* call happened at once.  A subscription is an endpoint, its owner and    *)
(* the customers it is linked to.  The promise is off once a call rests on *)
(* what another has changed.                                               *)
(***************************************************************************)
CONSTANTS
  Device, Account, Endpoint, Customer,
  None  \* no owner or endpoint

VARIABLES
  registered,  \* the subscriptions
  gone,        \* endpoints the push service has dropped
  event,       \* the call that changed them in the latest step
  excused      \* nothing is promised any more

Did(what, owner, e, links) ==
  [what |-> what, owner |-> owner, endpoint |-> e, links |-> links]
Nothing == Did("none", None, None, {})

vars == <<registered, gone, event, excused>>

Init ==
  /\ registered = {}
  /\ gone = {}
  /\ event = Nothing
  /\ excused = FALSE

Subscription(owner, e, links) ==
  [endpoint |-> e, owner |-> owner, links |-> links]

\* A device has one endpoint and an endpoint one owner; that of an account is
\* not given to a device.
Register(d, e, customers) ==
  /\ event' = Did("register", d, e, customers)
  /\ \A s \in registered : s.endpoint = e => s.owner \notin Account
  /\ registered' = {s \in registered : s.endpoint # e /\ s.owner # d}
                     \union {Subscription(d, e, customers)}
  /\ UNCHANGED gone

\* An account takes an endpoint, with no customer left linked to it.
Claim(a, e) ==
  /\ event' = Did("claim", a, e, {})
  /\ registered' = {s \in registered : s.endpoint # e}
                     \union {Subscription(a, e, {})}
  /\ UNCHANGED gone

Remove(a, e) ==
  /\ event' = Did("drop", a, e, {})
  /\ registered' = {s \in registered : ~(s.endpoint = e /\ s.owner = a)}
  /\ UNCHANGED gone

Leave(d) ==
  /\ event' = Did("drop", d, None, {})
  /\ registered' = {s \in registered : s.owner # d}
  /\ UNCHANGED gone

\* A delivery sweeps the endpoint it was sent to, once that is gone; one
\* registered there again meanwhile may stay.
Sweep(e) ==
  /\ event' = Did("sweep", None, e, {})
  /\ e \in gone
  /\ registered' \in {registered, {s \in registered : s.endpoint # e}}
  /\ UNCHANGED gone

Expire ==
  /\ event' = Did("expire", None, None, {})
  /\ registered' \subseteq registered
  /\ UNCHANGED gone

\* The push service drops endpoints, and calls come and go.
Drop ==
  /\ event' = Nothing
  /\ gone \subseteq gone'
  /\ UNCHANGED registered

KeepPromise ==
  \/ Drop
  \/ \E d \in Device, e \in Endpoint, customers \in SUBSET Customer :
       Register(d, e, customers)
  \/ \E a \in Account, e \in Endpoint : Claim(a, e) \/ Remove(a, e)
  \/ \E d \in Device : Leave(d)
  \/ \E e \in Endpoint : Sweep(e)
  \/ Expire

Next == excused' \/ (KeepPromise /\ UNCHANGED excused)

Spec == Init /\ [][Next]_vars
=============================================================================

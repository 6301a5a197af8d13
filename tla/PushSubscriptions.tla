------------------------- MODULE PushSubscriptions -------------------------
(***************************************************************************)
(* The table of browsers that receive push notifications: a row belongs to *)
(* a merchant or administrator ("account") or to the installed app of a    *)
(* customer ("device"), linked to the customers it has identified as.      *)
(*                                                                         *)
(* An upsert reads the rows it needs and writes them by id when it         *)
(* commits; the worker reads the rows it sends to and later deletes by id  *)
(* those whose endpoint the push service reports gone.  Reads of one call  *)
(* are taken at once.  What the indexes and the check constraint of the    *)
(* table refuse, and an update or a delete of a row that is no longer      *)
(* there, is a transaction that fails, as in RollBack.                     *)
(*                                                                         *)
(* Left out: keys, encryption but for the endpoint inside it, whether Web  *)
(* Push is configured, and how the identities of a customer are resolved.  *)
(***************************************************************************)
EXTENDS Integers

CONSTANTS
  Call,      \* requests and deliveries
  Device,    \* device credentials of customers' apps
  Account,   \* merchants and administrators
  Endpoint,  \* of browsers
  Customer,  \* global customers
  None,      \* no owner, endpoint or row
  MaxRows,   \* bound on the rows created
  MaxRaces   \* bound on writes that rest on a stale read

ASSUME ConstantsAssumption ==
  /\ None \notin Device \union Account \union Endpoint \union Nat
  /\ Device \intersect Account = {}
  /\ MaxRows \in Nat
  /\ MaxRaces \in Nat

VARIABLES
  issued,   \* push_subscriptions: ids given out
  row,      \* push_subscriptions and push_subscription_customers
  gone,     \* endpoints the push service has dropped
  request,  \* calls: what each is doing
  event,    \* history: the call that wrote the table in the latest step
  races     \* history: writes that rest on a stale read

vars == <<issued, row, gone, request, event, races>>

Owner == Device \union Account
Id    == 1 .. MaxRows

\* "endpoint" is the hash that is unique, "address" where messages go.
Row == [owner    : Owner \union {None},
        endpoint : Endpoint \union {None},
        address  : Endpoint \union {None},
        links    : SUBSET Customer]
NoRow == [owner |-> None, endpoint |-> None, address |-> None, links |-> {}]

\* "mine" is the row found by device or sent to, "there" the one found by
\* endpoint, "links" the links asked for or cleared.
Request == [kind     : {"idle", "register", "claim", "deliver"},
            owner    : Owner \union {None},
            endpoint : Endpoint \union {None},
            mine     : Id \union {None},
            there    : Id \union {None},
            links    : SUBSET Customer]
Idle == [kind |-> "idle", owner |-> None, endpoint |-> None, mine |-> None,
         there |-> None, links |-> {}]

Event == [what     : {"none", "register", "claim", "drop", "expire", "sweep"},
          owner    : Owner \union {None},
          endpoint : Endpoint \union {None},
          links    : SUBSET Customer]
Did(what, owner, e, links) ==
  [what |-> what, owner |-> owner, endpoint |-> e, links |-> links]
Nothing == Did("none", None, None, {})

TypeOK ==
  /\ issued \in 0 .. MaxRows
  /\ row \in [Id -> Row]
  /\ gone \subseteq Endpoint
  /\ request \in [Call -> Request]
  /\ event \in Event
  /\ races \in Nat

Init ==
  /\ issued = 0
  /\ row = [r \in Id |-> NoRow]
  /\ gone = {}
  /\ request = [c \in Call |-> Idle]
  /\ event = Nothing
  /\ races = 0

-----------------------------------------------------------------------------
(* Lookups and commits                                                     *)

Exists(r) == row[r].owner # None

\* findUnique: row r is the one of device d, of endpoint e; None if there is
\* no such row.
OfDevice(r, d) ==
  IF r = None THEN \A s \in Id : row[s].owner # d ELSE row[r].owner = d
OfEndpoint(r, e) ==
  IF r = None THEN \A s \in Id : row[s].endpoint # e ELSE row[r].endpoint = e

Begins(c, call) ==
  /\ request[c] = Idle
  /\ request' = [request EXCEPT ![c] = call]
  /\ event' = Nothing
  /\ UNCHANGED <<issued, row, gone, races>>

Ends(c, what, stale) ==
  /\ request' = [request EXCEPT ![c] = Idle]
  /\ event' = what
  /\ IF stale THEN races < MaxRaces /\ races' = races + 1 ELSE UNCHANGED races

NewRow(owner, e, links) ==
  [owner |-> owner, endpoint |-> e, address |-> e, links |-> links]

Create(new) ==
  /\ issued < MaxRows
  /\ issued' = issued + 1
  /\ row' = [row EXCEPT ![issued + 1] = new]

-----------------------------------------------------------------------------
(* upsertCustomerSubscription                                              *)

\* An endpoint of a merchant or an administrator is refused.
MayRegisterAny(there) == TRUE
MayRegister(there)    == there # None => row[there].owner \notin Account

BeginRegister(c, d, e, customers, mine, there) ==
  /\ OfDevice(mine, d)
  /\ OfEndpoint(there, e)
  /\ MayRegister(there)
  /\ Begins(c, [kind |-> "register", owner |-> d, endpoint |-> e,
                mine |-> mine, there |-> there, links |-> customers])

\* The row of the device moves to the endpoint; another one there is deleted.
MoveRowBeside(mine, there, e, links) ==
  /\ Exists(mine)
  /\ row' = [row EXCEPT ![mine] = NewRow(row[mine].owner, row[mine].endpoint, links)]
  /\ UNCHANGED issued
MoveRow(mine, there, e, links) ==
  /\ Exists(mine)
  /\ there # None => Exists(there)
  /\ \A s \in Id \ {mine, there} : row[s].endpoint # e
  /\ row' = [s \in Id |->
               IF s = mine THEN NewRow(row[mine].owner, e, links)
               ELSE IF s = there THEN NoRow ELSE row[s]]
  /\ UNCHANGED issued

\* The row at the endpoint becomes the device's, at the endpoint it has now.
AdoptRow(there, d, e, links) ==
  /\ row[there].owner \in Device
  /\ \A s \in Id \ {there} : row[s].owner # d
  /\ row' = [row EXCEPT ![there] =
               [NewRow(d, e, links) EXCEPT !.endpoint = row[there].endpoint]]
  /\ UNCHANGED issued

CreateRow(d, e, links) ==
  /\ OfDevice(None, d)
  /\ OfEndpoint(None, e)
  /\ Create(NewRow(d, e, links))

RegisterStale(q) ==
  ~OfDevice(q.mine, q.owner) \/ ~OfEndpoint(q.there, q.endpoint)
    \/ ~MayRegister(q.there)

UpsertCustomerSubscription(c) ==
  LET q == request[c]
  IN  /\ q.kind = "register"
      /\ \/ q.mine # None /\ MoveRow(q.mine, q.there, q.endpoint, q.links)
         \/ /\ q.mine = None /\ q.there # None
            /\ AdoptRow(q.there, q.owner, q.endpoint, q.links)
         \/ /\ q.mine = None /\ q.there = None
            /\ CreateRow(q.owner, q.endpoint, q.links)
      /\ Ends(c, Did("register", q.owner, q.endpoint, q.links), RegisterStale(q))
      /\ UNCHANGED gone

-----------------------------------------------------------------------------
(* upsertSubscription, of merchants and administrators                     *)

LinksAt(there) == IF there = None THEN {} ELSE row[there].links

BeginClaim(c, a, e, there) ==
  /\ OfEndpoint(there, e)
  /\ Begins(c, [kind |-> "claim", owner |-> a, endpoint |-> e, mine |-> None,
                there |-> there, links |-> LinksAt(there)])

\* The links that were there to be deleted; others survive.
Uncleared(q, r) == row[r].links \ (IF r = q.there THEN q.links ELSE {})

ClaimStale(q) ==
  ~OfEndpoint(q.there, q.endpoint) \/ ~(LinksAt(q.there) \subseteq q.links)

\* The upsert finds the row of the endpoint as it is by then.
UpsertSubscription(c) ==
  LET q == request[c]
  IN  /\ q.kind = "claim"
      /\ \/ /\ OfEndpoint(None, q.endpoint)
            /\ Create(NewRow(q.owner, q.endpoint, {}))
         \/ \E r \in Id :
              /\ row[r].endpoint = q.endpoint
              /\ row' = [row EXCEPT ![r] =
                           NewRow(q.owner, q.endpoint, Uncleared(q, r))]
              /\ UNCHANGED issued
      /\ Ends(c, Did("claim", q.owner, q.endpoint, {}), ClaimStale(q))
      /\ UNCHANGED gone

-----------------------------------------------------------------------------
(* Removals                                                                *)

Delete(rows, what) ==
  /\ row' = [r \in Id |-> IF r \in rows THEN NoRow ELSE row[r]]
  /\ event' = what
  /\ UNCHANGED <<issued, gone>>

\* deleteMerchantSubscription, deleteAdminSubscription.
DeleteSubscription(a, e) ==
  /\ Delete({r \in Id : row[r].endpoint = e /\ row[r].owner = a},
            Did("drop", a, e, {}))
  /\ UNCHANGED <<request, races>>

DeleteCustomerSubscription(d) ==
  /\ Delete({r \in Id : row[r].owner = d}, Did("drop", d, None, {}))
  /\ UNCHANGED <<request, races>>

\* cleanup: rows not refreshed for the retention window or past their time.
Cleanup(outdated) ==
  /\ Delete(outdated, Did("expire", None, None, {}))
  /\ UNCHANGED <<request, races>>

Drop(e) ==
  /\ gone' = gone \union {e}
  /\ event' = Nothing
  /\ UNCHANGED <<issued, row, request, races>>

\* resolveDeliveryTargets, for one of its targets.
BeginDeliver(c, r) ==
  /\ Exists(r)
  /\ Begins(c, [kind |-> "deliver", owner |-> None,
                endpoint |-> row[r].address, mine |-> r, there |-> None,
                links |-> {}])

\* deliver: the push service answers 404 or 410.
IsGone(e) == e \in gone

DeleteSubscriptionById(c) ==
  LET q == request[c]
  IN  /\ q.kind = "deliver"
      /\ IsGone(q.endpoint)
      /\ Delete({q.mine}, Did("sweep", None, q.endpoint, {}))
      /\ Ends(c, Did("sweep", None, q.endpoint, {}),
              Exists(q.mine) /\ row[q.mine].address # q.endpoint)

\* A transaction fails, a message is delivered or given up, or its process
\* dies.
RollBack(c) ==
  /\ request[c] # Idle
  /\ request' = [request EXCEPT ![c] = Idle]
  /\ event' = Nothing
  /\ UNCHANGED <<issued, row, gone, races>>

-----------------------------------------------------------------------------

BeginCall(c) ==
  \/ \E d \in Device, e \in Endpoint, customers \in SUBSET Customer,
        mine, there \in Id \union {None} :
       BeginRegister(c, d, e, customers, mine, there)
  \/ \E a \in Account, e \in Endpoint, there \in Id \union {None} :
       BeginClaim(c, a, e, there)
  \/ \E r \in Id : BeginDeliver(c, r)

EndCall(c) ==
  \/ UpsertCustomerSubscription(c)
  \/ UpsertSubscription(c)
  \/ DeleteSubscriptionById(c)
  \/ RollBack(c)

Next ==
  \/ \E c \in Call : BeginCall(c) \/ EndCall(c)
  \/ \E a \in Account, e \in Endpoint : DeleteSubscription(a, e)
  \/ \E d \in Device : DeleteCustomerSubscription(d)
  \/ \E e \in Endpoint : Drop(e)
  \/ \E outdated \in SUBSET Id : Cleanup(outdated)

Spec == Init /\ [][Next]_vars

-----------------------------------------------------------------------------
(* Properties                                                              *)

\* "Existing merchant and administrator subscriptions can never be converted":
\* only a customer's registration that another write has overtaken removes,
\* takes over or moves one.
AccountsKeepTheirs ==
  [][event'.what = "register" /\ races' = races =>
       \A r \in Id : row[r].owner \in Account =>
         row'[r] = row[r]]_vars

\* A delivery removes a subscription only if the push service has dropped the
\* endpoint it has now, unless it moved while the message was on its way.
SweptWhenGone ==
  [][event'.what = "sweep" /\ races' = races =>
       \A r \in Id : Exists(r) /\ row'[r] = NoRow
                       => row[r].address \in gone]_vars

\* The subscriptions as those who hold them see them.
Registered ==
  {[endpoint |-> row[r].address, owner |-> row[r].owner,
    links |-> row[r].links] : r \in {s \in Id : Exists(s)}}

\* Until a write rests on a stale read, every call does to the subscriptions
\* what it is for and nothing else.
Contract == INSTANCE PushContract
              WITH registered <- Registered, excused <- (races > 0)
ImplementsContract == Contract!Spec

-----------------------------------------------------------------------------
(* The inductive invariant                                                 *)

\* Rows are created in the order of their ids, and rows that are there have
\* all their parts.
RowsInv ==
  /\ \A r \in Id : r > issued => row[r] = NoRow
  /\ \A r \in Id :
       IF Exists(r) THEN row[r].endpoint # None /\ row[r].address # None
                    ELSE row[r] = NoRow

\* One row for an endpoint, and one for a device.
UniqueInv ==
  \A r, s \in Id : Exists(r) /\ Exists(s) /\ r # s =>
    /\ row[r].endpoint # row[s].endpoint
    /\ row[r].owner \in Device => row[r].owner # row[s].owner

\* What races alone can break: a row is sent to where it is looked up, and
\* one of an account links to no customer.
SoundInv ==
  races = 0 =>
    \A r \in Id : /\ row[r].address = row[r].endpoint
                  /\ row[r].owner \in Account => row[r].links = {}

RequestInv ==
  \A c \in Call :
    /\ request[c].kind = "register" => /\ request[c].owner \in Device
                                       /\ request[c].endpoint \in Endpoint
    /\ request[c].kind = "claim" => /\ request[c].owner \in Account
                                    /\ request[c].endpoint \in Endpoint
    /\ request[c].kind = "deliver" => /\ request[c].mine \in Id
                                      /\ request[c].endpoint \in Endpoint

IInv ==
  /\ TypeOK
  /\ RowsInv
  /\ UniqueInv
  /\ SoundInv
  /\ RequestInv
=============================================================================

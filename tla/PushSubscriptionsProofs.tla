---------------------- MODULE PushSubscriptionsProofs ----------------------
(***************************************************************************)
(* Proofs about the push subscriptions for any number of calls, devices,   *)
(* accounts, endpoints, rows and races: the invariants TLC checks on small *)
(* instances, what a registration and a delivery may never do to the       *)
(* subscription of another, and that the table implements PushContract,    *)
(* whose promise is off once a write rests on a stale read.                *)
(***************************************************************************)
EXTENDS PushSubscriptions, TLAPS

LEMMA NoneIsNoId == None \notin Id /\ None \notin Owner /\ None \notin Endpoint
  BY ConstantsAssumption DEF Id, Owner

LEMMA IdleType == Idle \in Request /\ Idle.kind = "idle"
  BY DEF Idle, Request

LEMMA NoRowType == NoRow \in Row /\ NoRow.owner = None
                     /\ NoRow.endpoint = None /\ NoRow.address = None
                     /\ NoRow.links = {}
  BY DEF NoRow, Row

LEMMA NewRowType ==
  ASSUME NEW owner \in Owner, NEW e \in Endpoint, NEW links \in SUBSET Customer
  PROVE  /\ NewRow(owner, e, links) \in Row
         /\ NewRow(owner, e, links).owner = owner
         /\ NewRow(owner, e, links).endpoint = e
         /\ NewRow(owner, e, links).address = e
         /\ NewRow(owner, e, links).links = links
  BY DEF NewRow, Row

LEMMA DidType ==
  ASSUME NEW what \in {"none", "register", "claim", "drop", "expire", "sweep"},
         NEW owner \in Owner \union {None}, NEW e \in Endpoint \union {None},
         NEW links \in SUBSET Customer
  PROVE  Did(what, owner, e, links) \in Event
           /\ Did(what, owner, e, links).what = what
  BY DEF Did, Event

LEMMA NothingType == Nothing \in Event /\ Nothing.what = "none"
  BY DidType DEF Nothing

LEMMA BeginsType ==
  ASSUME TypeOK, RequestInv, NEW c \in Call, NEW call \in Request,
         Begins(c, call),
         call.kind = "register" => call.owner \in Device
                                     /\ call.endpoint \in Endpoint,
         call.kind = "claim" => call.owner \in Account
                                  /\ call.endpoint \in Endpoint,
         call.kind = "deliver" => call.mine \in Id /\ call.endpoint \in Endpoint
  PROVE  /\ request' \in [Call -> Request]
         /\ event' \in Event
         /\ event'.what = "none"
         /\ RequestInv'
         /\ UNCHANGED <<issued, row, gone, races>>
<1>1. request' \in [Call -> Request] /\ UNCHANGED <<issued, row, gone, races>>
        /\ event' \in Event /\ event'.what = "none"
  BY NothingType DEF Begins, TypeOK
<1>2. \A b \in Call : request'[b] = IF b = c THEN call ELSE request[b]
  BY DEF Begins, TypeOK
<1>3. RequestInv'
  BY <1>2 DEF RequestInv
<1>4. QED
  BY <1>1, <1>3

LEMMA EndsType ==
  ASSUME TypeOK, RequestInv, NEW c \in Call, NEW what \in Event, NEW stale,
         Ends(c, what, stale)
  PROVE  /\ request' \in [Call -> Request]
         /\ event' = what
         /\ RequestInv'
         /\ races' \in Nat
         /\ races <= races'
         /\ races' = races => ~stale
<1>1. \A b \in Call : request'[b] = IF b = c THEN Idle ELSE request[b]
  BY DEF Ends, TypeOK
<1>2. RequestInv'
  BY <1>1, IdleType DEF RequestInv
<1>3. races' \in Nat /\ races <= races' /\ (races' = races => ~stale)
  BY DEF Ends, TypeOK
<1>4. QED
  BY <1>2, <1>3, IdleType DEF Ends, TypeOK

\* What a call in progress knows.
LEMMA RequestTypes ==
  ASSUME TypeOK, RequestInv, NEW c \in Call
  PROVE  /\ request[c] \in Request
         /\ request[c].mine \in Id \union {None}
         /\ request[c].there \in Id \union {None}
         /\ request[c].links \in SUBSET Customer
         /\ request[c].kind = "register" => request[c].owner \in Device
                                              /\ request[c].endpoint \in Endpoint
         /\ request[c].kind = "claim" => request[c].owner \in Account
                                           /\ request[c].endpoint \in Endpoint
         /\ request[c].kind = "deliver" => request[c].mine \in Id
                                             /\ request[c].endpoint \in Endpoint
  BY DEF TypeOK, RequestInv, Request

\* A row is there if it has an owner, an endpoint or an address.
LEMMA RowTypes ==
  ASSUME TypeOK, RowsInv, NEW r \in Id
  PROVE  /\ row[r] \in Row
         /\ row[r].links \in SUBSET Customer
         /\ row[r].owner \in Owner \union {None}
         /\ Exists(r) => /\ row[r].owner \in Owner
                         /\ row[r].endpoint \in Endpoint
                         /\ row[r].address \in Endpoint
                         /\ r <= issued
         /\ ~Exists(r) => row[r] = NoRow
         /\ row[r].owner \in Owner \union Device \union Account => Exists(r)
         /\ row[r].endpoint \in Endpoint => Exists(r)
<1>1. row[r] \in Row
  BY DEF TypeOK
<1>2. row[r].owner \in Owner \union {None}
        /\ row[r].endpoint \in Endpoint \union {None}
        /\ row[r].address \in Endpoint \union {None}
        /\ row[r].links \in SUBSET Customer
  BY <1>1 DEF Row
<1>3. Exists(r) => row[r].endpoint # None /\ row[r].address # None
  BY DEF RowsInv
<1>4. ~Exists(r) => row[r] = NoRow
  BY DEF RowsInv
<1>5. Exists(r) => ~(r > issued)
  BY NoRowType DEF RowsInv, Exists
<1>6. Exists(r) => r <= issued
  BY <1>5 DEF TypeOK, Id
<1>7. QED
  BY <1>1, <1>2, <1>3, <1>4, <1>6, NoneIsNoId, NoRowType DEF Exists, Owner

\* The row of an endpoint is the only one.
LEMMA OneRow ==
  ASSUME TypeOK, RowsInv, UniqueInv, NEW r \in Id, NEW s \in Id, Exists(r),
         row[r].endpoint = row[s].endpoint
  PROVE  r = s
<1>1. Exists(s)
  BY RowTypes
<1>2. QED
  BY <1>1 DEF UniqueInv

-----------------------------------------------------------------------------
(* The invariant of the table, for every way it is written                 *)

TableInv == /\ row \in [Id -> Row]
            /\ issued \in 0 .. MaxRows
            /\ RowsInv
            /\ UniqueInv

\* One row is written, others are left or deleted.
LEMMA WriteTable ==
  ASSUME TypeOK, RowsInv, UniqueInv, issued' = issued,
         NEW m \in Id, NEW new \in Row, Exists(m),
         new.owner \in Owner, new.endpoint \in Endpoint,
         new.address \in Endpoint,
         row' \in [Id -> Row],
         row'[m] = new,
         \A s \in Id \ {m} : row'[s] \in {row[s], NoRow},
         \A s \in Id \ {m} : Exists(s) /\ row'[s] = row[s] =>
           row[s].endpoint # new.endpoint
             /\ (new.owner \in Device => row[s].owner # new.owner)
  PROVE  TableInv'
<1>1. issued' \in 0 .. MaxRows /\ m <= issued'
  BY RowTypes DEF TypeOK
<1>2. \A s \in Id : IF row'[s].owner # None
                    THEN row'[s].endpoint # None /\ row'[s].address # None
                    ELSE row'[s] = NoRow
  <2> TAKE s \in Id
  <2>1. CASE s = m
    BY <2>1, NoneIsNoId
  <2>2. CASE s # m
    BY <2>2, NoRowType DEF RowsInv, Exists
  <2>3. QED
    BY <2>1, <2>2
<1>3. \A s \in Id : s > issued' => row'[s] = NoRow
  BY <1>1 DEF RowsInv, Id
<1>4. RowsInv'
  BY <1>2, <1>3 DEF RowsInv, Exists
<1>5. ASSUME NEW r \in Id, NEW s \in Id, row'[r].owner # None,
             row'[s].owner # None, r # s
      PROVE  /\ row'[r].endpoint # row'[s].endpoint
             /\ row'[r].owner \in Device => row'[r].owner # row'[s].owner
  <2>1. CASE r # m /\ s # m
    <3>1. row'[r] = row[r] /\ row'[s] = row[s]
      BY <1>5, <2>1, NoRowType
    <3>2. QED
      BY <1>5, <3>1 DEF UniqueInv, Exists
  <2>2. CASE r = m
    <3>1. row'[s] = row[s] /\ Exists(s)
      BY <1>5, <2>2, NoRowType DEF Exists
    <3>2. QED
      BY <1>5, <2>2, <3>1
  <2>3. CASE s = m
    <3>1. row'[r] = row[r] /\ Exists(r)
      BY <1>5, <2>3, NoRowType DEF Exists
    <3>2. row[r].endpoint # new.endpoint
            /\ (new.owner \in Device => row[r].owner # new.owner)
      BY <1>5, <2>3, <3>1
    <3>3. QED
      BY <2>3, <3>1, <3>2
  <2>4. QED
    BY <2>1, <2>2, <2>3
<1>6. UniqueInv'
  BY <1>5 DEF UniqueInv, Exists
<1>7. QED
  BY <1>1, <1>4, <1>6 DEF TableInv

LEMMA CreateTable ==
  ASSUME TypeOK, RowsInv, UniqueInv, NEW owner \in Owner, NEW e \in Endpoint,
         NEW links \in SUBSET Customer, Create(NewRow(owner, e, links)),
         \A s \in Id : row[s].endpoint # e,
         owner \in Device => \A s \in Id : row[s].owner # owner
  PROVE  /\ TableInv'
         /\ issued + 1 \in Id
         /\ ~Exists(issued + 1)
         /\ \A s \in Id : row'[s] = IF s = issued + 1 THEN NewRow(owner, e, links)
                                                      ELSE row[s]
<1> DEFINE n == issued + 1
<1>1. n \in Id /\ issued' = n /\ issued' \in 0 .. MaxRows
  BY ConstantsAssumption DEF Create, TypeOK, Id
<1>2. \A s \in Id : row'[s] = IF s = n THEN NewRow(owner, e, links) ELSE row[s]
  BY <1>1 DEF Create, TypeOK
<1>3. ~Exists(n)
  <2>1. n > issued
    BY DEF TypeOK
  <2>2. QED
    BY <1>1, <2>1, NoRowType DEF RowsInv, Exists
<1>4. row' \in [Id -> Row]
  BY NewRowType DEF Create, TypeOK
<1>5. \A s \in Id : s > issued' => row'[s] = NoRow
  <2> TAKE s \in Id
  <2>1. s > issued' => s > issued /\ s # n
    BY <1>1 DEF TypeOK, Id
  <2>2. QED
    BY <1>2, <2>1 DEF RowsInv
<1>6. \A s \in Id : IF row'[s].owner # None
                    THEN row'[s].endpoint # None /\ row'[s].address # None
                    ELSE row'[s] = NoRow
  <2> TAKE s \in Id
  <2>1. CASE s = n
    BY <1>2, <2>1, NewRowType, NoneIsNoId
  <2>2. CASE s # n
    BY <1>2, <2>2 DEF RowsInv, Exists
  <2>3. QED
    BY <2>1, <2>2
<1>7. RowsInv'
  BY <1>5, <1>6 DEF RowsInv, Exists
<1>8. UniqueInv'
  <2>1. ASSUME NEW r \in Id, NEW s \in Id, row'[r].owner # None,
               row'[s].owner # None, r # s
        PROVE  /\ row'[r].endpoint # row'[s].endpoint
               /\ row'[r].owner \in Device => row'[r].owner # row'[s].owner
    <3>1. CASE r # n /\ s # n
      BY <1>2, <2>1, <3>1 DEF UniqueInv, Exists
    <3>2. CASE r = n
      BY <1>2, <2>1, <3>2, NewRowType
    <3>3. CASE s = n
      BY <1>2, <2>1, <3>3, NewRowType
    <3>4. QED
      BY <3>1, <3>2, <3>3
  <2>2. QED
    BY <2>1 DEF UniqueInv, Exists
<1>9. QED
  BY <1>1, <1>2, <1>3, <1>4, <1>7, <1>8 DEF TableInv

LEMMA DeleteTable ==
  ASSUME TypeOK, RowsInv, UniqueInv, NEW rows, NEW what, Delete(rows, what)
  PROVE  /\ TableInv'
         /\ \A s \in Id : row'[s] = IF s \in rows THEN NoRow ELSE row[s]
<1>1. \A s \in Id : row'[s] = IF s \in rows THEN NoRow ELSE row[s]
  BY DEF Delete
<1>2. row' \in [Id -> Row] /\ issued' = issued
  BY NoRowType DEF Delete, TypeOK
<1>3. RowsInv'
  BY <1>1, <1>2, NoRowType DEF RowsInv, Exists
<1>4. ASSUME NEW r \in Id, NEW s \in Id, row'[r].owner # None,
             row'[s].owner # None, r # s
      PROVE  /\ row'[r].endpoint # row'[s].endpoint
             /\ row'[r].owner \in Device => row'[r].owner # row'[s].owner
  <2>1. row'[r] = row[r] /\ row'[s] = row[s]
    BY <1>1, <1>4, NoRowType
  <2>2. QED
    BY <1>4, <2>1 DEF UniqueInv, Exists
<1>5. UniqueInv'
  BY <1>4 DEF UniqueInv, Exists
<1>6. QED
  BY <1>1, <1>2, <1>3, <1>5 DEF TableInv, TypeOK

-----------------------------------------------------------------------------
(* What each call writes                                                   *)

\* A registration: the row it leaves behind, at m, and the invariants.
LEMMA MoveStep ==
  ASSUME TypeOK, RowsInv, UniqueInv, NEW mine \in Id,
         NEW there \in Id \union {None}, NEW e \in Endpoint,
         NEW links \in SUBSET Customer, MoveRow(mine, there, e, links)
  PROVE  /\ TableInv'
         /\ \A s \in Id : row'[s] =
              IF s = mine THEN NewRow(row[mine].owner, e, links)
              ELSE IF s = there THEN NoRow ELSE row[s]
<1> DEFINE new == NewRow(row[mine].owner, e, links)
<1>1. Exists(mine) /\ issued' = issued /\ row[mine].owner \in Owner
  BY RowTypes DEF MoveRow
<1>2. \A s \in Id : row'[s] = IF s = mine THEN new
                              ELSE IF s = there THEN NoRow ELSE row[s]
  BY DEF MoveRow
<1>3. new \in Row /\ new.owner = row[mine].owner /\ new.endpoint = e
        /\ new.address = e
  BY <1>1, NewRowType
<1>4. row' \in [Id -> Row]
  <2>1. \A s \in Id : IF s = mine THEN new \in Row
                      ELSE IF s = there THEN NoRow \in Row ELSE row[s] \in Row
    BY <1>3, NoRowType, RowTypes
  <2>2. QED
    BY <2>1 DEF MoveRow
<1>5. \A s \in Id \ {mine} : row'[s] \in {row[s], NoRow}
  BY <1>2
<1>6. ASSUME NEW s \in Id \ {mine}, Exists(s), row'[s] = row[s]
      PROVE  /\ row[s].endpoint # new.endpoint
             /\ new.owner \in Device => row[s].owner # new.owner
  <2>1. s # there
    BY <1>2, <1>6, NoRowType DEF Exists
  <2>2. row[s].endpoint # e
    BY <1>6, <2>1 DEF MoveRow
  <2>3. row[mine].owner \in Device => row[s].owner # row[mine].owner
    BY <1>1, <1>6 DEF UniqueInv
  <2>4. QED
    BY <1>3, <2>2, <2>3
<1>7. TableInv'
  <2> HIDE DEF new
  <2>1. QED
    BY <1>1, <1>2, <1>3, <1>4, <1>5, <1>6, WriteTable
<1>8. QED
  BY <1>2, <1>7

LEMMA AdoptStep ==
  ASSUME TypeOK, RowsInv, UniqueInv, NEW there \in Id, NEW d \in Device,
         NEW e \in Endpoint, NEW links \in SUBSET Customer,
         AdoptRow(there, d, e, links)
  PROVE  /\ TableInv'
         /\ row[there].owner \in Device
         /\ row'[there].owner = d
         /\ row'[there].endpoint = row[there].endpoint
         /\ row'[there].address = e
         /\ row'[there].links = links
         /\ \A s \in Id \ {there} : row'[s] = row[s] /\ row[s].owner # d
<1> DEFINE new == [NewRow(d, e, links) EXCEPT !.endpoint = row[there].endpoint]
<1>1. Exists(there) /\ issued' = issued /\ row[there].owner \in Device
        /\ row[there].endpoint \in Endpoint
  BY RowTypes DEF AdoptRow, Owner
<1>2. new \in Row /\ new.owner = d /\ new.endpoint = row[there].endpoint
        /\ new.address = e /\ new.links = links
  BY <1>1 DEF NewRow, Row, Owner
<1>3. row' = [row EXCEPT ![there] = new]
  BY DEF AdoptRow
<1>4. \A s \in Id \ {there} : row'[s] = row[s] /\ row[s].owner # d
  BY <1>3 DEF AdoptRow, TypeOK
<1>5. row'[there] = new /\ row' \in [Id -> Row]
  BY <1>2, <1>3 DEF TypeOK
<1>6. \A s \in Id \ {there} : Exists(s) =>
        row[s].endpoint # row[there].endpoint
  BY <1>1 DEF UniqueInv
<1>7. TableInv'
  <2> HIDE DEF new
  <2>1. d \in Owner
    BY DEF Owner
  <2>2. QED
    BY <1>1, <1>2, <1>4, <1>5, <1>6, <2>1, WriteTable
<1>8. QED
  BY <1>1, <1>2, <1>4, <1>5, <1>7

\* A claim of the row at an endpoint.
LEMMA ClaimStep ==
  ASSUME TypeOK, RowsInv, UniqueInv, NEW r \in Id, NEW a \in Account,
         NEW e \in Endpoint, row[r].endpoint = e, NEW new \in Row,
         new.owner = a, new.endpoint = e, new.address = e,
         issued' = issued, row' \in [Id -> Row],
         \A s \in Id : row'[s] = IF s = r THEN new ELSE row[s]
  PROVE  TableInv'
<1>1. a \in Owner /\ a \notin Device
  BY ConstantsAssumption DEF Owner
<1>2. Exists(r)
  BY RowTypes
<1>3. \A s \in Id \ {r} : Exists(s) => row[s].endpoint # e
  BY <1>2 DEF UniqueInv
<1>4. QED
  BY <1>1, <1>2, <1>3, WriteTable

-----------------------------------------------------------------------------
(* Invariance                                                              *)

LEMMA InitIInv == Init => IInv
<1> SUFFICES ASSUME Init PROVE IInv
  OBVIOUS
<1>1. TypeOK
  BY ConstantsAssumption, NoRowType, IdleType, NothingType DEF Init, TypeOK
<1>2. RowsInv /\ UniqueInv /\ SoundInv
  BY NoRowType, ConstantsAssumption
     DEF Init, RowsInv, UniqueInv, SoundInv, Exists, Owner
<1>3. RequestInv
  BY IdleType DEF Init, RequestInv
<1>4. QED
  BY <1>1, <1>2, <1>3 DEF IInv

\* A row of an account after a sound write has no links, one of any owner is
\* sent to where it is looked up.
LEMMA RegisterInv ==
  ASSUME IInv, NEW c \in Call, UpsertCustomerSubscription(c) PROVE IInv'
<1> DEFINE q == request[c]
<1>1. q.kind = "register" /\ q.owner \in Device /\ q.endpoint \in Endpoint
        /\ q.links \in SUBSET Customer /\ q.mine \in Id \union {None}
        /\ q.there \in Id \union {None} /\ gone' = gone
  BY RequestTypes DEF UpsertCustomerSubscription, IInv
<1>2. Did("register", q.owner, q.endpoint, q.links) \in Event
  BY <1>1, DidType DEF Owner
<1>3. /\ request' \in [Call -> Request]
      /\ event' \in Event
      /\ RequestInv'
      /\ races' \in Nat /\ races <= races'
      /\ races' = races => ~RegisterStale(q)
  <2>1. Ends(c, Did("register", q.owner, q.endpoint, q.links), RegisterStale(q))
    BY DEF UpsertCustomerSubscription
  <2> HIDE DEF q
  <2>2. QED
    BY <1>2, <2>1, EndsType DEF IInv
<1>4. races' = 0 => races = 0 /\ ~RegisterStale(q)
  BY <1>3 DEF IInv, TypeOK
<1> SUFFICES TableInv' /\ SoundInv'
  BY <1>1, <1>3 DEF IInv, TypeOK, TableInv
<1>5. CASE q.mine # None /\ MoveRow(q.mine, q.there, q.endpoint, q.links)
  <2> DEFINE mine == q.mine
             there == q.there
             e == q.endpoint
             links == q.links
  <2>1. mine \in Id
    BY <1>1, <1>5
  <2>2. /\ TableInv'
        /\ \A s \in Id : row'[s] =
             IF s = mine THEN NewRow(row[mine].owner, e, links)
             ELSE IF s = there THEN NoRow ELSE row[s]
    BY <1>1, <1>5, <2>1, MoveStep, SMTT(30) DEF IInv
  <2>3. row[mine].owner \in Owner
    BY <1>5, <2>1, RowTypes DEF MoveRow, IInv
  <2>4. races' = 0 => row[mine].owner \in Device
    BY <1>1, <1>4, <1>5 DEF RegisterStale, OfDevice
  <2>5. SoundInv'
    BY <1>1, <1>4, <2>2, <2>3, <2>4, NewRowType, NoRowType, NoneIsNoId,
       ConstantsAssumption DEF SoundInv, IInv, Owner
  <2>6. QED
    BY <2>2, <2>5
<1>6. CASE q.mine = None /\ q.there # None
             /\ AdoptRow(q.there, q.owner, q.endpoint, q.links)
  <2> DEFINE there == q.there
  <2>1. there \in Id
    BY <1>1, <1>6
  <2>2. /\ TableInv'
        /\ row'[there].owner = q.owner
        /\ row'[there].endpoint = row[there].endpoint
        /\ row'[there].address = q.endpoint
        /\ \A s \in Id \ {there} : row'[s] = row[s]
    BY <1>1, <1>6, <2>1, AdoptStep DEF IInv
  <2>3. races' = 0 => row[there].endpoint = q.endpoint
    BY <1>4, <1>6 DEF RegisterStale, OfEndpoint
  <2>4. SoundInv'
    BY <1>1, <1>4, <2>2, <2>3, ConstantsAssumption DEF SoundInv, IInv
  <2>5. QED
    BY <2>2, <2>4
<1>7. CASE q.mine = None /\ q.there = None
             /\ CreateRow(q.owner, q.endpoint, q.links)
  <2>1. /\ TableInv'
        /\ \A s \in Id : row'[s] =
             IF s = issued + 1 THEN NewRow(q.owner, q.endpoint, q.links)
                               ELSE row[s]
    BY <1>1, <1>7, CreateTable DEF CreateRow, OfDevice, OfEndpoint, IInv, Owner
  <2>2. SoundInv'
    BY <1>1, <1>4, <2>1, NewRowType, ConstantsAssumption
       DEF SoundInv, IInv, Owner
  <2>3. QED
    BY <2>1, <2>2
<1>8. QED
  BY <1>5, <1>6, <1>7 DEF UpsertCustomerSubscription

\* The row a claim finds by endpoint is the one it read, unless it is stale.
LEMMA ClaimFindsIt ==
  ASSUME IInv, NEW q \in Request, q.endpoint \in Endpoint, ~ClaimStale(q),
         NEW r \in Id, row[r].endpoint = q.endpoint
  PROVE  Uncleared(q, r) = {}
<1>1. OfEndpoint(q.there, q.endpoint) /\ LinksAt(q.there) \subseteq q.links
  BY DEF ClaimStale
<1>2. q.there \in Id \union {None}
  BY DEF Request
<1>3. q.there # None
  BY <1>1 DEF OfEndpoint
<1>4. Exists(r)
  BY RowTypes DEF IInv
<1>5. r = q.there
  BY <1>1, <1>2, <1>3, <1>4, OneRow DEF OfEndpoint, IInv
<1>6. QED
  BY <1>1, <1>3, <1>5 DEF Uncleared, LinksAt

LEMMA ClaimInv ==
  ASSUME IInv, NEW c \in Call, UpsertSubscription(c) PROVE IInv'
<1> DEFINE q == request[c]
<1>1. q \in Request /\ q.kind = "claim" /\ q.owner \in Account
        /\ q.endpoint \in Endpoint /\ q.links \in SUBSET Customer
        /\ gone' = gone
  BY RequestTypes DEF UpsertSubscription, IInv
<1>2. Did("claim", q.owner, q.endpoint, {}) \in Event
  BY <1>1, DidType DEF Owner
<1>3. /\ request' \in [Call -> Request]
      /\ event' \in Event
      /\ RequestInv'
      /\ races' \in Nat /\ races <= races'
      /\ races' = races => ~ClaimStale(q)
  <2>1. Ends(c, Did("claim", q.owner, q.endpoint, {}), ClaimStale(q))
    BY DEF UpsertSubscription
  <2> HIDE DEF q
  <2>2. QED
    BY <1>2, <2>1, EndsType DEF IInv
<1>4. races' = 0 => races = 0 /\ ~ClaimStale(q)
  BY <1>3 DEF IInv, TypeOK
<1> SUFFICES TableInv' /\ SoundInv'
  BY <1>1, <1>3 DEF IInv, TypeOK, TableInv
<1>5. CASE OfEndpoint(None, q.endpoint) /\ Create(NewRow(q.owner, q.endpoint, {}))
  <2>1. q.owner \notin Device /\ q.owner \in Owner
    BY <1>1, ConstantsAssumption DEF Owner
  <2>2. /\ TableInv'
        /\ \A s \in Id : row'[s] =
             IF s = issued + 1 THEN NewRow(q.owner, q.endpoint, {})
                               ELSE row[s]
    BY <1>1, <1>5, <2>1, CreateTable DEF OfEndpoint, IInv
  <2>3. SoundInv'
    BY <1>1, <1>4, <2>1, <2>2, NewRowType DEF SoundInv, IInv
  <2>4. QED
    BY <2>2, <2>3
<1>6. ASSUME NEW r \in Id, row[r].endpoint = q.endpoint,
             row' = [row EXCEPT ![r] =
                       NewRow(q.owner, q.endpoint, Uncleared(q, r))],
             issued' = issued
      PROVE  TableInv' /\ SoundInv'
  <2>1. Uncleared(q, r) \in SUBSET Customer
    BY <1>1, RowTypes DEF Uncleared, IInv
  <2> DEFINE new == NewRow(q.owner, q.endpoint, Uncleared(q, r))
  <2>2. new \in Row /\ new.owner = q.owner /\ new.endpoint = q.endpoint
          /\ new.address = q.endpoint /\ new.links = Uncleared(q, r)
    BY <1>1, <2>1, NewRowType DEF Owner
  <2>3. /\ row' \in [Id -> Row]
        /\ \A s \in Id : row'[s] = IF s = r THEN new ELSE row[s]
    BY <1>6, <2>2 DEF IInv, TypeOK
  <2>4. q.owner \in Account /\ q.endpoint \in Endpoint /\ issued' = issued
          /\ row[r].endpoint = q.endpoint /\ TypeOK /\ RowsInv /\ UniqueInv
    BY <1>1, <1>6 DEF IInv
  <2> HIDE DEF new, q
  <2>5. TableInv'
    BY <2>2, <2>3, <2>4, ClaimStep
  <2>6. races' = 0 => Uncleared(q, r) = {}
    BY <1>1, <1>4, <1>6, ClaimFindsIt
  <2>7. SoundInv'
    BY <1>1, <1>4, <2>2, <2>3, <2>6 DEF SoundInv, IInv
  <2>8. QED
    BY <2>5, <2>7
<1>7. QED
  BY <1>5, <1>6 DEF UpsertSubscription

LEMMA DeleteSound ==
  ASSUME IInv, NEW rows, NEW what, Delete(rows, what), races' \in Nat,
         races <= races'
  PROVE  TableInv' /\ SoundInv' /\ gone' = gone /\ event' = what
<1>1. TableInv'
        /\ \A s \in Id : row'[s] = IF s \in rows THEN NoRow ELSE row[s]
  BY DeleteTable DEF IInv
<1>2. races' = 0 => races = 0
  BY DEF IInv, TypeOK
<1>3. SoundInv'
  BY <1>1, <1>2, NoRowType, NoneIsNoId DEF SoundInv, IInv, Owner
<1>4. QED
  BY <1>1, <1>3 DEF Delete

LEMMA NextIInv == IInv /\ [Next]_vars => IInv'
<1> SUFFICES ASSUME IInv, [Next]_vars PROVE IInv'
  OBVIOUS
<1> USE DEF IInv
<1>1. ASSUME NEW c \in Call, NEW call \in Request, Begins(c, call),
             call.kind = "register" => call.owner \in Device
                                         /\ call.endpoint \in Endpoint,
             call.kind = "claim" => call.owner \in Account
                                      /\ call.endpoint \in Endpoint,
             call.kind = "deliver" => call.mine \in Id
                                        /\ call.endpoint \in Endpoint
      PROVE  IInv'
  <2>1. /\ request' \in [Call -> Request]
        /\ event' \in Event
        /\ RequestInv'
        /\ UNCHANGED <<issued, row, gone, races>>
    BY <1>1, BeginsType
  <2>2. TypeOK' /\ RowsInv' /\ UniqueInv' /\ SoundInv'
    BY <2>1 DEF TypeOK, RowsInv, UniqueInv, SoundInv, Exists
  <2>3. QED
    BY <2>1, <2>2
<1>2. ASSUME NEW c \in Call, NEW d \in Device, NEW e \in Endpoint,
             NEW customers \in SUBSET Customer,
             NEW mine \in Id \union {None}, NEW there \in Id \union {None},
             BeginRegister(c, d, e, customers, mine, there)
      PROVE  IInv'
  <2> DEFINE call == [kind |-> "register", owner |-> d, endpoint |-> e,
                      mine |-> mine, there |-> there, links |-> customers]
  <2>1. call \in Request /\ call.kind = "register" /\ call.owner = d
          /\ call.endpoint = e
    BY DEF Request, Owner
  <2>2. Begins(c, call)
    BY <1>2 DEF BeginRegister
  <2> HIDE DEF call
  <2>3. QED
    BY <1>1, <2>1, <2>2
<1>3. ASSUME NEW c \in Call, NEW a \in Account, NEW e \in Endpoint,
             NEW there \in Id \union {None}, BeginClaim(c, a, e, there)
      PROVE  IInv'
  <2> DEFINE call == [kind |-> "claim", owner |-> a, endpoint |-> e,
                      mine |-> None, there |-> there, links |-> LinksAt(there)]
  <2>1. LinksAt(there) \in SUBSET Customer
    BY RowTypes DEF LinksAt
  <2>2. call \in Request /\ call.kind = "claim" /\ call.owner = a
          /\ call.endpoint = e
    BY <2>1 DEF Request, Owner
  <2>3. Begins(c, call)
    BY <1>3 DEF BeginClaim
  <2> HIDE DEF call
  <2>4. QED
    BY <1>1, <2>2, <2>3
<1>4. ASSUME NEW c \in Call, NEW r \in Id, BeginDeliver(c, r) PROVE IInv'
  <2> DEFINE call == [kind |-> "deliver", owner |-> None,
                      endpoint |-> row[r].address, mine |-> r, there |-> None,
                      links |-> {}]
  <2>1. row[r].address \in Endpoint
    BY <1>4, RowTypes DEF BeginDeliver
  <2>2. call \in Request /\ call.kind = "deliver" /\ call.mine = r
          /\ call.endpoint = row[r].address
    BY <2>1 DEF Request
  <2>3. Begins(c, call)
    BY <1>4 DEF BeginDeliver
  <2> HIDE DEF call
  <2>4. QED
    BY <1>1, <2>1, <2>2, <2>3
<1>5. ASSUME NEW c \in Call, DeleteSubscriptionById(c) PROVE IInv'
  <2> DEFINE q == request[c]
             what == Did("sweep", None, q.endpoint, {})
  <2>1. q.mine \in Id /\ q.endpoint \in Endpoint
    BY <1>5, RequestTypes DEF DeleteSubscriptionById
  <2>2. what \in Event
    BY <2>1, DidType
  <2>3. Delete({q.mine}, what)
          /\ Ends(c, what, Exists(q.mine) /\ row[q.mine].address # q.endpoint)
    BY <1>5 DEF DeleteSubscriptionById
  <2> HIDE DEF what, q
  <2>4. /\ request' \in [Call -> Request]
        /\ RequestInv'
        /\ races' \in Nat /\ races <= races'
    BY <2>2, <2>3, EndsType
  <2>5. TableInv' /\ SoundInv' /\ gone' = gone /\ event' = what
    BY <2>3, <2>4, DeleteSound
  <2>6. QED
    BY <2>2, <2>4, <2>5 DEF TableInv, TypeOK
<1>6. ASSUME NEW rows, NEW what \in Event, Delete(rows, what),
             UNCHANGED <<request, races>>
      PROVE  IInv'
  <2>1. races' \in Nat /\ races <= races'
    BY <1>6 DEF TypeOK
  <2>2. TableInv' /\ SoundInv' /\ gone' = gone /\ event' = what
    BY <1>6, <2>1, DeleteSound
  <2>3. RequestInv'
    BY <1>6 DEF RequestInv
  <2>4. QED
    BY <1>6, <2>2, <2>3 DEF TableInv, TypeOK
<1>7. ASSUME NEW a \in Account, NEW e \in Endpoint, DeleteSubscription(a, e)
      PROVE  IInv'
  <2>1. Did("drop", a, e, {}) \in Event
    BY DidType DEF Owner
  <2>2. QED
    BY <1>6, <1>7, <2>1 DEF DeleteSubscription
<1>8. ASSUME NEW d \in Device, DeleteCustomerSubscription(d) PROVE IInv'
  <2>1. Did("drop", d, None, {}) \in Event
    BY DidType DEF Owner
  <2>2. QED
    BY <1>6, <1>8, <2>1 DEF DeleteCustomerSubscription
<1>9. ASSUME NEW outdated \in SUBSET Id, Cleanup(outdated) PROVE IInv'
  <2>1. Did("expire", None, None, {}) \in Event
    BY DidType
  <2>2. QED
    BY <1>6, <1>9, <2>1 DEF Cleanup
<1>10. ASSUME NEW e \in Endpoint, Drop(e) PROVE IInv'
  BY <1>10, NothingType
     DEF Drop, TypeOK, RowsInv, UniqueInv, SoundInv, RequestInv, Exists
<1>11. ASSUME NEW c \in Call, RollBack(c) PROVE IInv'
  <2>1. \A b \in Call : request'[b] = IF b = c THEN Idle ELSE request[b]
    BY <1>11 DEF RollBack, TypeOK
  <2>2. RequestInv'
    BY <2>1, IdleType DEF RequestInv
  <2>3. QED
    BY <1>11, <2>2, NothingType, IdleType
       DEF RollBack, TypeOK, RowsInv, UniqueInv, SoundInv, Exists
<1>12. CASE UNCHANGED vars
  BY <1>12
     DEF vars, TypeOK, RowsInv, UniqueInv, SoundInv, RequestInv, Exists
<1>13. QED
  BY <1>2, <1>3, <1>4, <1>5, <1>7, <1>8, <1>9, <1>10, <1>11, <1>12,
     RegisterInv, ClaimInv
     DEF Next, BeginCall, EndCall

\* The types, the uniqueness of rows, their soundness until a race and what
\* calls know are invariant, for any number of calls, rows and races.
THEOREM InductiveInvariant == Spec => []IInv
<1>1. QED
  BY InitIInv, NextIInv, PTL DEF Spec

\* Every reachable state of the table and its calls is well-typed.
THEOREM TypeCorrect == Spec => []TypeOK
<1>1. IInv => TypeOK
  BY DEF IInv
<1>2. QED
  BY <1>1, InductiveInvariant, PTL

-----------------------------------------------------------------------------
(* What a step may never do                                                *)

\* What a step wrote the table for can be told from its event.
LEMMA EventTells ==
  ASSUME IInv, Next
  PROVE  \/ \E c \in Call : UpsertCustomerSubscription(c)
         \/ \E c \in Call : DeleteSubscriptionById(c)
         \/ event'.what \notin {"register", "sweep"}
<1>1. ASSUME NEW c \in Call, UpsertSubscription(c)
      PROVE  event'.what = "claim"
  BY <1>1 DEF UpsertSubscription, Ends, Did
<1>2. ASSUME NEW a \in Account, NEW e \in Endpoint, DeleteSubscription(a, e)
      PROVE  event'.what = "drop"
  BY <1>2 DEF DeleteSubscription, Delete, Did
<1>3. ASSUME NEW d \in Device, DeleteCustomerSubscription(d)
      PROVE  event'.what = "drop"
  BY <1>3 DEF DeleteCustomerSubscription, Delete, Did
<1>4. ASSUME NEW outdated \in SUBSET Id, Cleanup(outdated)
      PROVE  event'.what = "expire"
  BY <1>4 DEF Cleanup, Delete, Did
<1>5. ASSUME NEW c \in Call, BeginCall(c) \/ RollBack(c)
      PROVE  event'.what = "none"
  BY <1>5, NothingType
     DEF BeginCall, BeginRegister, BeginClaim, BeginDeliver, Begins, RollBack
<1>6. ASSUME NEW e \in Endpoint, Drop(e) PROVE event'.what = "none"
  BY <1>6, NothingType DEF Drop
<1>7. QED
  BY <1>1, <1>2, <1>3, <1>4, <1>5, <1>6 DEF Next, EndCall

\* A registration on reads that still hold leaves the rows of accounts alone.
LEMMA RegisterSpares ==
  ASSUME IInv, NEW c \in Call, UpsertCustomerSubscription(c), races' = races,
         NEW r \in Id, row[r].owner \in Account
  PROVE  row'[r] = row[r]
<1> DEFINE q == request[c]
<1> USE DEF IInv
<1>1. q.kind = "register" /\ q.owner \in Device /\ q.endpoint \in Endpoint
        /\ q.links \in SUBSET Customer /\ q.mine \in Id \union {None}
        /\ q.there \in Id \union {None}
  BY RequestTypes DEF UpsertCustomerSubscription
<1>2. ~RegisterStale(q)
  BY DEF UpsertCustomerSubscription, Ends, TypeOK
<1>3. row[r].owner \notin Device /\ Exists(r)
  BY ConstantsAssumption, NoneIsNoId DEF Exists, Owner
<1>4. CASE q.mine # None /\ MoveRow(q.mine, q.there, q.endpoint, q.links)
  <2>1. row[q.mine].owner = q.owner
    BY <1>2, <1>4 DEF RegisterStale, OfDevice
  <2>2. r # q.mine
    BY <1>1, <1>3, <2>1
  <2>3. r # q.there
    BY <1>2, NoneIsNoId DEF RegisterStale, MayRegister
  <2>4. QED
    BY <1>4, <2>2, <2>3 DEF MoveRow
<1>5. CASE q.mine = None /\ q.there # None
             /\ AdoptRow(q.there, q.owner, q.endpoint, q.links)
  <2>1. r # q.there
    BY <1>3, <1>5 DEF AdoptRow
  <2>2. QED
    BY <1>5, <2>1 DEF AdoptRow, TypeOK
<1>6. CASE q.mine = None /\ q.there = None
             /\ CreateRow(q.owner, q.endpoint, q.links)
  <2>1. /\ ~Exists(issued + 1)
        /\ \A s \in Id : row'[s] =
             IF s = issued + 1 THEN NewRow(q.owner, q.endpoint, q.links)
                               ELSE row[s]
    BY <1>1, <1>6, CreateTable DEF CreateRow, OfDevice, OfEndpoint, Owner
  <2>2. QED
    BY <1>3, <2>1
<1>7. QED
  BY <1>4, <1>5, <1>6 DEF UpsertCustomerSubscription

\* However calls overlap, only a customer's registration that another write
\* has overtaken removes, takes over or moves the subscription of a merchant
\* or an administrator.
THEOREM AccountsKeep == Spec => AccountsKeepTheirs
<1>1. IInv /\ [Next]_vars =>
        [event'.what = "register" /\ races' = races =>
           \A r \in Id : row[r].owner \in Account => row'[r] = row[r]]_vars
  <2> SUFFICES ASSUME IInv, Next, event'.what = "register", races' = races,
                      NEW r \in Id, row[r].owner \in Account
               PROVE  row'[r] = row[r]
    OBVIOUS
  <2>1. CASE \E c \in Call : UpsertCustomerSubscription(c)
    BY <2>1, RegisterSpares
  <2>2. ASSUME NEW c \in Call, DeleteSubscriptionById(c)
        PROVE  event'.what = "sweep"
    BY <2>2 DEF DeleteSubscriptionById, Delete, Did
  <2>3. QED
    BY <2>1, <2>2, EventTells
<1>2. QED
  BY <1>1, InductiveInvariant, PTL DEF Spec, AccountsKeepTheirs

\* However calls overlap, a delivery that is not overtaken removes only a
\* subscription whose address is gone.
THEOREM SweepsWhatIsGone == Spec => SweptWhenGone
<1>1. IInv /\ [Next]_vars =>
        [event'.what = "sweep" /\ races' = races =>
           \A r \in Id : Exists(r) /\ row'[r] = NoRow
                           => row[r].address \in gone]_vars
  <2> SUFFICES ASSUME IInv, Next, event'.what = "sweep", races' = races,
                      NEW r \in Id, Exists(r), row'[r] = NoRow
               PROVE  row[r].address \in gone
    OBVIOUS
  <2>1. ASSUME NEW c \in Call, DeleteSubscriptionById(c)
        PROVE  row[r].address \in gone
    <3> DEFINE q == request[c]
    <3>1. r = q.mine
      BY <2>1, NoRowType DEF DeleteSubscriptionById, Delete, Exists
    <3>2. ~(Exists(q.mine) /\ row[q.mine].address # q.endpoint)
      BY <2>1 DEF DeleteSubscriptionById, Ends, IInv, TypeOK
    <3>3. QED
      BY <2>1, <3>1, <3>2 DEF DeleteSubscriptionById, IsGone
  <2>2. ASSUME NEW c \in Call, UpsertCustomerSubscription(c)
        PROVE  event'.what = "register"
    BY <2>2 DEF UpsertCustomerSubscription, Ends, Did
  <2>3. QED
    BY <2>1, <2>2, EventTells
<1>2. QED
  BY <1>1, InductiveInvariant, PTL DEF Spec, SweptWhenGone

-----------------------------------------------------------------------------
(* The table implements its contract                                       *)

\* A row as those who hold it see it.
View(x) == [endpoint |-> x.address, owner |-> x.owner, links |-> x.links]

LEMMA Views == Registered = {View(row[r]) : r \in {s \in Id : Exists(s)}}
  BY DEF Registered, View

\* One row is written and those not in "kept" are deleted.
LEMMA RegisteredAfterWrite ==
  ASSUME NEW m \in Id, NEW new, NEW kept, kept \subseteq Registered,
         new.owner # None, row'[m] = new, NoRow.owner = None,
         Exists(m) => View(row[m]) \notin kept,
         \A s \in Id \ {m} :
           row'[s] = IF Exists(s) /\ View(row[s]) \notin kept THEN NoRow
                                                              ELSE row[s]
  PROVE  Registered' = kept \union {View(new)}
<1>1. Registered' = {View(row'[r]) : r \in {s \in Id : row'[s].owner # None}}
  BY DEF Registered, View, Exists
<1>2. ASSUME NEW x \in Registered' PROVE x \in kept \union {View(new)}
  <2>1. PICK r \in Id : row'[r].owner # None /\ x = View(row'[r])
    BY <1>1, <1>2
  <2>2. CASE r = m
    BY <2>1, <2>2
  <2>3. CASE r # m
    <3>1. row'[r] = row[r] /\ (Exists(r) => View(row[r]) \in kept)
      BY <2>1, <2>3
    <3>2. QED
      BY <2>1, <3>1 DEF Exists
  <2>4. QED
    BY <2>2, <2>3
<1>3. ASSUME NEW x \in kept PROVE x \in Registered'
  <2>1. PICK r \in Id : Exists(r) /\ x = View(row[r])
    BY <1>3, Views
  <2>2. r # m /\ row'[r] = row[r]
    BY <1>3, <2>1
  <2>3. QED
    BY <1>1, <2>1, <2>2 DEF Exists
<1>4. View(new) \in Registered'
  BY <1>1
<1>5. QED
  BY <1>2, <1>3, <1>4

LEMMA RegisteredAfterDelete ==
  ASSUME NEW kept, kept \subseteq Registered, NoRow.owner = None,
         \A s \in Id :
           row'[s] = IF Exists(s) /\ View(row[s]) \notin kept THEN NoRow
                                                              ELSE row[s]
  PROVE  Registered' = kept
<1>1. Registered' = {View(row'[r]) : r \in {s \in Id : row'[s].owner # None}}
  BY DEF Registered, View, Exists
<1>2. ASSUME NEW x \in Registered' PROVE x \in kept
  <2>1. PICK r \in Id : row'[r].owner # None /\ x = View(row'[r])
    BY <1>1, <1>2
  <2>2. row'[r] = row[r] /\ (Exists(r) => View(row[r]) \in kept)
    BY <2>1
  <2>3. QED
    BY <2>1, <2>2 DEF Exists
<1>3. ASSUME NEW x \in kept PROVE x \in Registered'
  <2>1. PICK r \in Id : Exists(r) /\ x = View(row[r])
    BY <1>3, Views
  <2>2. row'[r] = row[r]
    BY <1>3, <2>1
  <2>3. QED
    BY <1>1, <2>1, <2>2 DEF Exists
<1>4. QED
  BY <1>2, <1>3
\* Until a race a row is where it is looked up, and those of one endpoint or
\* of one device are the same.
LEMMA SoundRow ==
  ASSUME IInv, races = 0, NEW r \in Id
  PROVE  /\ row[r].address = row[r].endpoint
         /\ Exists(r) => View(row[r]) \in Registered
         /\ View(row[r]).endpoint = row[r].endpoint
         /\ View(row[r]).owner = row[r].owner
  BY Views DEF IInv, SoundInv, View

\* The subscriptions a registration and a claim leave alone.
Others(d, e) == {s \in Registered : s.endpoint # e /\ s.owner # d}
Elsewhere(e) == {s \in Registered : s.endpoint # e}

LEMMA RegisterRefines ==
  ASSUME IInv, NEW c \in Call, UpsertCustomerSubscription(c),
         races = 0, races' = 0
  PROVE  Contract!KeepPromise
<1> DEFINE q == request[c]
           d == q.owner
           e == q.endpoint
           new == NewRow(d, e, q.links)
<1>a. TypeOK /\ RowsInv /\ UniqueInv
  BY DEF IInv
<1>1. q.kind = "register" /\ d \in Device /\ e \in Endpoint
        /\ q.links \in SUBSET Customer /\ q.mine \in Id \union {None}
        /\ q.there \in Id \union {None}
  BY <1>a, RequestTypes DEF UpsertCustomerSubscription, IInv
<1>2. OfDevice(q.mine, d) /\ OfEndpoint(q.there, e) /\ MayRegister(q.there)
  BY <1>a DEF UpsertCustomerSubscription, Ends, TypeOK, RegisterStale
<1>3. new.owner = d /\ new.address = e /\ new.links = q.links /\ d \in Owner
        /\ d # None
  BY <1>1, NewRowType, NoneIsNoId DEF Owner
<1>4. \A r \in Id : Exists(r) =>
        (View(row[r]) \in Others(d, e)
           <=> row[r].endpoint # e /\ row[r].owner # d)
  BY SoundRow DEF Others
<1>5. Others(d, e) \subseteq Registered
  BY DEF Others
<1>6. \A x \in Registered : x.endpoint = e => x.owner \notin Account
  <2> SUFFICES ASSUME NEW x \in Registered, x.endpoint = e
               PROVE  x.owner \notin Account
    OBVIOUS
  <2>1. PICK r \in Id : Exists(r) /\ x = View(row[r])
    BY Views
  <2>2. row[r].endpoint = e /\ x.owner = row[r].owner
    BY <2>1, SoundRow
  <2>3. q.there # None
    BY <1>2, <2>2 DEF OfEndpoint
  <2>4. r = q.there
    BY <1>a, <1>1, <1>2, <2>1, <2>2, <2>3, OneRow DEF OfEndpoint
  <2>5. QED
    BY <1>2, <2>2, <2>3, <2>4 DEF MayRegister
<1>7. ASSUME q.mine # None /\ MoveRow(q.mine, q.there, e, q.links)
      PROVE  Registered' = Others(d, e) \union {View(new)}
  <2>1. row[q.mine].owner = d /\ q.mine \in Id /\ Exists(q.mine)
    BY <1>1, <1>2, <1>3, <1>7 DEF OfDevice, Exists
  <2>2. \A s \in Id : row'[s] = IF s = q.mine THEN new
                                ELSE IF s = q.there THEN NoRow ELSE row[s]
    BY <1>7, <2>1 DEF MoveRow
  <2>3. ASSUME NEW s \in Id \ {q.mine}
        PROVE  row'[s] = IF Exists(s) /\ View(row[s]) \notin Others(d, e)
                         THEN NoRow ELSE row[s]
    <3>1. CASE s = q.there
      <4>1. Exists(s) /\ row[s].endpoint = e
        BY <1>2, <1>7, <3>1, NoneIsNoId DEF MoveRow, OfEndpoint
      <4>2. QED
        BY <1>4, <2>2, <2>3, <3>1, <4>1
    <3>2. CASE s # q.there
      <4>1. row[s].endpoint # e
        BY <1>7, <2>3, <3>2 DEF MoveRow
      <4>2. Exists(s) => row[s].owner # d
        BY <1>a, <1>1, <2>1, <2>3 DEF UniqueInv
      <4>3. QED
        BY <1>4, <2>2, <2>3, <3>2, <4>1, <4>2
    <3>3. QED
      BY <3>1, <3>2
  <2>4. View(row[q.mine]) \notin Others(d, e)
    BY <1>4, <2>1
  <2>5. Registered' = Others(d, e) \union {View(new)}
    <3> HIDE DEF new, d, e
    <3>1. row'[q.mine] = new
      BY <2>1, <2>2
    <3>2. QED
      BY <1>3, <1>5, <2>1, <2>3, <2>4, <3>1, NoRowType, RegisteredAfterWrite
  <2>6. QED
    BY <2>5
<1>8. ASSUME q.mine = None /\ q.there # None /\ AdoptRow(q.there, d, e, q.links)
      PROVE  Registered' = Others(d, e) \union {View(new)}
  <2> DEFINE there == q.there
  <2>1. there \in Id /\ row[there].endpoint = e /\ Exists(there)
    BY <1>1, <1>2, <1>8, <1>a, RowTypes DEF OfEndpoint
  <2>2. /\ row'[there].owner = d /\ row'[there].address = e
        /\ row'[there].links = q.links
        /\ \A s \in Id \ {there} : row'[s] = row[s] /\ row[s].owner # d
    BY <1>1, <1>8, <1>a, <2>1, AdoptStep
  <2>3. \A s \in Id \ {there} : Exists(s) => row[s].endpoint # e
    BY <1>a, <2>1, OneRow
  <2>4. \A s \in Id \ {there} :
          row'[s] = IF Exists(s) /\ View(row[s]) \notin Others(d, e)
                    THEN NoRow ELSE row[s]
    BY <1>4, <2>2, <2>3
  <2>5. View(row[there]) \notin Others(d, e)
    BY <1>4, <2>1
  <2>6. Registered' = Others(d, e) \union {View(row'[there])}
    <3> HIDE DEF there, d, e
    <3>1. row'[there].owner # None
      BY <1>3, <2>2
    <3>2. QED
      BY <1>5, <2>1, <2>4, <2>5, <3>1, NoRowType, RegisteredAfterWrite
  <2>7. View(row'[there]) = View(new)
    BY <1>3, <2>2 DEF View
  <2>8. QED
    BY <2>6, <2>7
<1>9. ASSUME q.mine = None /\ q.there = None /\ CreateRow(d, e, q.links)
      PROVE  Registered' = Others(d, e) \union {View(new)}
  <2> DEFINE n == issued + 1
  <2>1. /\ n \in Id /\ ~Exists(n)
        /\ \A s \in Id : row'[s] = IF s = n THEN new ELSE row[s]
    BY <1>a, <1>1, <1>3, <1>9, CreateTable DEF CreateRow, OfDevice, OfEndpoint
  <2>2. \A s \in Id : row[s].owner # d /\ row[s].endpoint # e
    BY <1>9 DEF CreateRow, OfDevice, OfEndpoint
  <2>3. \A s \in Id \ {n} :
          row'[s] = IF Exists(s) /\ View(row[s]) \notin Others(d, e)
                    THEN NoRow ELSE row[s]
    BY <1>4, <2>1, <2>2
  <2>4. Registered' = Others(d, e) \union {View(new)}
    <3> HIDE DEF n, new, d, e
    <3>1. row'[n] = new
      BY <2>1
    <3>2. QED
      BY <1>3, <1>5, <2>1, <2>3, <3>1, NoRowType, RegisteredAfterWrite
  <2>5. QED
    BY <2>4
<1>10. Registered' = Others(d, e) \union {View(new)}
  BY <1>7, <1>8, <1>9 DEF UpsertCustomerSubscription
<1>11. View(new) = Contract!Subscription(d, e, q.links)
  BY <1>3 DEF View, Contract!Subscription
<1>12. event' = Contract!Did("register", d, e, q.links) /\ UNCHANGED gone
  BY DEF UpsertCustomerSubscription, Ends, Did, Contract!Did
<1>13. Contract!Register(d, e, q.links)
  <2> HIDE DEF new, d, e
  <2>1. QED
    BY <1>6, <1>10, <1>11, <1>12 DEF Contract!Register, Others
<1>14. QED
  <2> HIDE DEF d, e
  <2>1. QED
    BY <1>1, <1>13 DEF Contract!KeepPromise

LEMMA ClaimRefines ==
  ASSUME IInv, NEW c \in Call, UpsertSubscription(c), races = 0, races' = 0
  PROVE  Contract!KeepPromise
<1> DEFINE q == request[c]
           a == q.owner
           e == q.endpoint
           new == NewRow(a, e, {})
<1>a. TypeOK /\ RowsInv /\ UniqueInv
  BY DEF IInv
<1>1. q.kind = "claim" /\ a \in Account /\ e \in Endpoint
        /\ q.there \in Id \union {None}
  BY <1>a, RequestTypes DEF UpsertSubscription, IInv
<1>2. OfEndpoint(q.there, e) /\ LinksAt(q.there) \subseteq q.links
  BY <1>a DEF UpsertSubscription, Ends, TypeOK, ClaimStale
<1>3. new.owner = a /\ a # None /\ a \in Owner /\ a \notin Device
  BY <1>1, NewRowType, NoneIsNoId, ConstantsAssumption DEF Owner
<1>4. \A r \in Id : Exists(r) =>
        (View(row[r]) \in Elsewhere(e) <=> row[r].endpoint # e)
  BY SoundRow DEF Elsewhere
<1>5. Elsewhere(e) \subseteq Registered
  BY DEF Elsewhere
<1>6. ASSUME OfEndpoint(None, e), Create(new)
      PROVE  Registered' = Elsewhere(e) \union {View(new)}
  <2> DEFINE n == issued + 1
  <2>1. /\ n \in Id /\ ~Exists(n)
        /\ \A s \in Id : row'[s] = IF s = n THEN new ELSE row[s]
    BY <1>a, <1>1, <1>3, <1>6, CreateTable DEF OfEndpoint
  <2>2. \A s \in Id \ {n} :
          row'[s] = IF Exists(s) /\ View(row[s]) \notin Elsewhere(e)
                    THEN NoRow ELSE row[s]
    BY <1>4, <1>6, <2>1 DEF OfEndpoint
  <2>3. QED
    <3> HIDE DEF n, new, e, a
    <3>1. row'[n] = new
      BY <2>1
    <3>2. Registered' = Elsewhere(e) \union {View(new)}
      BY <1>3, <1>5, <2>1, <2>2, <3>1, NoRowType, RegisteredAfterWrite
    <3>3. QED
      BY <3>2
<1>7. ASSUME NEW r \in Id, row[r].endpoint = e,
             row' = [row EXCEPT ![r] = NewRow(a, e, Uncleared(q, r))]
      PROVE  Registered' = Elsewhere(e) \union {View(new)}
  <2>1. Exists(r)
    BY <1>a, <1>1, <1>7, RowTypes
  <2>2. r = q.there
    BY <1>a, <1>2, <1>7, <1>1, <2>1, OneRow DEF OfEndpoint
  <2>3. Uncleared(q, r) = {}
    BY <1>2, <2>2, NoneIsNoId DEF Uncleared, LinksAt
  <2>4. \A s \in Id : row'[s] = IF s = r THEN new ELSE row[s]
    BY <1>7, <1>a, <2>3 DEF TypeOK
  <2>5. \A s \in Id \ {r} : Exists(s) => row[s].endpoint # e
    BY <1>a, <1>7, OneRow
  <2>6. \A s \in Id \ {r} :
          row'[s] = IF Exists(s) /\ View(row[s]) \notin Elsewhere(e)
                    THEN NoRow ELSE row[s]
    BY <1>4, <2>4, <2>5
  <2>7. View(row[r]) \notin Elsewhere(e) /\ row'[r] = new
    BY <1>4, <1>7, <2>1, <2>4
  <2>8. QED
    <3> HIDE DEF new, e, a
    <3>1. QED
      BY <1>3, <1>5, <1>7, <2>6, <2>7, NoRowType, RegisteredAfterWrite
<1>8. Registered' = Elsewhere(e) \union {View(new)}
  BY <1>6, <1>7 DEF UpsertSubscription
<1>9. View(new) = Contract!Subscription(a, e, {})
  BY DEF View, NewRow, Contract!Subscription
<1>10. event' = Contract!Did("claim", a, e, {}) /\ UNCHANGED gone
  BY DEF UpsertSubscription, Ends, Did, Contract!Did
<1>11. Contract!Claim(a, e)
  <2> HIDE DEF new, a, e
  <2>1. QED
    BY <1>8, <1>9, <1>10 DEF Contract!Claim, Elsewhere
<1>12. QED
  <2> HIDE DEF a, e
  <2>1. QED
    BY <1>1, <1>11 DEF Contract!KeepPromise

\* Rows are deleted by what their holders see of them.
LEMMA DeletedView ==
  ASSUME IInv, NEW rows, NEW what, Delete(rows, what), NEW kept,
         kept \subseteq Registered,
         \A s \in Id : Exists(s) => (s \in rows <=> View(row[s]) \notin kept)
  PROVE  Registered' = kept /\ event' = what /\ UNCHANGED gone
<1>1. \A s \in Id : row'[s] = IF s \in rows THEN NoRow ELSE row[s]
  BY DEF Delete
<1>2. \A s \in Id : ~Exists(s) => row[s] = NoRow
  BY RowTypes DEF IInv
<1>3. \A s \in Id :
        row'[s] = IF Exists(s) /\ View(row[s]) \notin kept THEN NoRow
                                                           ELSE row[s]
  BY <1>1, <1>2
<1>4. QED
  BY <1>3, NoRowType, RegisteredAfterDelete DEF Delete

LEMMA SweepRefines ==
  ASSUME IInv, NEW c \in Call, DeleteSubscriptionById(c), races = 0, races' = 0
  PROVE  Contract!KeepPromise
<1> DEFINE q == request[c]
           e == q.endpoint
<1>a. TypeOK /\ RowsInv /\ UniqueInv
  BY DEF IInv
<1>1. q.mine \in Id /\ e \in Endpoint /\ e \in gone
  BY <1>a, RequestTypes DEF DeleteSubscriptionById, IsGone, IInv
<1>2. Delete({q.mine}, Did("sweep", None, e, {}))
  BY DEF DeleteSubscriptionById
<1>3. Exists(q.mine) => row[q.mine].endpoint = e
  BY <1>a, <1>1, SoundRow DEF DeleteSubscriptionById, Ends, TypeOK
<1>4. Registered' \in {Registered, Elsewhere(e)}
        /\ event' = Did("sweep", None, e, {}) /\ UNCHANGED gone
  <2>1. CASE Exists(q.mine)
    <3>1. \A s \in Id : Exists(s) =>
            (s \in {q.mine} <=> View(row[s]) \notin Elsewhere(e))
      BY <1>a, <1>1, <1>3, <2>1, OneRow, SoundRow DEF Elsewhere
    <3>2. Elsewhere(e) \subseteq Registered
      BY DEF Elsewhere
    <3>3. QED
      <4> HIDE DEF e
      <4>1. QED
        BY <1>2, <3>1, <3>2, DeletedView
  <2>2. CASE ~Exists(q.mine)
    <3>1. \A s \in Id : Exists(s) =>
            (s \in {q.mine} <=> View(row[s]) \notin Registered)
      BY <2>2, SoundRow
    <3>2. QED
      BY <1>2, <3>1, DeletedView
  <2>3. QED
    BY <2>1, <2>2
<1>5. Contract!Sweep(e)
  <2> HIDE DEF e
  <2>1. QED
    BY <1>1, <1>4 DEF Contract!Sweep, Contract!Did, Did, Elsewhere
<1>6. QED
  BY <1>1, <1>5 DEF Contract!KeepPromise

LEMMA ContractStep ==
  ASSUME IInv, Next, races = 0, races' = 0
  PROVE  Contract!KeepPromise
<1>1. ASSUME event' = Nothing, gone \subseteq gone', UNCHANGED row
      PROVE  Contract!KeepPromise
  <2>1. Registered' = Registered
    BY <1>1 DEF Registered, Exists
  <2>2. QED
    BY <1>1, <2>1 DEF Contract!KeepPromise, Contract!Drop, Contract!Nothing,
                      Contract!Did, Nothing, Did
<1>2. ASSUME NEW c \in Call, BeginCall(c) \/ RollBack(c)
      PROVE  Contract!KeepPromise
  BY <1>1, <1>2
     DEF BeginCall, BeginRegister, BeginClaim, BeginDeliver, Begins, RollBack
<1>3. ASSUME NEW e \in Endpoint, Drop(e) PROVE Contract!KeepPromise
  BY <1>1, <1>3 DEF Drop
<1>4. ASSUME NEW a \in Account, NEW e \in Endpoint, DeleteSubscription(a, e)
      PROVE  Contract!KeepPromise
  <2> DEFINE kept == {s \in Registered : ~(s.endpoint = e /\ s.owner = a)}
             rows == {r \in Id : row[r].endpoint = e /\ row[r].owner = a}
  <2>1. \A s \in Id : Exists(s) => (s \in rows <=> View(row[s]) \notin kept)
    BY SoundRow
  <2>2. Delete(rows, Did("drop", a, e, {})) /\ kept \subseteq Registered
    BY <1>4 DEF DeleteSubscription
  <2>3. Registered' = kept /\ event' = Did("drop", a, e, {}) /\ UNCHANGED gone
    <3> HIDE DEF kept, rows
    <3>1. QED
      BY <2>1, <2>2, DeletedView
  <2>4. Contract!Remove(a, e)
    BY <2>3 DEF Contract!Remove, Contract!Did, Did
  <2>5. QED
    BY <2>4 DEF Contract!KeepPromise
<1>5. ASSUME NEW d \in Device, DeleteCustomerSubscription(d)
      PROVE  Contract!KeepPromise
  <2> DEFINE kept == {s \in Registered : s.owner # d}
             rows == {r \in Id : row[r].owner = d}
  <2>1. \A s \in Id : Exists(s) => (s \in rows <=> View(row[s]) \notin kept)
    BY SoundRow
  <2>2. Delete(rows, Did("drop", d, None, {})) /\ kept \subseteq Registered
    BY <1>5 DEF DeleteCustomerSubscription
  <2>3. Registered' = kept /\ event' = Did("drop", d, None, {})
          /\ UNCHANGED gone
    <3> HIDE DEF kept, rows
    <3>1. QED
      BY <2>1, <2>2, DeletedView
  <2>4. Contract!Leave(d)
    BY <2>3 DEF Contract!Leave, Contract!Did, Did
  <2>5. QED
    BY <2>4 DEF Contract!KeepPromise
<1>6. ASSUME NEW outdated \in SUBSET Id, Cleanup(outdated)
      PROVE  Contract!KeepPromise
  <2>1. Registered' \subseteq Registered
    BY <1>6, NoRowType DEF Cleanup, Delete, Registered, Exists
  <2>2. Contract!Expire
    BY <1>6, <2>1 DEF Cleanup, Delete, Contract!Expire, Contract!Did, Did
  <2>3. QED
    BY <2>2 DEF Contract!KeepPromise
<1>7. QED
  BY <1>2, <1>3, <1>4, <1>5, <1>6, RegisterRefines, ClaimRefines, SweepRefines
     DEF Next, EndCall

LEMMA RacesGrow ==
  ASSUME TypeOK, [Next]_vars PROVE races' \in Nat /\ races <= races'
<1>1. UNCHANGED races \/ races' = races + 1
  BY DEF Next, vars, BeginCall, EndCall, BeginRegister, BeginClaim,
         BeginDeliver, Begins, UpsertCustomerSubscription, UpsertSubscription,
         DeleteSubscriptionById, RollBack, Ends, DeleteSubscription,
         DeleteCustomerSubscription, Drop, Cleanup
<1>2. QED
  BY <1>1 DEF TypeOK

\* Until a write rests on a stale read, the table and its calls implement the
\* contract of the subscriptions, for any number of calls, devices, accounts,
\* endpoints and rows.
THEOREM Implementation == Spec => ImplementsContract
<1>1. Init => Contract!Init
  BY NoRowType DEF Init, Contract!Init, Registered, Exists, Nothing, Did,
                   Contract!Nothing, Contract!Did
<1>2. IInv /\ [Next]_vars => [Contract!Next]_Contract!vars
  <2> SUFFICES ASSUME IInv, [Next]_vars PROVE [Contract!Next]_Contract!vars
    OBVIOUS
  <2>1. races \in Nat /\ races' \in Nat /\ races <= races'
    BY RacesGrow DEF IInv, TypeOK
  <2>2. CASE races' > 0
    BY <2>2 DEF Contract!Next
  <2>3. CASE ~(races' > 0) /\ Next
    <3>1. races' = 0 /\ races = 0
      BY <2>1, <2>3
    <3>2. Contract!KeepPromise
      BY <2>3, <3>1, ContractStep
    <3>3. QED
      BY <3>1, <3>2 DEF Contract!Next
  <2>4. CASE UNCHANGED vars
    BY <2>4 DEF vars, Contract!vars, Registered, Exists
  <2>5. QED
    BY <2>2, <2>3, <2>4
<1>3. QED
  BY <1>1, <1>2, InductiveInvariant, PTL
     DEF Spec, ImplementsContract, Contract!Spec
=============================================================================

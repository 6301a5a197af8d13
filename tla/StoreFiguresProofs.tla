------------------------- MODULE StoreFiguresProofs --------------------------
(***************************************************************************)
(* Proofs about the amounts of an order for any number of requests, items, *)
(* prices and races: the invariants TLC checks on small instances, that an *)
(* automatic total is the sum and a commit that is not overtaken leaves a  *)
(* right one, and that the amounts implement TotalsContract.  Then about   *)
(* what adds orders up: when the figures a dashboard serves may be stale,  *)
(* and what the closing of a day stores and tells.  The three machines     *)
(* share no state and no name.                                             *)
(***************************************************************************)
EXTENDS OrderTotals, DashboardCache, DayClosure, TLAPS

LEMMA NoneIsNothing == None \notin Nat /\ None \notin Item /\ ByHand # None
  BY ConstantsAssumption

LEMMA AmountTypes ==
  /\ Price \subseteq Amount \ {None}
  /\ Fee \subseteq Amount \ {None}
  /\ 0 \in Amount \ {None}
  BY NoneIsNothing, ConstantsAssumption DEF Amount

LEMMA IdleType == Idle.kind = "idle" /\ Idle.step = "none" /\ Idle.item = None
                    /\ Idle.last = FALSE
  BY DEF Idle

LEMMA LinesType ==
  ASSUME NEW p \in [Item -> Amount], NEW o \in SUBSET Item
  PROVE  Lines(p, o) \in Line
<1> DEFINE S == {j \in Item \ o : p[j] # None}
<1>1. Lines(p, o) \in [S -> Amount \ {None}]
  BY DEF Lines
<1>2. S \in SUBSET Item
  OBVIOUS
<1>3. QED
  BY <1>1, <1>2 DEF Line

LEMMA TotalType ==
  ASSUME NEW lines \in Line, NEW f \in Fee \union {0}
  PROVE  /\ TotalWithFee(lines, f)
              \in [lines : Line, fee : Fee \union {0}] \union {None, ByHand}
         /\ Sum(lines) \in Line \union {None}
  BY DEF TotalWithFee, Sum

\* What a request in progress knows.
LEMMA RequestTypes ==
  ASSUME TypeOK, RequestInv, NEW c \in Call, request[c] # Idle
  PROVE  /\ request[c] \in Request
         /\ request[c].kind \in {"reprice", "out", "fee"}
         /\ request[c].step \in {"checked", "written", "summed"}
         /\ request[c].item \in Item \union {None}
         /\ request[c].last \in BOOLEAN
         /\ request[c].fee \in Fee \union {0}
         /\ request[c].amount \in Amount
         /\ request[c].kind = "reprice" => request[c].item \in Item
                                             /\ request[c].amount \in Price
         /\ request[c].kind = "out" => request[c].item \in Item
                                         /\ request[c].amount = 0
         /\ request[c].kind = "fee" => request[c].item = None
                                         /\ request[c].amount \in Fee
         /\ request[c].kind # "out" => ~request[c].last
<1>1. request[c] \in Request
  BY DEF TypeOK
<1>2. /\ request[c].kind \in {"reprice", "out", "fee"}
      /\ request[c].step \in {"checked", "written", "summed"}
      /\ request[c].item \in Item \union {None}
      /\ request[c].last \in BOOLEAN
      /\ request[c].fee \in Fee \union {0}
      /\ request[c].amount \in Amount
  BY <1>1 DEF Request
<1>3. QED
  BY <1>1, <1>2 DEF RequestInv

\* What a request sees is typed.
LEMMA SeenTypes ==
  ASSUME TypeOK, RequestInv, NEW c \in Call, request[c] # Idle
  PROVE  /\ PriceSeen(c) \in [Item -> Amount]
         /\ OutSeen(c) \in SUBSET Item
         /\ LinesSeen(c) \in Line
<1>1. PriceSeen(c) \in [Item -> Amount]
  BY RequestTypes, AmountTypes DEF PriceSeen, TypeOK
<1>2. OutSeen(c) \in SUBSET Item
  BY RequestTypes DEF OutSeen, TypeOK
<1>3. QED
  BY <1>1, <1>2, LinesType DEF LinesSeen

\* Setting the fee changes nothing else a request sees.
LEMMA FeeSees ==
  ASSUME TypeOK, RequestInv, NEW c \in Call, request[c] # Idle,
         request[c].kind = "fee"
  PROVE  PriceSeen(c) = price /\ OutSeen(c) = out
<1>1. request[c].item = None /\ request[c].item \notin Item
  BY RequestTypes, NoneIsNothing
<1>2. PriceSeen(c) = [i \in Item |-> price[i]]
  BY <1>1 DEF PriceSeen
<1>3. QED
  BY <1>2 DEF TypeOK, OutSeen

-----------------------------------------------------------------------------
(* The lines a request has added up are typed as well                      *)

SummedInv ==
  \A c \in Call : request[c].step = "summed" => request[c].lines \in Line

\* One request changes.
LEMMA OneRequest ==
  ASSUME TypeOK, NEW c \in Call, NEW q,
         request' = [request EXCEPT ![c] = q]
  PROVE  \A b \in Call : request'[b] = IF b = c THEN q ELSE request[b]
  BY DEF TypeOK

LEMMA InitInv == Init => IInv /\ SummedInv
<1> SUFFICES ASSUME Init PROVE IInv /\ SummedInv
  OBVIOUS
<1>1. price \in [Item -> Amount] /\ out \in SUBSET Item /\ fee \in Fee \union {0}
  BY AmountTypes DEF Init, Amount
<1>2. Lines(price, out) \in Line
  BY <1>1, LinesType
<1>3. TypeOK
  BY <1>1, <1>2, TotalType DEF Init, TypeOK, Owed
<1>4. \A c \in Call : request[c] = Idle
  BY DEF Init
<1>5. LockInv /\ RequestInv /\ FeeInv /\ SummedInv
  BY <1>4, IdleType DEF LockInv, RequestInv, FeeInv, SummedInv, Holds
<1>6. AutoIsTheSum
  BY DEF Init, AutoIsTheSum
<1>7. QED
  BY <1>3, <1>5, <1>6 DEF IInv

\* Steps that leave the order alone.
LEMMA OrderAlone ==
  ASSUME IInv, UNCHANGED order PROVE AutoIsTheSum' /\ Owed' = Owed
  BY DEF IInv, AutoIsTheSum, Owed, order

LEMMA BeginStep ==
  ASSUME IInv, SummedInv, NEW c \in Call, NEW kind \in {"reprice", "out", "fee"},
         NEW item \in Item \union {None}, NEW amount \in Amount,
         NEW last \in BOOLEAN, Begin(c, kind, item, amount, last),
         kind = "reprice" => item \in Item /\ amount \in Price,
         kind = "out" => item \in Item /\ amount = 0,
         kind = "fee" => item = None /\ amount \in Fee,
         kind # "out" => ~last
  PROVE  IInv' /\ SummedInv'
<1> DEFINE q == [kind |-> kind, step |-> "checked", item |-> item,
                 amount |-> amount, last |-> last, fee |-> 0, lines |-> <<>>]
<1> USE DEF IInv
<1>1. q \in Request /\ q.kind = kind /\ q.step = "checked" /\ q.item = item
        /\ q.amount = amount /\ q.last = last
  BY DEF Request
<1>2. request' = [request EXCEPT ![c] = q] /\ UNCHANGED <<order, races>>
  BY DEF Begin
<1> HIDE DEF q
<1>3. \A b \in Call : request'[b] = IF b = c THEN q ELSE request[b]
  BY <1>2, OneRequest
<1>4. TypeOK'
  BY <1>1, <1>2 DEF TypeOK, order
<1>5. \A b \in Call : \A i \in Item \union {None} :
        Holds(b, i)' => b # c /\ Holds(b, i) /\ request'[b] = request[b]
  BY <1>1, <1>3 DEF Holds
<1>6. LockInv'
  BY <1>5 DEF LockInv
<1>7. RequestInv'
  BY <1>1, <1>3 DEF RequestInv
<1>8. FeeInv'
  BY <1>2, <1>5 DEF FeeInv, order
<1>9. SummedInv'
  BY <1>1, <1>3 DEF SummedInv
<1>10. QED
  BY <1>2, <1>4, <1>6, <1>7, <1>8, <1>9, OrderAlone

LEMMA WriteStep ==
  ASSUME IInv, SummedInv, NEW c \in Call, Write(c)
  PROVE  IInv' /\ SummedInv'
<1> DEFINE q == request[c]
           f == IF q.kind = "fee" THEN q.amount ELSE fee
           w == [q EXCEPT !.step = "written", !.fee = f]
<1> USE DEF IInv
<1>1. q # Idle /\ q \in Request /\ q.step = "checked"
  BY IdleType DEF Write, TypeOK
<1>2. f \in Fee \union {0}
  BY <1>1, RequestTypes DEF TypeOK
<1>3. w \in Request /\ w.kind = q.kind /\ w.step = "written"
        /\ w.item = q.item /\ w.amount = q.amount /\ w.last = q.last
        /\ w.fee = f /\ w # Idle
  BY <1>1, <1>2, IdleType DEF Request
<1>4. request' = [request EXCEPT ![c] = w] /\ UNCHANGED <<order, races>>
  BY DEF Write
<1>5. \A b \in Call : request'[b] = IF b = c THEN w ELSE request[b]
  <2> HIDE DEF w
  <2>1. QED
    BY <1>4, OneRequest
<1>6. TypeOK'
  BY <1>3, <1>4 DEF TypeOK, order
<1>7. \A b \in Call \ {c} : ~Holds(b, q.item)
  BY <1>1, RequestTypes DEF Write, OrderIsFree
<1>8. \A b \in Call \ {c} : \A i \in Item \union {None} :
        (Holds(b, i)' <=> Holds(b, i)) /\ request'[b] = request[b]
  BY <1>5 DEF Holds
<1>9. \A i \in Item \union {None} : Holds(c, i)' => i = q.item
  BY <1>3, <1>5 DEF Holds
<1>10. LockInv'
  BY <1>7, <1>8, <1>9 DEF LockInv
<1>11. RequestInv'
  BY <1>1, <1>3, <1>5, ZenonT(60) DEF RequestInv
<1>12. FeeInv'
  <2> SUFFICES ASSUME NEW b \in Call, Holds(b, None)'
               PROVE  /\ request'[b].fee = request'[b].amount
                      /\ request'[b].step = "summed" =>
                           request'[b].lines = Lines(price, out)
    BY <1>4 DEF FeeInv, order
  <2>1. CASE b = c
    <3>1. q.item = None
      BY <1>9, <2>1
    <3>2. q.kind = "fee"
      BY <1>1, <3>1, RequestTypes, NoneIsNothing
    <3>3. QED
      BY <1>3, <1>5, <2>1, <3>2
  <2>2. CASE b # c
    BY <1>8, <2>2 DEF FeeInv
  <2>3. QED
    BY <2>1, <2>2
<1>13. SummedInv'
  BY <1>3, <1>5 DEF SummedInv
<1>14. QED
  BY <1>4, <1>6, <1>10, <1>11, <1>12, <1>13, OrderAlone

LEMMA AddUpStep ==
  ASSUME IInv, SummedInv, NEW c \in Call, AddUp(c)
  PROVE  IInv' /\ SummedInv'
<1> DEFINE q == request[c]
           w == [q EXCEPT !.step = "summed", !.lines = LinesSeen(c)]
<1> USE DEF IInv
<1>1. q # Idle /\ q \in Request /\ q.step = "written"
  BY IdleType DEF AddUp, TypeOK
<1>2. LinesSeen(c) \in Line
  BY <1>1, SeenTypes
<1>3. w \in Request /\ w.kind = q.kind /\ w.step = "summed"
        /\ w.item = q.item /\ w.amount = q.amount /\ w.last = q.last
        /\ w.fee = q.fee /\ w.lines = LinesSeen(c) /\ w # Idle
  BY <1>1, <1>2, IdleType DEF Request
<1>4. request' = [request EXCEPT ![c] = w] /\ UNCHANGED <<order, races>>
  BY DEF AddUp
<1>5. \A b \in Call : request'[b] = IF b = c THEN w ELSE request[b]
  <2> HIDE DEF w
  <2>1. QED
    BY <1>4, OneRequest
<1>6. TypeOK'
  BY <1>3, <1>4 DEF TypeOK, order
<1>7. \A b \in Call : \A i \in Item \union {None} : Holds(b, i)' <=> Holds(b, i)
  BY <1>1, <1>3, <1>5 DEF Holds
<1>8. LockInv'
  BY <1>7 DEF LockInv
<1>9. RequestInv'
  BY <1>1, <1>3, <1>5, ZenonT(60) DEF RequestInv
<1>10. FeeInv'
  <2> SUFFICES ASSUME NEW b \in Call, Holds(b, None)'
               PROVE  /\ request'[b].fee = request'[b].amount
                      /\ request'[b].step = "summed" =>
                           request'[b].lines = Lines(price, out)
    BY <1>4 DEF FeeInv, order
  <2>1. CASE b = c
    <3>1. q.item = None /\ Holds(c, None)
      BY <1>7, <2>1 DEF Holds
    <3>2. q.kind = "fee"
      BY <1>1, <3>1, RequestTypes, NoneIsNothing
    <3>3. LinesSeen(c) = Lines(price, out)
      BY <1>1, <3>2, FeeSees DEF LinesSeen
    <3>4. QED
      BY <1>3, <1>5, <2>1, <3>1, <3>3 DEF FeeInv
  <2>2. CASE b # c
    BY <1>5, <1>7, <2>2 DEF FeeInv
  <2>3. QED
    BY <2>1, <2>2
<1>11. SummedInv'
  BY <1>2, <1>3, <1>5 DEF SummedInv
<1>12. QED
  BY <1>4, <1>6, <1>8, <1>9, <1>10, <1>11, OrderAlone

\* What a commit leaves behind: the total of a fee is right, and that of an
\* item unless the commit is overtaken.
LEMMA CommitTotal ==
  ASSUME IInv, SummedInv, NEW c \in Call, Commit(c)
  PROVE  /\ request[c] # Idle
         /\ request[c].lines \in Line
         /\ \A b \in Call : ~Holds(b, None)'
         /\ request[c].kind = "fee" => /\ price' = price /\ out' = out
                                       /\ total' = Owed'
         /\ races' = races => ~Stale(c) /\ total' = Owed'
         /\ races' \in Nat /\ races <= races'
<1> DEFINE q == request[c]
<1> USE DEF IInv
<1>1. q # Idle /\ q.step = "summed" /\ q.lines \in Line
  BY IdleType DEF Commit, SummedInv
<1>2. races' \in Nat /\ races <= races' /\ (races' = races => ~Stale(c))
  BY DEF Commit, CountRace, TypeOK
<1>3. \A b \in Call : request'[b] = IF b = c THEN Idle ELSE request[b]
  BY DEF Commit, TypeOK
<1>4. \A b \in Call : ~Holds(b, None)'
  <2> SUFFICES ASSUME NEW b \in Call PROVE ~Holds(b, None)'
    OBVIOUS
  <2>1. CASE b = c
    BY <1>3, <2>1, IdleType DEF Holds
  <2>2. CASE b # c
    BY <1>3, <2>2 DEF Holds, Commit, OrderIsFree
  <2>3. QED
    BY <2>1, <2>2
<1>5. total' = TotalWithFee(q.lines, q.fee)
  BY DEF Commit
<1>6. q.kind = "fee" => price' = price /\ out' = out /\ total' = Owed'
  <2> SUFFICES ASSUME q.kind = "fee"
               PROVE  price' = price /\ out' = out /\ total' = Owed'
    OBVIOUS
  <2>1. price' = price /\ out' = out
    BY <1>1, FeeSees DEF Commit
  <2>2. Holds(c, None)
    BY <1>1, RequestTypes DEF Holds
  <2>3. q.lines = Lines(price, out) /\ q.fee = q.amount
    BY <1>1, <2>2 DEF FeeInv
  <2>4. fee' = q.amount
    BY DEF Commit
  <2>5. QED
    BY <1>5, <2>1, <2>3, <2>4 DEF Owed
<1>7. ~Stale(c) /\ q.kind # "fee" => total' = Owed'
  <2> SUFFICES ASSUME ~Stale(c), q.kind # "fee" PROVE total' = Owed'
    OBVIOUS
  <2>1. q.fee = fee /\ q.lines = LinesSeen(c) /\ fee' = fee
    BY DEF Stale, Commit
  <2>2. price' = PriceSeen(c) /\ out' = OutSeen(c)
    BY DEF Commit
  <2>3. QED
    BY <1>5, <2>1, <2>2 DEF Owed, LinesSeen
<1>8. QED
  BY <1>1, <1>2, <1>4, <1>6, <1>7

LEMMA CommitStep ==
  ASSUME IInv, SummedInv, NEW c \in Call, Commit(c)
  PROVE  IInv' /\ SummedInv'
<1> DEFINE q == request[c]
<1> USE DEF IInv
<1>1. q # Idle /\ q.lines \in Line /\ races' \in Nat
        /\ \A b \in Call : ~Holds(b, None)'
  BY CommitTotal
<1>2. /\ q.kind \in {"reprice", "out", "fee"}
      /\ q.fee \in Fee \union {0}
      /\ q.kind = "fee" => q.amount \in Fee
      /\ q.last \in BOOLEAN
  BY <1>1, RequestTypes
<1>3. price' \in [Item -> Amount] /\ out' \subseteq Item
  BY <1>1, SeenTypes DEF Commit
<1>4. fee' \in Fee \union {0} /\ feeSet' \in BOOLEAN
        /\ mode' \in {"auto", "manual"} /\ open' \in BOOLEAN
  BY <1>2 DEF Commit, TypeOK, ModeAfter
<1>5. subtotal' \in Line \union {None}
        /\ total' \in [lines : Line, fee : Fee \union {0}] \union {None, ByHand}
  BY <1>1, <1>2, TotalType DEF Commit
<1>6. request' \in [Call -> Request \union {Idle}]
        /\ \A b \in Call : request'[b] = IF b = c THEN Idle ELSE request[b]
  BY DEF Commit, TypeOK
<1>7. TypeOK'
  BY <1>1, <1>3, <1>4, <1>5, <1>6 DEF TypeOK
<1>8. \A b \in Call : \A i \in Item \union {None} :
        Holds(b, i)' => Holds(b, i)
  BY <1>6, IdleType DEF Holds
<1>9. LockInv'
  BY <1>8 DEF LockInv
<1>10. RequestInv' /\ SummedInv'
  BY <1>6, IdleType DEF RequestInv, SummedInv
<1>11. FeeInv'
  BY <1>1 DEF FeeInv
<1>12. AutoIsTheSum'
  <2>1. CASE q.kind = "fee"
    BY <2>1, CommitTotal DEF AutoIsTheSum
  <2>2. CASE q.kind # "fee"
    BY <2>2 DEF Commit, ModeAfter, AutoIsTheSum
  <2>3. QED
    BY <2>1, <2>2
<1>13. QED
  BY <1>7, <1>9, <1>10, <1>11, <1>12

LEMMA NextInv == IInv /\ SummedInv /\ [Next]_vars => IInv' /\ SummedInv'
<1> SUFFICES ASSUME IInv, SummedInv, [Next]_vars PROVE IInv' /\ SummedInv'
  OBVIOUS
<1> USE DEF IInv
<1>1. ASSUME NEW c \in Call, BeginCall(c) PROVE IInv' /\ SummedInv'
  <2>1. ASSUME NEW i \in Item, NEW p \in Price, BeginReprice(c, i, p)
        PROVE  IInv' /\ SummedInv'
    BY <2>1, BeginStep, AmountTypes DEF BeginReprice
  <2>2. ASSUME NEW i \in Item, BeginOutOfStock(c, i)
        PROVE  IInv' /\ SummedInv'
    <3>1. IsLast(i) \in BOOLEAN
      BY DEF IsLast
    <3>2. QED
      BY <2>2, <3>1, BeginStep, AmountTypes DEF BeginOutOfStock
  <2>3. ASSUME NEW f \in Fee, BeginSetFee(c, f) PROVE IInv' /\ SummedInv'
    BY <2>3, BeginStep, AmountTypes DEF BeginSetFee
  <2>4. QED
    BY <1>1, <2>1, <2>2, <2>3 DEF BeginCall
<1>2. ASSUME NEW c \in Call, RollBack(c) PROVE IInv' /\ SummedInv'
  <2>1. request' \in [Call -> Request \union {Idle}]
          /\ \A b \in Call : request'[b] = IF b = c THEN Idle ELSE request[b]
    BY <1>2 DEF RollBack, TypeOK
  <2>2. TypeOK' /\ AutoIsTheSum'
    BY <1>2, <2>1, OrderAlone DEF RollBack, TypeOK, order
  <2>3. \A b \in Call : \A i \in Item \union {None} :
          Holds(b, i)' => Holds(b, i) /\ request'[b] = request[b]
    BY <2>1, IdleType DEF Holds
  <2>4. LockInv' /\ RequestInv' /\ SummedInv'
    BY <2>1, <2>3, IdleType DEF LockInv, RequestInv, SummedInv
  <2>5. FeeInv'
    BY <1>2, <2>3 DEF FeeInv, RollBack, order
  <2>6. QED
    BY <2>2, <2>4, <2>5
<1>3. ASSUME NEW byHand \in BOOLEAN, NEW status \in BOOLEAN,
             Update(byHand, status)
      PROVE  IInv' /\ SummedInv'
  <2>1. TypeOK'
    BY <1>3 DEF Update, CountRace, TypeOK
  <2>2. LockInv' /\ RequestInv' /\ FeeInv' /\ SummedInv'
    BY <1>3 DEF Update, LockInv, RequestInv, FeeInv, SummedInv, Holds
  <2>3. AutoIsTheSum'
    BY <1>3 DEF Update, AutoIsTheSum, Owed
  <2>4. QED
    BY <2>1, <2>2, <2>3
<1>4. CASE UNCHANGED vars
  BY <1>4 DEF vars, TypeOK, LockInv, RequestInv, FeeInv, SummedInv, Holds,
              AutoIsTheSum, Owed
<1>5. QED
  BY <1>1, <1>2, <1>3, <1>4, WriteStep, AddUpStep, CommitStep DEF Next

LEMMA Invariance == Spec => [](IInv /\ SummedInv)
  BY InitInv, NextInv, PTL DEF Spec

\* The types, the locks, what requests know and the sum behind an automatic
\* total are invariant, for any number of requests, items and races.
THEOREM InductiveInvariant == Spec => []IInv
  BY Invariance, PTL

\* Every reachable state of the order and its requests is well-typed.
THEOREM TypeCorrect == Spec => []TypeOK
<1>1. IInv => TypeOK
  BY DEF IInv
<1>2. QED
  BY <1>1, InductiveInvariant, PTL

\* However requests overlap, an order whose pricing is automatic asks for what
\* its items and its fee add up to.
THEOREM AutomaticIsRight == Spec => []AutoIsTheSum
<1>1. IInv => AutoIsTheSum
  BY DEF IInv
<1>2. QED
  BY <1>1, InductiveInvariant, PTL

-----------------------------------------------------------------------------
(* What a step may never do                                                *)

\* Only a commit and update write the order.
LEMMA OrderWritten ==
  ASSUME [Next]_vars
  PROVE  \/ \E c \in Call : Commit(c)
         \/ \E byHand, status \in BOOLEAN : Update(byHand, status)
         \/ UNCHANGED order /\ UNCHANGED races
  BY DEF Next, vars, order, BeginCall, BeginReprice, BeginOutOfStock,
         BeginSetFee, Begin, Write, AddUp, RollBack

\* However requests overlap, a change that is not overtaken leaves the right
\* total behind.
THEOREM TotalIsRightAgain == Spec => TotalFollows
<1>1. IInv /\ SummedInv /\ [Next]_vars =>
        [races' = races /\ <<price, out, fee>>' # <<price, out, fee>> =>
           total' = Owed']_vars
  <2> SUFFICES ASSUME IInv, SummedInv, [Next]_vars, races' = races,
                      <<price, out, fee>>' # <<price, out, fee>>
               PROVE  total' = Owed'
    OBVIOUS
  <2>1. CASE \E c \in Call : Commit(c)
    BY <2>1, CommitTotal
  <2>2. CASE UNCHANGED order
    BY <2>2 DEF order
  <2>3. QED
    BY <2>1, <2>2, OrderWritten DEF Update
<1>2. QED
  BY <1>1, Invariance, PTL DEF Spec, TotalFollows

\* However requests overlap, only a commit that is overtaken moves a fee that
\* is set, or the amounts of an order that is not open but for a total set by
\* hand.
THEOREM AmountsAreSettled == Spec => AmountsSettle
<1>1. IInv /\ SummedInv /\ [Next]_vars =>
        [races' = races =>
           /\ feeSet => fee' = fee
           /\ ~open => \/ amounts' = amounts
                       \/ total' = ByHand
                            /\ <<price, out, fee>>' = <<price, out, fee>>]_vars
  <2> SUFFICES ASSUME IInv, SummedInv, [Next]_vars, races' = races
               PROVE  /\ feeSet => fee' = fee
                      /\ ~open => \/ amounts' = amounts
                                  \/ /\ total' = ByHand
                                     /\ <<price, out, fee>>' = <<price, out, fee>>
    OBVIOUS
  <2>1. ASSUME NEW c \in Call, Commit(c) PROVE open /\ (feeSet => fee' = fee)
    BY <2>1, CommitTotal DEF Stale, MayChange, Commit
  <2>2. CASE \E byHand, status \in BOOLEAN : Update(byHand, status)
    BY <2>2 DEF Update, amounts
  <2>3. CASE UNCHANGED order
    BY <2>3 DEF order, amounts
  <2>4. QED
    BY <2>1, <2>2, <2>3, OrderWritten
<1>2. QED
  BY <1>1, Invariance, PTL DEF Spec, AmountsSettle

-----------------------------------------------------------------------------
(* The order implements the contract of its amounts                        *)

LEMMA SameSum ==
  /\ Owed = Contract!Owed(price, out, fee)
  /\ Owed' = Contract!Owed(price', out', fee')
  BY DEF Owed, TotalWithFee, Lines, Contract!Owed

LEMMA CommitRefines ==
  ASSUME IInv, SummedInv, NEW c \in Call, Commit(c), races = 0, races' = 0
  PROVE  Contract!KeepPromise
<1> DEFINE q == request[c]
<1> USE DEF IInv
<1>1. q # Idle /\ ~Stale(c) /\ total' = Owed'
  BY CommitTotal
<1>2. Contract!FollowUp /\ open
  BY <1>1, SameSum DEF Contract!FollowUp, Stale, MayChange
<1>3. CASE q.kind = "fee"
  <2>1. q.amount \in Fee /\ ~feeSet /\ ~q.last
    BY <1>1, <1>3, RequestTypes DEF Stale
  <2>2. Contract!SetFee(q.amount)
    BY <1>2, <1>3, <2>1, CommitTotal DEF Contract!SetFee, Commit, TypeOK
  <2>3. QED
    BY <2>1, <2>2 DEF Contract!KeepPromise
<1>4. CASE q.kind = "reprice"
  <2>1. q.item \in Item /\ q.amount \in Price /\ ~q.last
    BY <1>1, <1>4, RequestTypes
  <2>2. price' = [price EXCEPT ![q.item] = q.amount]
    BY <2>1 DEF Commit, PriceSeen, TypeOK
  <2>3. UNCHANGED <<open, out, fee, feeSet>>
    BY <1>2, <1>4, <2>1 DEF Commit, OutSeen, TypeOK
  <2>4. Contract!Reprice(q.item, q.amount)
    BY <1>2, <2>2, <2>3 DEF Contract!Reprice
  <2>5. QED
    BY <2>1, <2>4 DEF Contract!KeepPromise
<1>5. CASE q.kind = "out"
  <2>1. q.item \in Item /\ q.amount = 0 /\ q.last = IsLast(q.item)
    BY <1>1, <1>5, RequestTypes DEF Stale
  <2>2. price' = [price EXCEPT ![q.item] = 0]
    BY <2>1 DEF Commit, PriceSeen, TypeOK
  <2>3. out' = out \union {q.item} /\ UNCHANGED <<fee, feeSet>>
    BY <1>5 DEF Commit, OutSeen
  <2>4. IsLast(q.item) <=> ~(q.item \in out \/ out' # Item)
    BY <2>1, <2>3 DEF IsLast, TypeOK
  <2>5. open' = (q.item \in out \/ out' # Item)
    BY <1>2, <2>1, <2>4 DEF Commit
  <2>6. Contract!RunOut(q.item)
    BY <1>2, <2>2, <2>3, <2>5 DEF Contract!RunOut
  <2>7. QED
    BY <2>1, <2>6 DEF Contract!KeepPromise
<1>6. QED
  BY <1>1, <1>3, <1>4, <1>5, RequestTypes

\* Until a commit rests on a stale read, the order implements the contract of
\* its amounts, for any number of requests, items, prices and fees.
THEOREM Implementation == Spec => ImplementsContract
<1>1. Init => Contract!Init
  BY SameSum DEF Init, Contract!Init
<1>2. IInv /\ SummedInv /\ [Next]_vars => [Contract!Next]_Contract!vars
  <2> SUFFICES ASSUME IInv, SummedInv, [Next]_vars
               PROVE  [Contract!Next]_Contract!vars
    OBVIOUS
  <2>1. races \in Nat /\ races' \in Nat /\ races <= races'
    <3>1. ASSUME NEW c \in Call, Commit(c) PROVE races' \in Nat /\ races <= races'
      BY <3>1, CommitTotal
    <3>2. ASSUME NEW byHand, NEW status, Update(byHand, status)
          PROVE  races' \in Nat /\ races <= races'
      BY <3>2 DEF Update, CountRace, IInv, TypeOK
    <3>3. QED
      BY <3>1, <3>2, OrderWritten DEF IInv, TypeOK
  <2>2. CASE races' > 0
    BY <2>2 DEF Contract!Next
  <2>3. CASE ~(races' > 0)
    <3>1. races' = 0 /\ races = 0
      BY <2>1, <2>3
    <3>2. ASSUME NEW c \in Call, Commit(c) PROVE Contract!KeepPromise
      BY <3>1, <3>2, CommitRefines
    <3>3. ASSUME NEW byHand \in BOOLEAN, NEW status \in BOOLEAN,
                 Update(byHand, status)
          PROVE  Contract!KeepPromise
      <4>1. open' => open
        BY <3>1, <3>3 DEF Update, CountRace
      <4>2. Contract!Update
        BY <3>3, <4>1 DEF Update, Contract!Update
      <4>3. QED
        BY <4>2 DEF Contract!KeepPromise
    <3>4. CASE UNCHANGED order /\ UNCHANGED races
      BY <3>4 DEF order, Contract!vars
    <3>5. QED
      BY <3>1, <3>2, <3>3, <3>4, OrderWritten DEF Contract!Next
  <2>4. QED
    BY <2>2, <2>3
<1>3. QED
  BY <1>1, <1>2, Invariance, PTL
     DEF Spec, ImplementsContract, Contract!Spec
-----------------------------------------------------------------------------
(* The dashboard: types and what steps do to changes                       *)

\* An element of changes.
Entry == [bumped : Time \union {Unset}, committed : Time]

LEMMA DashboardNone ==
  /\ MaxTime \in Nat /\ MaxChanges \in Nat
  /\ Time = 0 .. MaxTime /\ Figures = 0 .. MaxChanges
  /\ Unset \notin Time /\ Unset \notin Figures
  BY CacheAssumption DEF Time, Figures

LEMMA DashboardTypes ==
  ASSUME CacheTypeOK
  PROVE  /\ now \in Time
         /\ changes \in Seq(Entry)
         /\ version \in Time \union {Unset}
         /\ cache \in [Time -> Figures \union {Unset}]
         /\ writer \in [Writer -> [step : {"idle", "bumped", "committed"},
                                   change : Figures,
                                   bumped : Time \union {Unset}]]
         /\ reader \in [Reader -> [step : {"idle", "unversioned", "keyed", "missed", "read"},
                                   version : Time \union {Unset},
                                   figures : Figures]]
  BY DEF CacheTypeOK, Entry

\* A change is committed last, or announced after its commit.
LEMMA Appended ==
  ASSUME NEW s \in Seq(Entry), NEW e \in Entry
  PROVE  /\ Append(s, e) \in Seq(Entry)
         /\ Len(Append(s, e)) = Len(s) + 1
         /\ \A k \in 1 .. Len(s) : Append(s, e)[k] = s[k]
         /\ Append(s, e)[Len(s) + 1] = e
  OBVIOUS

LEMMA Updated ==
  ASSUME CacheTypeOK, NEW k \in DOMAIN changes, NEW time \in Time,
         changes' = [changes EXCEPT ![k].bumped = time]
  PROVE  /\ changes' \in Seq(Entry) /\ Len(changes') = Len(changes)
         /\ \A j \in 1 .. Len(changes) :
              /\ changes'[j].committed = changes[j].committed
              /\ changes'[j].bumped = IF j = k THEN time ELSE changes[j].bumped
<1>1. changes \in Seq(Entry) /\ DOMAIN changes = 1 .. Len(changes)
  BY DashboardTypes
<1>2. changes[k] \in Entry
  BY <1>1
<1>3. [changes[k] EXCEPT !.bumped = time] \in Entry
  BY <1>2 DEF Entry
<1>4. changes' = [changes EXCEPT ![k] = [changes[k] EXCEPT !.bumped = time]]
  OBVIOUS
<1>5. /\ changes' \in Seq(Entry) /\ Len(changes') = Len(changes)
      /\ \A j \in 1 .. Len(changes) :
           changes'[j] = IF j = k THEN [changes[k] EXCEPT !.bumped = time] ELSE changes[j]
  BY <1>1, <1>3, <1>4
<1>6. /\ [changes[k] EXCEPT !.bumped = time].bumped = time
      /\ [changes[k] EXCEPT !.bumped = time].committed = changes[k].committed
  BY <1>2 DEF Entry
<1>7. QED
  BY <1>5, <1>6

\* Every step but an announcement leaves the changes alone or adds one.
LEMMA Committed ==
  ASSUME CacheInv,
         NEW announced \in Time \union {Unset},
         Commits(announced)
  PROVE  /\ changes' \in Seq(Entry)
         /\ Len(changes') = Len(changes) + 1 /\ Len(changes') <= MaxChanges
         /\ \A k \in 1 .. Len(changes) : changes'[k] = changes[k]
         /\ changes'[Len(changes) + 1] = [bumped |-> announced, committed |-> now]
<1>1. changes \in Seq(Entry) /\ Len(changes) \in Nat /\ now \in Time
  BY DashboardTypes DEF CacheInv
<1>2. [bumped |-> announced, committed |-> now] \in Entry
  BY <1>1 DEF Entry
<1>3. QED
  BY <1>1, <1>2, Appended, DashboardNone DEF Commits

\* The changes there are stay committed when they were, and a new one is
\* committed now.
ChangesGrow ==
  /\ changes' \in Seq(Entry)
  /\ Len(changes) <= Len(changes') /\ Len(changes') <= MaxChanges
  /\ \A k \in 1 .. Len(changes) : changes'[k].committed = changes[k].committed
  /\ \A k \in Len(changes) + 1 .. Len(changes') : changes'[k].committed = now
  /\ now' \in Time /\ now <= now'

LEMMA NextGrows ==
  ASSUME CacheInv, [CacheNext]_cacheVars
  PROVE  ChangesGrow
<1>1. /\ CacheTypeOK /\ changes \in Seq(Entry) /\ Len(changes) \in Nat
      /\ now \in Nat /\ now \in Time
      /\ Len(changes) <= MaxChanges
  BY DashboardTypes, DashboardNone DEF CacheInv, ChangesInv
<1>2. CASE UNCHANGED changes /\ now' \in Time /\ now <= now'
  BY <1>1, <1>2 DEF ChangesGrow
<1>3. ASSUME NEW announced \in Time \union {Unset},
             Commits(announced), UNCHANGED now
      PROVE  ChangesGrow
  <2>1. /\ changes' \in Seq(Entry)
        /\ Len(changes') = Len(changes) + 1 /\ Len(changes') <= MaxChanges
        /\ \A k \in 1 .. Len(changes) : changes'[k] = changes[k]
        /\ changes'[Len(changes) + 1] = [bumped |-> announced, committed |-> now]
    BY <1>3, Committed
  <2>2. changes'[Len(changes) + 1].committed = now
    BY <2>1
  <2>3. QED
    BY <1>1, <1>3, <2>1, <2>2 DEF ChangesGrow
<1>4. ASSUME NEW w \in Writer, CommitRequest(w)
      PROVE  ChangesGrow
  <2>1. writer[w].bumped \in Time \union {Unset}
    BY <1>1, DashboardTypes
  <2>2. QED
    BY <1>3, <1>4, <2>1 DEF CommitRequest
<1>5. ASSUME NEW w \in Writer, BumpAfterCommit(w)
      PROVE  ChangesGrow
  <2>1. writer[w].change \in DOMAIN changes
    BY <1>5 DEF BumpAfterCommit, CacheInv, ChangesInv
  <2>2. /\ changes' = [changes EXCEPT ![writer[w].change].bumped = now]
        /\ UNCHANGED now
    BY <1>5 DEF BumpAfterCommit
  <2>3. /\ changes' \in Seq(Entry) /\ Len(changes') = Len(changes)
        /\ \A j \in 1 .. Len(changes) : changes'[j].committed = changes[j].committed
    BY <1>1, <2>1, <2>2, Updated
  <2>4. QED
    BY <1>1, <2>2, <2>3 DEF ChangesGrow
<1>6. CASE Tick
  BY <1>1, <1>2, <1>6, DashboardNone DEF Tick
<1>7. CASE CommitElsewhere \/ \E w \in Writer : CommitFirst(w)
  BY <1>3, <1>7 DEF CommitElsewhere, CommitFirst
<1>8. CASE UNCHANGED <<now, changes>>
  BY <1>1, <1>2, <1>8
<1>9. ASSUME NEW w \in Writer, Change(w)
      PROVE  ChangesGrow
  BY <1>4, <1>5, <1>7, <1>8, <1>9
     DEF Change, BumpInRequest, RollBackChange,
         ReadBackFails
<1>10. ASSUME NEW r \in Reader, ResolveCacheKey(r) \/ GoOn(r)
       PROVE  ChangesGrow
  BY <1>8, <1>10
     DEF ResolveCacheKey, GoOn, SetVersion,
         AnswerFromCache, Miss, ReadFigures,
         StoreFigures
<1>11. CASE \/ \E v \in Time : ExpireFigures(v)
            \/ ExpireVersion \/ Restart
            \/ UNCHANGED cacheVars
  BY <1>8, <1>11
     DEF ExpireFigures, ExpireVersion, Restart,
         cacheVars
<1>12. QED
  BY <1>6, <1>7, <1>9, <1>10, <1>11 DEF CacheNext

\* Figures are as old after a step as they were before.
LEMMA DatedStays ==
  ASSUME CacheInv, ChangesGrow,
         NEW v \in Time, NEW n \in Figures, Dated(v, n)
  PROVE  v <= now' /\ \A k \in n + 1 .. Len(changes') : v <= changes'[k].committed
<1>1. /\ v \in Nat /\ n \in Nat /\ now \in Nat /\ now' \in Nat
      /\ Len(changes) \in Nat /\ Len(changes') \in Nat
  BY DashboardNone, DashboardTypes DEF ChangesGrow, CacheInv
<1>2. v <= now /\ \A k \in n + 1 .. Len(changes) : v <= changes[k].committed
  BY DEF Dated
<1>3. v <= now'
  BY <1>1, <1>2 DEF ChangesGrow
<1>4. ASSUME NEW k \in n + 1 .. Len(changes') PROVE v <= changes'[k].committed
  <2>1. CASE k \in 1 .. Len(changes)
    BY <1>1, <1>2, <2>1 DEF ChangesGrow
  <2>2. CASE k \in Len(changes) + 1 .. Len(changes')
    BY <1>1, <1>2, <2>2 DEF ChangesGrow
  <2>3. QED
    BY <1>1, <2>1, <2>2
<1>5. QED
  BY <1>3, <1>4

-----------------------------------------------------------------------------
(* The dashboard: the inductive invariant                                  *)

LEMMA DashboardInit ==
  ASSUME CacheInit
  PROVE  CacheInv
<1>1. CacheTypeOK
  BY DashboardNone
     DEF CacheInit, CacheTypeOK, NoChange, NoAsk
<1>2. FiguresInv
  BY DEF CacheInit, FiguresInv, NoAsk
<1>3. AnnouncedInv
  BY DEF CacheInit, AnnouncedInv, Announced, NoChange
<1>4. ChangesInv
  BY DashboardNone DEF CacheInit, ChangesInv, NoChange
<1>5. QED
  BY <1>1, <1>2, <1>3, <1>4 DEF CacheInv

\* What a reader has asked for and found, and what a request has changed.
Ask    == [step : {"idle", "unversioned", "keyed", "missed", "read"},
           version : Time \union {Unset}, figures : Figures]
ChangeRecord == [step : {"idle", "bumped", "committed"}, change : Figures,
           bumped : Time \union {Unset}]

FitsAsk(ask) ==
  /\ ask.step \in {"keyed", "missed", "read"} => ask.version # Unset
  /\ ask.version # Unset => ask.version <= now
  /\ ask.step = "read" => Dated(ask.version, ask.figures)

FitsChange(change) ==
  /\ Announced(change.bumped)
  /\ change.step = "committed" => change.change \in DOMAIN changes

LEMMA DashboardFits ==
  ASSUME CacheInv
  PROVE  /\ reader \in [Reader -> Ask] /\ \A r \in Reader : FitsAsk(reader[r])
         /\ writer \in [Writer -> ChangeRecord] /\ \A w \in Writer : FitsChange(writer[w])
<1>1. reader \in [Reader -> Ask] /\ writer \in [Writer -> ChangeRecord]
  BY DashboardTypes DEF CacheInv, Ask, ChangeRecord
<1>2. \A r \in Reader : FitsAsk(reader[r])
  BY DEF CacheInv, CacheTypeOK, FiguresInv, FitsAsk
<1>3. \A w \in Writer : FitsChange(writer[w])
  BY DEF CacheInv, AnnouncedInv, ChangesInv, FitsChange
<1>4. QED
  BY <1>1, <1>2, <1>3

\* The version of the store is lost, stays, or moves to now.
LEMMA VersionMoves ==
  ASSUME [CacheNext]_cacheVars
  PROVE  version' \in {Unset, version, now}
<1>1. ASSUME NEW w \in Writer, Change(w)
      PROVE  version' \in {Unset, version, now}
  BY <1>1
     DEF Change, BumpInRequest, CommitRequest,
         RollBackChange, CommitFirst, BumpAfterCommit,
         ReadBackFails, BumpDashboardCacheVersion, BumpTo
<1>2. ASSUME NEW r \in Reader, ResolveCacheKey(r) \/ GoOn(r)
      PROVE  version' \in {Unset, version, now}
  BY <1>2
     DEF ResolveCacheKey, GoOn, SetVersion,
         AnswerFromCache, Miss, ReadFigures,
         StoreFigures
<1>3. QED
  BY <1>1, <1>2
     DEF CacheNext, Tick, CommitElsewhere,
         ExpireFigures, ExpireVersion, Restart,
         cacheVars

LEMMA AnnouncedStays ==
  ASSUME CacheInv, ChangesGrow,
         version' \in {Unset, version, now},
         NEW time \in Time \union {Unset}, Announced(time)
  PROVE  Announced(time)'
<1>1. /\ now \in Nat /\ now' \in Nat /\ now <= now'
      /\ version \in Nat \union {Unset} /\ time \in Nat \union {Unset}
  BY DashboardNone, DashboardTypes DEF ChangesGrow, CacheInv
<1>2. QED
  BY <1>1 DEF Announced

LEMMA AskStays ==
  ASSUME CacheInv, ChangesGrow,
         NEW ask \in Ask, FitsAsk(ask)
  PROVE  FitsAsk(ask)'
<1>1. now \in Nat /\ now' \in Nat /\ now <= now'
  BY DashboardNone, DashboardTypes DEF ChangesGrow, CacheInv
<1>2. /\ ask.version \in Time \union {Unset} /\ ask.figures \in Figures
      /\ ask.version # Unset => ask.version \in Nat
  BY DashboardNone DEF Ask
<1>3. ask.version # Unset => (ask.version <= now)'
  BY <1>1, <1>2 DEF FitsAsk
<1>4. ASSUME ask.step = "read" PROVE Dated(ask.version, ask.figures)'
  <2>1. ask.version \in Time /\ Dated(ask.version, ask.figures)
    BY <1>2, <1>4 DEF FitsAsk
  <2>2. QED
    BY <1>2, <2>1, DatedStays DEF Dated
<1>5. QED
  BY <1>3, <1>4 DEF FitsAsk

LEMMA ChangeStays ==
  ASSUME CacheInv, ChangesGrow,
         version' \in {Unset, version, now},
         NEW change \in ChangeRecord, FitsChange(change)
  PROVE  FitsChange(change)'
<1>1. change.bumped \in Time \union {Unset} /\ Announced(change.bumped)
  BY DEF ChangeRecord, FitsChange
<1>2. Announced(change.bumped)'
  BY <1>1, AnnouncedStays
<1>3. DOMAIN changes \subseteq DOMAIN changes'
  <2>1. /\ changes \in Seq(Entry) /\ changes' \in Seq(Entry)
        /\ Len(changes) <= Len(changes')
    BY DashboardTypes DEF ChangesGrow, CacheInv
  <2>2. QED
    BY <2>1
<1>4. QED
  BY <1>2, <1>3 DEF FitsChange

\* A reader goes on.
LEMMA NextAsk ==
  ASSUME CacheInv,
         NEW r \in Reader, ResolveCacheKey(r) \/ GoOn(r)
  PROVE  /\ UNCHANGED <<now, changes, writer>>
         /\ \E ask \in Ask : FitsAsk(ask) /\ reader' = [reader EXCEPT ![r] = ask]
         /\ \/ UNCHANGED cache
            \/ \E v \in Time, n \in Figures :
                 Dated(v, n) /\ cache' = [cache EXCEPT ![v] = n]
<1>1. /\ now \in Time /\ now \in Nat /\ Len(changes) \in Figures
      /\ version \in Time \union {Unset}
      /\ version # Unset => version <= now
      /\ reader[r] \in Ask /\ FitsAsk(reader[r])
  BY DashboardNone, DashboardTypes, DashboardFits
     DEF CacheInv, AnnouncedInv, ChangesInv
<1>2. now # Unset
  BY <1>1, DashboardNone
<1>3. CASE UNCHANGED <<now, changes, writer, cache>>
           /\ \E ask \in Ask : FitsAsk(ask) /\ reader' = [reader EXCEPT ![r] = ask]
  BY <1>3
<1>4. CASE ResolveCacheKey(r)
  <2> DEFINE ask == [reader[r] EXCEPT !.step = StepWith(version),
                                      !.version = version]
  <2>1. ask \in Ask
    BY <1>1 DEF Ask, StepWith
  <2>2. FitsAsk(ask)
    BY <1>1 DEF Ask, StepWith, FitsAsk
  <2>3. reader' = [reader EXCEPT ![r] = ask]
    BY <1>4 DEF ResolveCacheKey
  <2> HIDE DEF ask
  <2>4. QED
    BY <1>4, <2>1, <2>2, <2>3 DEF ResolveCacheKey
<1>5. CASE SetVersion(r)
  <2> DEFINE ask == [reader[r] EXCEPT !.step = "keyed", !.version = now]
  <2>1. ask \in Ask
    BY <1>1 DEF Ask
  <2>2. FitsAsk(ask)
    BY <1>1, <1>2 DEF Ask, FitsAsk
  <2>3. reader' = [reader EXCEPT ![r] = ask]
    BY <1>5 DEF SetVersion
  <2> HIDE DEF ask
  <2>4. QED
    BY <1>5, <2>1, <2>2, <2>3 DEF SetVersion
<1>6. CASE Miss(r)
  <2> DEFINE ask == [reader[r] EXCEPT !.step = "missed"]
  <2>1. ask \in Ask
    BY <1>1 DEF Ask
  <2>2. FitsAsk(ask)
    BY <1>1, <1>6 DEF Ask, FitsAsk, Miss
  <2>3. reader' = [reader EXCEPT ![r] = ask]
    BY <1>6 DEF Miss
  <2> HIDE DEF ask
  <2>4. QED
    BY <1>6, <2>1, <2>2, <2>3 DEF Miss
<1>7. CASE ReadFigures(r)
  <2> DEFINE ask == [reader[r] EXCEPT !.step = "read", !.figures = Len(changes)]
  <2>1. ask \in Ask
    BY <1>1 DEF Ask
  <2>2. FitsAsk(ask)
    <3>1. /\ ask.step = "read" /\ ask.figures = Len(changes)
          /\ ask.version = reader[r].version
      BY <1>1 DEF Ask
    <3>2. ask.version # Unset /\ ask.version <= now
      BY <1>1, <1>7, <3>1 DEF FitsAsk, ReadFigures
    <3> HIDE DEF ask
    <3>3. Len(changes) + 1 .. Len(changes) = {}
      BY <1>1, DashboardNone
    <3>4. QED
      BY <3>1, <3>2, <3>3 DEF FitsAsk, Dated
  <2>3. reader' = [reader EXCEPT ![r] = ask]
    BY <1>7 DEF ReadFigures
  <2> HIDE DEF ask
  <2>4. QED
    BY <1>7, <2>1, <2>2, <2>3 DEF ReadFigures
<1>8. NoAsk \in Ask /\ FitsAsk(NoAsk)
  BY DashboardNone DEF NoAsk, Ask, FitsAsk
<1>9. CASE AnswerFromCache(r)
  BY <1>8, <1>9 DEF AnswerFromCache
<1>10. CASE StoreFigures(r)
  <2>1. /\ reader[r].version \in Time /\ reader[r].figures \in Figures
        /\ Dated(reader[r].version, reader[r].figures)
    BY <1>1, <1>10 DEF Ask, FitsAsk, StoreFigures
  <2>2. QED
    BY <1>8, <1>10, <2>1 DEF StoreFigures
<1>11. QED
  BY <1>4, <1>5, <1>6, <1>7, <1>9, <1>10 DEF GoOn

\* A request that changes orders goes on.
LEMMA NextChange ==
  ASSUME CacheInv, ChangesGrow,
         NEW w \in Writer, Change(w)
  PROVE  /\ UNCHANGED <<now, cache, reader>>
         /\ \E change \in ChangeRecord :
              FitsChange(change)' /\ writer' = [writer EXCEPT ![w] = change]
<1>1. /\ now \in Time /\ now \in Nat
      /\ changes' \in Seq(Entry) /\ Len(changes') \in Nat
      /\ writer[w] \in ChangeRecord /\ FitsChange(writer[w])
  BY DashboardNone, DashboardTypes, DashboardFits DEF CacheInv, ChangesGrow
<1>2. NoChange \in ChangeRecord /\ FitsChange(NoChange)'
  BY DashboardNone DEF NoChange, ChangeRecord, FitsChange, Announced
<1>3. CASE BumpInRequest(w)
  <2>1. PICK change \in ChangeRecord :
          change = [writer[w] EXCEPT !.step = "bumped", !.bumped = now]
    BY <1>1 DEF ChangeRecord
  <2>2. change.step = "bumped" /\ change.bumped = now
    BY <1>1, <2>1 DEF ChangeRecord
  <2>3. writer' = [writer EXCEPT ![w] = change]
    BY <1>3, <2>1 DEF BumpInRequest
  <2>4. version' = now /\ UNCHANGED <<now, cache, reader>>
    BY <1>3
       DEF BumpInRequest, BumpDashboardCacheVersion, BumpTo
  <2>5. FitsChange(change)'
    BY <1>1, <2>2, <2>4 DEF FitsChange, Announced
  <2>6. QED
    BY <2>3, <2>4, <2>5
<1>4. CASE CommitFirst(w)
  <2>1. UNCHANGED <<now, version, cache, reader>>
    BY <1>4 DEF CommitFirst
  <2>2. Len(changes') \in Figures /\ Len(changes') \in DOMAIN changes'
    <3>1. Len(changes') = Len(changes) + 1 /\ Len(changes') <= MaxChanges
      BY <1>4, Committed DEF CommitFirst
    <3>2. Len(changes) \in Nat
      BY DashboardTypes DEF CacheInv
    <3>3. QED
      BY <1>1, <3>1, <3>2, DashboardNone
  <2>3. PICK change \in ChangeRecord :
          change = [writer[w] EXCEPT !.step = "committed", !.change = Len(changes')]
    BY <1>1, <2>2 DEF ChangeRecord
  <2>4. change.change = Len(changes') /\ change.bumped = writer[w].bumped
    BY <1>1, <2>3 DEF ChangeRecord
  <2>5. writer' = [writer EXCEPT ![w] = change]
    BY <1>4, <2>3 DEF CommitFirst
  <2>6. Announced(change.bumped)
    BY <1>1, <2>4 DEF FitsChange
  <2>7. FitsChange(change)'
    BY <2>1, <2>2, <2>4, <2>6 DEF FitsChange, Announced
  <2>8. QED
    BY <2>1, <2>5, <2>7
<1>5. CASE CommitRequest(w) \/ RollBackChange(w)
           \/ BumpAfterCommit(w) \/ ReadBackFails(w)
  BY <1>2, <1>5
     DEF CommitRequest, RollBackChange, BumpAfterCommit,
         ReadBackFails
<1>6. QED
  BY <1>3, <1>4, <1>5 DEF Change

\* What the process has announced stays within the clock and its version.
LEMMA NextAnnounced ==
  ASSUME CacheInv, ChangesGrow,
         version' \in {Unset, version, now}, [CacheNext]_cacheVars
  PROVE  \A k \in DOMAIN changes' : Announced(changes[k].bumped)'
<1>1. /\ CacheTypeOK /\ now \in Time
      /\ changes \in Seq(Entry) /\ DOMAIN changes = 1 .. Len(changes)
      /\ changes' \in Seq(Entry) /\ DOMAIN changes' = 1 .. Len(changes')
      /\ Len(changes) \in Nat
  BY DashboardTypes DEF CacheInv, ChangesGrow
<1>2. \A k \in DOMAIN changes : changes[k].bumped \in Time \union {Unset}
  <2>1. \A k \in DOMAIN changes : changes[k] \in Entry
    BY <1>1
  <2>2. QED
    BY <2>1 DEF Entry
<1>3. \A k \in DOMAIN changes : \A time \in Time \union {Unset} :
        time = changes[k].bumped => Announced(time)'
  <2>1. \A time \in Time \union {Unset} :
          Announced(time) => Announced(time)'
    BY AnnouncedStays
  <2>2. \A k \in DOMAIN changes : Announced(changes[k].bumped)
    BY DEF CacheInv, AnnouncedInv
  <2>3. QED
    BY <2>1, <2>2
<1>4. CASE /\ \A k \in DOMAIN changes : changes'[k].bumped = changes[k].bumped
           /\ DOMAIN changes' = DOMAIN changes
  BY <1>2, <1>3, <1>4
<1>5. ASSUME NEW announced \in Time \union {Unset},
             Announced(announced), Commits(announced)
      PROVE  \A k \in DOMAIN changes' : Announced(changes[k].bumped)'
  <2>1. /\ Len(changes') = Len(changes) + 1
        /\ \A k \in 1 .. Len(changes) : changes'[k] = changes[k]
        /\ changes'[Len(changes) + 1] = [bumped |-> announced, committed |-> now]
    BY <1>5, Committed
  <2>2. Announced(announced)'
    BY <1>5, AnnouncedStays
  <2>3. ASSUME NEW k \in DOMAIN changes' PROVE Announced(changes[k].bumped)'
    <3>1. CASE k \in DOMAIN changes
      BY <1>1, <1>2, <1>3, <2>1, <3>1
    <3>2. CASE k = Len(changes) + 1
      <4>1. changes'[k].bumped = announced
        BY <2>1, <3>2
      <4>2. QED
        BY <2>2, <4>1 DEF Announced
    <3>3. QED
      BY <1>1, <2>1, <3>1, <3>2
  <2>4. QED
    BY <2>3
<1>6. ASSUME NEW w \in Writer, CommitRequest(w)
      PROVE  \A k \in DOMAIN changes' : Announced(changes[k].bumped)'
  <2>1. writer[w] \in ChangeRecord /\ Announced(writer[w].bumped)
    BY DashboardFits DEF FitsChange
  <2>2. PICK announced \in Time \union {Unset} : announced = writer[w].bumped
    BY <2>1 DEF ChangeRecord
  <2>3. QED
    BY <1>5, <1>6, <2>1, <2>2 DEF CommitRequest
<1>7. ASSUME NEW w \in Writer, BumpAfterCommit(w)
      PROVE  \A k \in DOMAIN changes' : Announced(changes[k].bumped)'
  <2>1. writer[w].change \in DOMAIN changes
    BY <1>7 DEF BumpAfterCommit, CacheInv, ChangesInv
  <2>2. /\ changes' = [changes EXCEPT ![writer[w].change].bumped = now]
        /\ now' = now /\ version' = now
    BY <1>7
       DEF BumpAfterCommit, BumpDashboardCacheVersion, BumpTo
  <2>3. /\ Len(changes') = Len(changes)
        /\ \A j \in 1 .. Len(changes) :
             changes'[j].bumped = IF j = writer[w].change THEN now ELSE changes[j].bumped
    BY <1>1, <2>1, <2>2, Updated
  <2>4. ASSUME NEW k \in DOMAIN changes' PROVE Announced(changes[k].bumped)'
    <3>1. CASE k = writer[w].change
      <4>1. changes'[k].bumped = now
        BY <1>1, <2>3, <3>1
      <4>2. now \in Nat
        BY <1>1, DashboardNone
      <4>3. QED
        BY <2>2, <4>1, <4>2 DEF Announced
    <3>2. CASE k # writer[w].change
      <4>1. k \in DOMAIN changes /\ changes'[k].bumped = changes[k].bumped
        BY <1>1, <2>3, <3>2
      <4>2. QED
        BY <1>2, <1>3, <4>1 DEF Announced
    <3>3. QED
      BY <3>1, <3>2
  <2>5. QED
    BY <2>4
<1>8. CASE CommitElsewhere \/ \E w \in Writer : CommitFirst(w)
  BY <1>5, <1>8
     DEF CommitElsewhere, CommitFirst, Announced
<1>9. CASE UNCHANGED changes
  BY <1>2, <1>3, <1>9 DEF Announced
<1>10. ASSUME NEW w \in Writer, Change(w)
       PROVE  \A k \in DOMAIN changes' : Announced(changes[k].bumped)'
  BY <1>6, <1>7, <1>8, <1>9, <1>10
     DEF Change, BumpInRequest, RollBackChange,
         ReadBackFails
<1>11. ASSUME NEW r \in Reader, ResolveCacheKey(r) \/ GoOn(r)
       PROVE  \A k \in DOMAIN changes' : Announced(changes[k].bumped)'
  BY <1>9, <1>11, NextAsk
<1>12. QED
  BY <1>8, <1>9, <1>10, <1>11
     DEF CacheNext, Tick, ExpireFigures,
         ExpireVersion, Restart, cacheVars

LEMMA DashboardNext ==
  ASSUME CacheInv,
         [CacheNext]_cacheVars
  PROVE  CacheInv'
<1>1. ChangesGrow /\ version' \in {Unset, version, now}
  BY NextGrows, VersionMoves
<1>2. /\ now \in Time /\ now' \in Time /\ now <= now'
      /\ now \in Nat /\ now' \in Nat
      /\ version \in Time \union {Unset}
      /\ version # Unset => version \in Nat /\ version <= now
      /\ cache \in [Time -> Figures \union {Unset}]
      /\ \A v \in Time : cache[v] # Unset => Dated(v, cache[v])
      /\ CacheTypeOK
  BY <1>1, DashboardNone, DashboardTypes
     DEF ChangesGrow, CacheInv, AnnouncedInv, FiguresInv
<1>3. /\ version' \in Time \union {Unset}
      /\ version' # Unset => version' <= now'
  BY <1>1, <1>2
<1>4. \A change \in ChangeRecord : FitsChange(change) => FitsChange(change)'
  BY <1>1, ChangeStays
<1>5. writer' \in [Writer -> ChangeRecord] /\ \A w \in Writer : FitsChange(writer[w])'
  <2>0. writer \in [Writer -> ChangeRecord] /\ \A w \in Writer : FitsChange(writer[w])
    BY DashboardFits
  <2>1. CASE UNCHANGED writer
    BY <1>4, <2>0, <2>1 DEF FitsChange
  <2>2. ASSUME NEW w \in Writer, Change(w)
        PROVE  writer' \in [Writer -> ChangeRecord] /\ \A x \in Writer : FitsChange(writer[x])'
    <3>1. PICK change \in ChangeRecord :
            FitsChange(change)' /\ writer' = [writer EXCEPT ![w] = change]
      BY <1>1, <2>2, NextChange
    <3>2. writer' \in [Writer -> ChangeRecord]
      BY <2>0, <3>1
    <3>3. ASSUME NEW x \in Writer PROVE FitsChange(writer[x])'
      <4>1. PICK other \in ChangeRecord : FitsChange(other)' /\ writer'[x] = other
        BY <1>4, <2>0, <3>1
      <4>2. QED
        BY <4>1 DEF FitsChange
    <3>4. QED
      BY <3>2, <3>3
  <2>3. CASE Restart
    <3>1. NoChange \in ChangeRecord /\ FitsChange(NoChange)'
      BY DashboardNone DEF NoChange, ChangeRecord, FitsChange, Announced
    <3>2. writer' = [w \in Writer |-> NoChange]
      BY <2>3 DEF Restart
    <3>3. QED
      BY <3>1, <3>2 DEF FitsChange, NoChange
  <2>4. ASSUME NEW r \in Reader, ResolveCacheKey(r) \/ GoOn(r)
        PROVE  UNCHANGED writer
    BY <2>4, NextAsk
  <2>5. QED
    BY <2>1, <2>2, <2>3, <2>4
       DEF CacheNext, Tick, CommitElsewhere,
           ExpireFigures, ExpireVersion, cacheVars
<1>6. \A ask \in Ask : FitsAsk(ask) => FitsAsk(ask)'
  BY <1>1, AskStays
<1>7. reader' \in [Reader -> Ask] /\ \A r \in Reader : FitsAsk(reader[r])'
  <2>0. reader \in [Reader -> Ask] /\ \A r \in Reader : FitsAsk(reader[r])
    BY DashboardFits
  <2>1. CASE UNCHANGED reader
    BY <1>6, <2>0, <2>1 DEF FitsAsk
  <2>2. ASSUME NEW r \in Reader, ResolveCacheKey(r) \/ GoOn(r)
        PROVE  reader' \in [Reader -> Ask] /\ \A x \in Reader : FitsAsk(reader[x])'
    <3>1. PICK ask \in Ask : FitsAsk(ask) /\ reader' = [reader EXCEPT ![r] = ask]
      BY <2>2, NextAsk
    <3>2. reader' \in [Reader -> Ask]
      BY <2>0, <3>1
    <3>3. ASSUME NEW x \in Reader PROVE FitsAsk(reader[x])'
      <4>1. PICK other \in Ask : FitsAsk(other)' /\ reader'[x] = other
        BY <1>6, <2>0, <3>1
      <4>2. QED
        BY <4>1 DEF FitsAsk
    <3>4. QED
      BY <3>2, <3>3
  <2>3. CASE Restart
    <3>1. NoAsk \in Ask /\ FitsAsk(NoAsk)'
      BY DashboardNone DEF NoAsk, Ask, FitsAsk
    <3>2. reader' = [r \in Reader |-> NoAsk]
      BY <2>3 DEF Restart
    <3>3. QED
      BY <3>1, <3>2 DEF FitsAsk, NoAsk
  <2>4. ASSUME NEW w \in Writer, Change(w)
        PROVE  UNCHANGED reader
    BY <1>1, <2>4, NextChange
  <2>5. QED
    BY <2>1, <2>2, <2>3, <2>4
       DEF CacheNext, Tick, CommitElsewhere,
           ExpireFigures, ExpireVersion, cacheVars
<1>8. \A v \in Time, n \in Figures :
        Dated(v, n) => Dated(v, n)'
  BY <1>1, DatedStays DEF Dated
<1>9. /\ cache' \in [Time -> Figures \union {Unset}]
      /\ \A v \in Time : cache'[v] # Unset => Dated(v, cache[v])'
  <2>1. CASE UNCHANGED cache
    BY <1>2, <1>8, <2>1 DEF Dated
  <2>2. ASSUME NEW t \in Time, NEW m \in Figures,
               Dated(t, m), cache' = [cache EXCEPT ![t] = m]
        PROVE  /\ cache' \in [Time -> Figures \union {Unset}]
               /\ \A v \in Time :
                    cache'[v] # Unset => Dated(v, cache[v])'
    <3>1. cache' \in [Time -> Figures \union {Unset}]
      BY <1>2, <2>2
    <3>2. ASSUME NEW v \in Time, cache'[v] # Unset
          PROVE  Dated(v, cache[v])'
      <4>1. PICK n \in Figures : Dated(v, n)' /\ cache'[v] = n
        BY <1>2, <1>8, <2>2, <3>2
      <4>2. QED
        BY <4>1 DEF Dated
    <3>3. QED
      BY <3>1, <3>2
  <2>3. CASE Restart
    BY <2>3 DEF Restart
  <2>4. ASSUME NEW v \in Time, ExpireFigures(v)
        PROVE  /\ cache' \in [Time -> Figures \union {Unset}]
               /\ \A u \in Time :
                    cache'[u] # Unset => Dated(u, cache[u])'
    <3>1. cache' = [cache EXCEPT ![v] = Unset]
      BY <2>4 DEF ExpireFigures
    <3>2. cache' \in [Time -> Figures \union {Unset}]
      BY <1>2, <3>1
    <3>3. ASSUME NEW u \in Time, cache'[u] # Unset
          PROVE  Dated(u, cache[u])'
      <4>1. PICK n \in Figures : Dated(u, n)' /\ cache'[u] = n
        BY <1>2, <1>8, <3>1, <3>3
      <4>2. QED
        BY <4>1 DEF Dated
    <3>4. QED
      BY <3>2, <3>3
  <2>5. ASSUME NEW w \in Writer, Change(w)
        PROVE  UNCHANGED cache
    BY <1>1, <2>5, NextChange
  <2>6. QED
    BY <2>1, <2>2, <2>3, <2>4, <2>5, NextAsk
       DEF CacheNext, Tick, CommitElsewhere,
           ExpireVersion, cacheVars
<1>10. CacheTypeOK'
  <2>1. \A r \in Reader : reader'[r].step \in {"keyed", "missed", "read"} =>
                            reader'[r].version # Unset
    BY <1>7 DEF FitsAsk
  <2>2. changes' \in Seq(Entry)
    BY <1>1 DEF ChangesGrow
  <2>3. QED
    BY <1>2, <1>3, <1>5, <1>7, <1>9, <2>1, <2>2
       DEF CacheTypeOK, Entry, Ask, ChangeRecord, Time, Figures
<1>11. FiguresInv'
  BY <1>7, <1>9 DEF FiguresInv, FitsAsk, Dated, Time
<1>12. AnnouncedInv'
  <2>1. \A k \in DOMAIN changes' : Announced(changes[k].bumped)'
    BY <1>1, NextAnnounced
  <2>2. \A w \in Writer : Announced(writer[w].bumped)'
    BY <1>5 DEF FitsChange
  <2>3. QED
    BY <1>3, <2>1, <2>2 DEF AnnouncedInv
<1>13. ChangesInv'
  BY <1>1, <1>5 DEF ChangesGrow, ChangesInv, FitsChange
<1>14. QED
  BY <1>10, <1>11, <1>12, <1>13 DEF CacheInv

-----------------------------------------------------------------------------
(* The dashboard: what is served                                           *)

\* Every value a variable of the dashboard takes is one it is declared for, for
\* any number of requests, readers, changes and moments.
LEMMA DashboardTypeCorrect ==
  CacheSpec => []CacheTypeOK
<1>1. CacheInv => CacheTypeOK
  BY DEF CacheInv
<1>2. QED
  BY <1>1, DashboardInit, DashboardNext, PTL DEF CacheSpec

\* Figures are no older than the version they are kept under, and nothing
\* announced is ahead of the version, across expiry and restarts.
THEOREM DashboardInvariant ==
  CacheSpec => []CacheInv
  BY DashboardInit, DashboardNext, PTL DEF CacheSpec

\* The process serves figures that leave out a change it has announced only if
\* they were asked for in between the announcement and the commit.
THEOREM StaleOnlyInTheWindow ==
  CacheSpec => []StaleFromTheWindow
<1>1. CacheInv => StaleFromTheWindow
  <2> SUFFICES ASSUME CacheInv, NEW k \in Missed,
                      changes[k].bumped # Unset
               PROVE  changes[k].bumped <= version /\ version <= changes[k].committed
    BY DEF StaleFromTheWindow
  <2>1. /\ version \in Time /\ version # Unset
        /\ cache[version] \in Figures /\ cache[version] # Unset
        /\ k \in cache[version] + 1 .. Len(changes)
        /\ changes \in Seq(Entry)
    BY DashboardTypes, DashboardNone DEF Missed, CacheInv
  <2>2. k \in DOMAIN changes
    BY <2>1, DashboardNone
  <2>3. version <= changes[k].committed
    BY <2>1 DEF CacheInv, FiguresInv, Dated
  <2>4. changes[k].bumped <= version
    BY <2>1, <2>2 DEF CacheInv, AnnouncedInv, Announced
  <2>5. QED
    BY <2>3, <2>4
<1>2. QED
  BY <1>1, DashboardInvariant, PTL
-----------------------------------------------------------------------------
(* The closing of the day: types                                           *)

LEMMA DayConstants ==
  /\ Nothing \notin Summaries /\ Nothing \notin Closure
  /\ DateOf(0) \in Date
  /\ 0 \in Hour
  BY DayAssumption DEF Date, Hour

\* What a request that closes a day knows.
LEMMA ClosingTypes ==
  ASSUME DayTypeOK, NEW c \in Closer
  PROVE  /\ closer[c] \in Closing
         /\ closer[c].step \in AtWork \union {"idle", "refused"}
         /\ closer[c].date \in Date \union {0}
         /\ closer[c].summary \in Summaries \union {Nothing}
         /\ closer[c].found \in SUBSET Order
  BY DEF DayTypeOK, Closing

LEMMA EndedType ==
  ASSUME NEW how \in {"idle", "refused"}
  PROVE  /\ Ended(how) \in Closing
         /\ Ended(how).step \notin AtWork
  BY DEF Ended, Closing, AtWork

\* A summary is of the orders it counts, which have happened.
LEMMA SummaryType ==
  ASSUME NEW d
  PROVE  /\ Summary(d) \in Summaries
         /\ \A o \in Order : o \in DOMAIN Summary(d) <=> Counts(o, d)
<1>1. \A o \in Order : Counts(o, d) => orders[o].status \in Happening
  BY DEF Counts, Seen
<1>2. Summary(d) \in [{p \in Order : Counts(p, d)} -> Happening]
  BY <1>1 DEF Summary
<1>3. {p \in Order : Counts(p, d)} \in SUBSET Order
  OBVIOUS
<1>4. QED
  BY <1>2, <1>3 DEF Summaries, Summary

LEMMA DayInitInv ==
  ASSUME DayInit
  PROVE  DayInv
<1>1. DayTypeOK
  BY DayConstants, EndedType DEF DayInit, DayTypeOK, Placed
<1>2. \A c \in Closer : closer[c] = Ended("idle")
  BY DEF DayInit
<1>3. \A c \in Closer : closer[c].step \notin AtWork
  BY <1>2, EndedType
<1>4. \A c \in Closer, d \in Date : ~HoldsDate(c, d)
  BY <1>3 DEF HoldsDate, AtWork
<1>5. \A d \in Date : closures[d] = Nothing /\ messages[d] = 0 /\ unkept[d] = 0
                      /\ told[d] = Nothing
  BY DEF DayInit
<1>6. KeyInv /\ FoundInv
  BY <1>3, <1>4 DEF KeyInv, FoundInv, Knows
<1>7. CountedInv /\ FoundAreCounted /\ ToldAsStored
  BY <1>5 DEF CountedInv, FoundAreCounted, ToldAsStored
<1>8. MessageInv
  BY <1>4, <1>5 DEF MessageInv, Kept
<1>9. QED
  BY <1>1, <1>6, <1>7, <1>8 DEF DayInv

-----------------------------------------------------------------------------
(* The closing of the day: what orders do                                  *)

\* An order that has happened has done so for good, at its moment.
OrdersStay ==
  \A o \in Order : Seen(o) => Seen(o)' /\ orders'[o].placed = orders[o].placed

LEMMA OrdersMove ==
  ASSUME DayInv, DayTypeOK', OrdersStay, UNCHANGED <<closures, closer, reportVars>>
  PROVE  DayInv'
<1>1. /\ DayTypeOK /\ KeyInv /\ FoundInv /\ CountedInv /\ FoundAreCounted
      /\ MessageInv /\ ToldAsStored
  BY DEF DayInv
<1>2. /\ closures' = closures /\ closer' = closer /\ messages' = messages
      /\ told' = told /\ unkept' = unkept
  BY DEF reportVars
<1>3. KeyInv' /\ MessageInv' /\ ToldAsStored'
  BY <1>1, <1>2 DEF KeyInv, HoldsDate, MessageInv, Kept, ToldAsStored
<1>4. FoundInv'
  <2> SUFFICES ASSUME NEW c \in Closer PROVE Knows(closer[c])'
    BY DEF FoundInv
  <2>1. Knows(closer[c]) /\ closer[c].found \in SUBSET Order
    BY <1>1, ClosingTypes DEF FoundInv
  <2>2. QED
    BY <1>2, <2>1 DEF Knows, OrdersStay, WindowOf
<1>5. \A d \in Date : closures[d] # Nothing => closures[d].found \in SUBSET Order
  BY <1>1 DEF DayTypeOK, Closure
<1>6. CountedInv'
  BY <1>1, <1>2, <1>5 DEF CountedInv, OrdersStay
<1>7. FoundAreCounted'
  BY <1>1, <1>2, <1>5 DEF FoundAreCounted, CountedInv, OrdersStay, WindowOf
<1>8. QED
  BY <1>3, <1>4, <1>6, <1>7 DEF DayInv

LEMMA HourPassesInv ==
  ASSUME DayInv, HourPasses
  PROVE  DayInv'
<1>1. hour' \in Hour
  BY DayAssumption DEF DayInv, DayTypeOK, HourPasses, Hour
<1>2. DayTypeOK'
  BY <1>1 DEF DayInv, DayTypeOK, HourPasses, reportVars
<1>3. OrdersStay
  BY DEF OrdersStay, HourPasses, Seen
<1>4. QED
  BY <1>2, <1>3, OrdersMove DEF HourPasses

LEMMA LiveInv ==
  ASSUME DayInv, NEW o \in Order, Live(o)
  PROVE  DayInv'
<1>1. DayTypeOK /\ orders[o] \in Placed
  BY DEF DayInv, DayTypeOK
<1>2. UNCHANGED <<hour, closures, closer, reportVars>>
  BY DEF Live, Place, EndPlacing, Move
<1>3. PICK x \in Placed :
        /\ orders' = [orders EXCEPT ![o] = x]
        /\ Seen(o) => x.status \in Happening /\ x.placed = orders[o].placed
  <2>1. CASE Place(o)
    <3> DEFINE x == [placed |-> hour, status |-> "placing"]
    <3>1. x \in Placed
      BY <1>1 DEF DayTypeOK, Placed
    <3>2. orders' = [orders EXCEPT ![o] = x] /\ ~Seen(o)
      BY <2>1 DEF Place, Seen, Happening
    <3>3. QED
      BY <3>1, <3>2
  <2>2. ASSUME NEW status \in Happening \union {"none", "placing"},
               orders' = [orders EXCEPT ![o].status = status],
               Seen(o) => status \in Happening
        PROVE  \E x \in Placed :
                 /\ orders' = [orders EXCEPT ![o] = x]
                 /\ Seen(o) => x.status \in Happening /\ x.placed = orders[o].placed
    <3> DEFINE x == [orders[o] EXCEPT !.status = status]
    <3>1. /\ x \in Placed
          /\ x.status = status /\ x.placed = orders[o].placed
      BY <1>1 DEF Placed
    <3>2. orders' = [orders EXCEPT ![o] = x]
      BY <2>2
    <3>3. QED
      BY <2>2, <3>1, <3>2
  <2>3. CASE \E status \in {"open", "none"} : EndPlacing(o, status)
    <3>1. ~Seen(o)
      BY <2>3 DEF EndPlacing, Seen, Happening
    <3>2. QED
      BY <2>2, <2>3, <3>1 DEF EndPlacing, Happening
  <2>4. CASE \E status \in Happening : Move(o, status)
    BY <2>2, <2>4 DEF Move
  <2>5. QED
    BY <2>1, <2>3, <2>4 DEF Live
<1>4. orders' \in [Order -> Placed]
  BY <1>1, <1>3 DEF DayTypeOK
<1>5. DayTypeOK'
  BY <1>1, <1>2, <1>4 DEF DayTypeOK, reportVars
<1>6. OrdersStay
  BY <1>1, <1>3 DEF OrdersStay, Seen, DayTypeOK
<1>7. QED
  BY <1>2, <1>5, <1>6, OrdersMove
-----------------------------------------------------------------------------
(* The closing of the day: what requests do                                *)

LEMMA HoldersAtWork ==
  ASSUME DayInv, NEW c \in Closer, NEW d \in Date, HoldsDate(c, d)
  PROVE  /\ closer[c].step \in AtWork \ {"looked"}
         /\ closer[c].date = d
         /\ closures[d] = Nothing
         /\ \A b \in Closer : HoldsDate(b, d) => b = c
  BY DEF DayInv, KeyInv, HoldsDate, AtWork

\* A request goes on to x without a word to the merchant or the table.
LEMMA CloserMoves ==
  ASSUME DayInv, NEW c \in Closer, NEW x \in Closing, Knows(x),
         closer' = [closer EXCEPT ![c] = x],
         UNCHANGED <<hour, orders, closures, reportVars>>,
         closer[c].step # "told", x.step # "told",
         x.step \in {"inserted", "silent"} =>
           closures[x.date] = Nothing /\ \A b \in Closer : HoldsDate(b, x.date) => b = c
  PROVE  DayInv'
<1>1. /\ DayTypeOK /\ KeyInv /\ FoundInv /\ CountedInv /\ FoundAreCounted
      /\ MessageInv /\ ToldAsStored
  BY DEF DayInv
<1>2. /\ hour' = hour /\ orders' = orders /\ closures' = closures
      /\ messages' = messages /\ told' = told /\ unkept' = unkept
  BY DEF reportVars
<1>3. /\ closer' \in [Closer -> Closing]
      /\ \A b \in Closer : closer'[b] = IF b = c THEN x ELSE closer[b]
  BY <1>1 DEF DayTypeOK
<1>4. DayTypeOK'
  BY <1>1, <1>2, <1>3 DEF DayTypeOK
<1>5. KeyInv'
  BY <1>1, <1>2, <1>3 DEF KeyInv, HoldsDate
<1>6. FoundInv'
  <2> SUFFICES ASSUME NEW b \in Closer PROVE Knows(closer[b])'
    BY DEF FoundInv
  <2>1. Knows(closer'[b])
    BY <1>1, <1>3 DEF FoundInv
  <2>2. QED
    BY <1>2, <2>1 DEF Knows, Seen, WindowOf
<1>7. CountedInv' /\ FoundAreCounted' /\ ToldAsStored'
  BY <1>1, <1>2 DEF CountedInv, FoundAreCounted, ToldAsStored, Seen, WindowOf
<1>8. \A b \in Closer, d \in Date :
        HoldsDate(b, d)' /\ closer'[b].step = "told"
          <=> HoldsDate(b, d) /\ closer[b].step = "told"
  BY <1>3 DEF HoldsDate
<1>9. MessageInv'
  <2> SUFFICES ASSUME NEW d \in Date
               PROVE  /\ messages'[d] <= unkept'[d] + (IF Kept(d)' THEN 1 ELSE 0)
                      /\ told'[d] # Nothing /\ unkept'[d] = 0 => Kept(d)'
                      /\ \A b \in Closer :
                           HoldsDate(b, d)' /\ closer'[b].step = "told" /\ unkept'[d] = 0
                             => told'[d] = closer'[b].summary
    BY DEF MessageInv
  <2>1. Kept(d)' <=> Kept(d)
    BY <1>2, <1>8 DEF Kept
  <2>2. \A b \in Closer :
          HoldsDate(b, d)' /\ closer'[b].step = "told" /\ unkept'[d] = 0
            => told'[d] = closer'[b].summary
    BY <1>1, <1>2, <1>3, <1>8 DEF MessageInv
  <2>3. QED
    BY <1>1, <1>2, <2>1, <2>2 DEF MessageInv
<1>10. QED
  BY <1>4, <1>5, <1>6, <1>7, <1>9 DEF DayInv

\* A request ends that has told nobody.
LEMMA EndInv ==
  ASSUME DayInv, NEW c \in Closer, NEW how \in {"idle", "refused"},
         closer' = [closer EXCEPT ![c] = Ended(how)],
         UNCHANGED <<hour, orders, closures, reportVars>>,
         closer[c].step # "told"
  PROVE  DayInv'
<1> DEFINE x == Ended(how)
<1>1. x \in Closing /\ x.step \notin AtWork
  BY EndedType
<1>2. Knows(x) /\ x.step # "told" /\ x.step \notin {"inserted", "silent"}
  BY <1>1 DEF Knows, AtWork
<1> HIDE DEF x
<1>3. closer' = [closer EXCEPT ![c] = x]
  BY DEF x
<1>4. QED
  BY <1>1, <1>2, <1>3, CloserMoves

LEMMA LookInv ==
  ASSUME DayInv, NEW c \in Closer, Look(c)
  PROVE  DayInv'
<1> DEFINE d == DateOf(hour)
           x == [step |-> "looked", date |-> d, summary |-> Nothing, found |-> Found(d)]
<1>1. d \in Date
  BY DEF DayInv, DayTypeOK, Date
<1>2. x \in Closing
  BY <1>1 DEF Closing, AtWork, Found
<1>3. Knows(x)
  BY <1>1 DEF Knows, Found
<1>4. /\ closer[c].step # "told"
      /\ UNCHANGED <<hour, orders, closures, reportVars>>
      /\ \/ closer' = [closer EXCEPT ![c] = Ended("idle")]
         \/ closer' = [closer EXCEPT ![c] = x]
  BY DEF Look, AtWork
<1>5. x.step \notin {"told", "inserted", "silent"}
  OBVIOUS
<1> HIDE DEF x, d
<1>6. CASE closer' = [closer EXCEPT ![c] = Ended("idle")]
  BY <1>4, <1>6, EndInv
<1>7. CASE closer' = [closer EXCEPT ![c] = x]
  BY <1>2, <1>3, <1>4, <1>5, <1>7, CloserMoves
<1>8. QED
  BY <1>4, <1>6, <1>7

LEMMA SumUpInv ==
  ASSUME DayInv, NEW c \in Closer, SumUp(c)
  PROVE  DayInv'
<1> DEFINE s == Summary(closer[c].date)
           x == [closer[c] EXCEPT !.step = "summed", !.summary = s]
<1>1. DayTypeOK /\ Knows(closer[c]) /\ closer[c].step = "looked"
  BY DEF DayInv, FoundInv, SumUp
<1>2. closer[c] \in Closing /\ closer[c].found \in SUBSET Order
  BY <1>1, ClosingTypes
<1>3. s \in Summaries /\ \A o \in Order : o \in DOMAIN s <=> Counts(o, closer[c].date)
  BY SummaryType
<1> HIDE DEF s
<1>4. /\ x \in Closing /\ x.step = "summed" /\ x.date = closer[c].date
      /\ x.summary = s /\ x.found = closer[c].found
  BY <1>2, <1>3 DEF Closing, AtWork
<1>5. closer' = [closer EXCEPT ![c] = x]
  BY DEF SumUp, s
<1> HIDE DEF x
<1>6. Knows(x)
  BY <1>1, <1>2, <1>3, <1>4 DEF Knows, Counts, AtWork
<1>7. QED
  BY <1>1, <1>4, <1>5, <1>6, CloserMoves DEF SumUp

\* A request that goes on within its transaction knows what it knew.
LEMMA StepInv ==
  ASSUME DayInv, NEW c \in Closer, NEW step \in {"inserted", "silent", "late"},
         closer' = [closer EXCEPT ![c].step = step],
         UNCHANGED <<hour, orders, closures, reportVars>>,
         closer[c].step \in {"summed", "inserted"},
         closures[closer[c].date] = Nothing,
         \A b \in Closer : HoldsDate(b, closer[c].date) => b = c
  PROVE  DayInv'
<1> DEFINE x == [closer[c] EXCEPT !.step = step]
<1>1. DayTypeOK /\ Knows(closer[c])
  BY DEF DayInv, FoundInv
<1>2. closer[c] \in Closing
  BY <1>1, ClosingTypes
<1>3. /\ x \in Closing /\ x.step = step /\ x.date = closer[c].date
      /\ x.summary = closer[c].summary /\ x.found = closer[c].found
  BY <1>2 DEF Closing, AtWork
<1>4. closer' = [closer EXCEPT ![c] = x]
  OBVIOUS
<1> HIDE DEF x
<1>5. Knows(x)
  BY <1>1, <1>3 DEF Knows, AtWork
<1>6. QED
  BY <1>3, <1>4, <1>5, CloserMoves

LEMMA InsertInv ==
  ASSUME DayInv, NEW c \in Closer, Insert(c)
  PROVE  DayInv'
  BY StepInv DEF Insert, MayInsert

LEMMA StaySilentInv ==
  ASSUME DayInv, NEW c \in Closer, StaySilent(c)
  PROVE  DayInv'
<1>1. closer[c].step = "inserted" /\ closer[c].date \in Date
  BY DEF StaySilent, DayInv, FoundInv, Knows, AtWork
<1>2. HoldsDate(c, closer[c].date)
  BY <1>1 DEF HoldsDate
<1>3. QED
  BY <1>1, <1>2, HoldersAtWork, StepInv DEF StaySilent

LEMMA RefuseInv ==
  ASSUME DayInv, NEW c \in Closer, Refuse(c)
  PROVE  DayInv'
  BY EndInv DEF Refuse

\* The merchant is told by the one request that holds the date, and nobody has
\* kept a message of it before.
LEMMA TellInv ==
  ASSUME DayInv, NEW c \in Closer, Tell(c)
  PROVE  DayInv'
<1> DEFINE x == [closer[c] EXCEPT !.step = "told"]
<1>1. /\ DayTypeOK /\ KeyInv /\ FoundInv /\ CountedInv /\ FoundAreCounted
      /\ MessageInv /\ ToldAsStored
  BY DEF DayInv
<1>2. /\ closer[c] \in Closing /\ Knows(closer[c]) /\ closer[c].step = "inserted"
      /\ closer[c].date \in Date /\ closer[c].summary \in Summaries
  BY <1>1, ClosingTypes DEF FoundInv, Knows, Tell, AtWork
<1>3. PICK d \in Date : d = closer[c].date /\ HoldsDate(c, d)
  BY <1>2 DEF HoldsDate
<1>4. /\ hour' = hour /\ orders' = orders /\ closures' = closures /\ unkept' = unkept
      /\ closer' = [closer EXCEPT ![c] = x]
      /\ messages' = [messages EXCEPT ![d] = messages[d] + 1]
      /\ told' = [told EXCEPT ![d] = closer[c].summary]
  BY <1>3 DEF Tell
<1>5. /\ x \in Closing /\ x.step = "told" /\ x.date = d
      /\ x.summary = closer[c].summary /\ x.found = closer[c].found
  BY <1>2, <1>3 DEF Closing, AtWork
<1>6. d = closer[c].date
  BY <1>3
<1> HIDE DEF x
<1>7. /\ closer' \in [Closer -> Closing]
      /\ \A b \in Closer : closer'[b] = IF b = c THEN x ELSE closer[b]
  BY <1>1, <1>4, <1>5 DEF DayTypeOK
<1>8. /\ messages' \in [Date -> Nat] /\ told' \in [Date -> Summaries \union {Nothing}]
      /\ messages'[d] = messages[d] + 1 /\ told'[d] = x.summary
      /\ \A e \in Date : e # d => messages'[e] = messages[e] /\ told'[e] = told[e]
  BY <1>1, <1>2, <1>4, <1>5 DEF DayTypeOK
<1>9. DayTypeOK'
  BY <1>1, <1>4, <1>7, <1>8 DEF DayTypeOK
<1>10. \A b \in Closer, e \in Date : HoldsDate(b, e)' <=> HoldsDate(b, e)
  BY <1>2, <1>5, <1>6, <1>7 DEF HoldsDate
<1>11. KeyInv'
  BY <1>1, <1>4, <1>10 DEF KeyInv
<1>12. FoundInv'
  <2> SUFFICES ASSUME NEW b \in Closer PROVE Knows(closer[b])'
    BY DEF FoundInv
  <2>1. Knows(x)
    BY <1>2, <1>5, <1>6 DEF Knows, AtWork
  <2>2. Knows(closer'[b])
    BY <1>1, <1>7, <2>1 DEF FoundInv
  <2>3. QED
    BY <1>4, <2>2 DEF Knows, Seen, WindowOf
<1>13. CountedInv' /\ FoundAreCounted'
  BY <1>1, <1>4 DEF CountedInv, FoundAreCounted, Seen, WindowOf
<1>14. closures[d] = Nothing /\ \A b \in Closer : HoldsDate(b, d) => b = c
  BY <1>2, <1>3, HoldersAtWork
<1>15. ToldAsStored'
  BY <1>1, <1>4, <1>8, <1>14 DEF ToldAsStored
<1>16. MessageInv'
  <2> SUFFICES ASSUME NEW e \in Date
               PROVE  /\ messages'[e] <= unkept'[e] + (IF Kept(e)' THEN 1 ELSE 0)
                      /\ told'[e] # Nothing /\ unkept'[e] = 0 => Kept(e)'
                      /\ \A b \in Closer :
                           HoldsDate(b, e)' /\ closer'[b].step = "told" /\ unkept'[e] = 0
                             => told'[e] = closer'[b].summary
    BY DEF MessageInv
  <2>1. CASE e = d
    <3>1. ~Kept(d)
      BY <1>2, <1>14 DEF Kept
    <3>2. messages[d] <= unkept[d] /\ messages[d] \in Nat /\ unkept[d] \in Nat
      BY <1>1, <1>2, <3>1 DEF MessageInv, DayTypeOK
    <3>3. Kept(d)'
      BY <1>2, <1>3, <1>5, <1>7, <1>10 DEF Kept
    <3>4. \A b \in Closer : HoldsDate(b, d)' => closer'[b] = x
      BY <1>7, <1>10, <1>14, <1>2
    <3>5. QED
      BY <1>4, <1>8, <2>1, <3>2, <3>3, <3>4
  <2>2. CASE e # d
    <3>1. ~HoldsDate(c, e)
      BY <1>6, <2>2 DEF HoldsDate
    <3>2. \A b \in Closer : HoldsDate(b, e)' => HoldsDate(b, e) /\ closer'[b] = closer[b]
      BY <1>7, <1>10, <3>1
    <3>3. Kept(e)' <=> Kept(e)
      BY <1>4, <1>7, <1>10, <3>1 DEF Kept
    <3>4. QED
      BY <1>1, <1>4, <1>8, <2>2, <3>2, <3>3 DEF MessageInv
  <2>3. QED
    BY <2>1, <2>2
<1>17. QED
  BY <1>9, <1>11, <1>12, <1>13, <1>15, <1>16 DEF DayInv

\* What a request that has told the merchant leaves behind when it is rolled
\* back is a message nobody keeps.
LEMMA FailClosingInv ==
  ASSUME DayInv, NEW c \in Closer, FailClosing(c)
  PROVE  DayInv'
<1> DEFINE x == Ended("idle")
<1>1. /\ DayTypeOK /\ KeyInv /\ FoundInv /\ CountedInv /\ FoundAreCounted
      /\ MessageInv /\ ToldAsStored
  BY DEF DayInv
<1>2. CASE closer[c].step # "told"
  <2>1. UNCHANGED <<hour, orders, closures, reportVars>>
    BY <1>2 DEF FailClosing, reportVars
  <2>2. CASE closer' = [closer EXCEPT ![c] = x]
    BY <1>2, <2>1, <2>2, EndInv
  <2>3. CASE closer[c].step = "inserted" /\ closer' = [closer EXCEPT ![c].step = "late"]
    <3>1. closer[c].date \in Date /\ HoldsDate(c, closer[c].date)
      BY <1>1, <2>3 DEF FoundInv, Knows, AtWork, HoldsDate
    <3>2. QED
      BY <2>1, <2>3, <3>1, HoldersAtWork, StepInv
  <2>4. QED
    BY <2>2, <2>3 DEF FailClosing
<1>3. CASE closer[c].step = "told"
  <2>1. PICK d \in Date : d = closer[c].date /\ HoldsDate(c, d)
    BY <1>1, <1>3 DEF FoundInv, Knows, AtWork, HoldsDate
  <2>2. /\ hour' = hour /\ orders' = orders /\ closures' = closures
        /\ messages' = messages /\ told' = told
        /\ closer' = [closer EXCEPT ![c] = x]
        /\ unkept' = [unkept EXCEPT ![d] = unkept[d] + 1]
    BY <1>3, <2>1 DEF FailClosing
  <2>3. x \in Closing /\ x.step \notin AtWork
    BY EndedType
  <2> HIDE DEF x
  <2>4. /\ closer' \in [Closer -> Closing]
        /\ \A b \in Closer : closer'[b] = IF b = c THEN x ELSE closer[b]
    BY <1>1, <2>2, <2>3 DEF DayTypeOK
  <2>5. /\ unkept' \in [Date -> Nat] /\ unkept'[d] = unkept[d] + 1
        /\ unkept[d] \in Nat
        /\ \A e \in Date : e # d => unkept'[e] = unkept[e]
    BY <1>1, <2>1, <2>2 DEF DayTypeOK
  <2>6. DayTypeOK'
    BY <1>1, <2>2, <2>4, <2>5 DEF DayTypeOK
  <2>7. \A b \in Closer, e \in Date :
          HoldsDate(b, e)' <=> HoldsDate(b, e) /\ b # c
    BY <2>3, <2>4 DEF HoldsDate, AtWork
  <2>8. KeyInv'
    BY <1>1, <2>2, <2>7 DEF KeyInv
  <2>9. FoundInv'
    <3> SUFFICES ASSUME NEW b \in Closer PROVE Knows(closer[b])'
      BY DEF FoundInv
    <3>1. Knows(closer'[b])
      BY <1>1, <2>3, <2>4 DEF FoundInv, Knows
    <3>2. QED
      BY <2>2, <3>1 DEF Knows, Seen, WindowOf
  <2>10. CountedInv' /\ FoundAreCounted'
    BY <1>1, <2>2 DEF CountedInv, FoundAreCounted, Seen, WindowOf
  <2>11. closures[d] = Nothing /\ \A b \in Closer : HoldsDate(b, d) => b = c
    BY <2>1, HoldersAtWork
  <2>12. ToldAsStored'
    BY <1>1, <2>2, <2>5, <2>11 DEF ToldAsStored
  <2>13. MessageInv'
    <3> SUFFICES ASSUME NEW e \in Date
                 PROVE  /\ messages'[e] <= unkept'[e] + (IF Kept(e)' THEN 1 ELSE 0)
                        /\ told'[e] # Nothing /\ unkept'[e] = 0 => Kept(e)'
                        /\ \A b \in Closer :
                             HoldsDate(b, e)' /\ closer'[b].step = "told" /\ unkept'[e] = 0
                               => told'[e] = closer'[b].summary
      BY DEF MessageInv
    <3>1. \A b \in Closer : HoldsDate(b, e)' => HoldsDate(b, e) /\ closer'[b] = closer[b]
      BY <2>4, <2>7
    <3>2. CASE e = d
      <4>1. messages[d] <= unkept[d] + 1 /\ messages[d] \in Nat /\ unkept[d] \in Nat
        BY <1>1, <2>1 DEF MessageInv, DayTypeOK
      <4>2. ~Kept(d)'
        BY <2>2, <2>7, <2>11 DEF Kept
      <4>3. \A b \in Closer : ~HoldsDate(b, d)'
        BY <2>1, <2>7, <2>11
      <4>4. QED
        BY <2>2, <2>5, <3>2, <4>1, <4>2, <4>3
    <3>3. CASE e # d
      <4>1. ~HoldsDate(c, e)
        BY <2>1, <3>3 DEF HoldsDate
      <4>2. Kept(e)' <=> Kept(e)
        BY <2>2, <2>4, <2>7, <4>1 DEF Kept
      <4>3. QED
        BY <1>1, <2>2, <2>5, <3>1, <3>3, <4>2 DEF MessageInv
    <3>4. QED
      BY <3>2, <3>3
  <2>14. QED
    BY <2>6, <2>8, <2>9, <2>10, <2>12, <2>13 DEF DayInv
<1>4. QED
  BY <1>2, <1>3

\* A message that comes after the rollback is one nobody keeps, and its request
\* holds no date.
LEMMA TellLateInv ==
  ASSUME DayInv, NEW c \in Closer, TellLate(c)
  PROVE  DayInv'
<1> DEFINE x == Ended("idle")
<1>1. /\ DayTypeOK /\ KeyInv /\ FoundInv /\ CountedInv /\ FoundAreCounted
      /\ MessageInv /\ ToldAsStored
  BY DEF DayInv
<1>2. PICK d \in Date : d = closer[c].date /\ closer[c].summary \in Summaries
  BY <1>1 DEF FoundInv, Knows, TellLate, AtWork
<1>3. /\ hour' = hour /\ orders' = orders /\ closures' = closures
      /\ closer' = [closer EXCEPT ![c] = x]
      /\ messages' = [messages EXCEPT ![d] = messages[d] + 1]
      /\ told' = [told EXCEPT ![d] = closer[c].summary]
      /\ unkept' = [unkept EXCEPT ![d] = unkept[d] + 1]
  BY <1>2 DEF TellLate
<1>4. x \in Closing /\ x.step \notin AtWork
  BY EndedType
<1> HIDE DEF x
<1>5. /\ closer' \in [Closer -> Closing]
      /\ \A b \in Closer : closer'[b] = IF b = c THEN x ELSE closer[b]
  BY <1>1, <1>3, <1>4 DEF DayTypeOK
<1>6. /\ messages' \in [Date -> Nat] /\ told' \in [Date -> Summaries \union {Nothing}]
      /\ unkept' \in [Date -> Nat]
      /\ messages'[d] = messages[d] + 1 /\ unkept'[d] = unkept[d] + 1
      /\ messages[d] \in Nat /\ unkept[d] \in Nat
      /\ \A e \in Date : e # d =>
           messages'[e] = messages[e] /\ told'[e] = told[e] /\ unkept'[e] = unkept[e]
  BY <1>1, <1>2, <1>3 DEF DayTypeOK
<1>7. DayTypeOK'
  BY <1>1, <1>3, <1>5, <1>6 DEF DayTypeOK
<1>8. \A b \in Closer, e \in Date :
        /\ HoldsDate(b, e)' <=> HoldsDate(b, e)
        /\ HoldsDate(b, e) => b # c
  BY <1>4, <1>5 DEF HoldsDate, AtWork, TellLate
<1>9. KeyInv'
  BY <1>1, <1>3, <1>8 DEF KeyInv
<1>10. FoundInv'
  <2> SUFFICES ASSUME NEW b \in Closer PROVE Knows(closer[b])'
    BY DEF FoundInv
  <2>1. Knows(closer'[b])
    BY <1>1, <1>4, <1>5 DEF FoundInv, Knows
  <2>2. QED
    BY <1>3, <2>1 DEF Knows, Seen, WindowOf
<1>11. CountedInv' /\ FoundAreCounted'
  BY <1>1, <1>3 DEF CountedInv, FoundAreCounted, Seen, WindowOf
<1>12. ToldAsStored'
  BY <1>1, <1>3, <1>6 DEF ToldAsStored
<1>13. MessageInv'
  <2> SUFFICES ASSUME NEW e \in Date
               PROVE  /\ messages'[e] <= unkept'[e] + (IF Kept(e)' THEN 1 ELSE 0)
                      /\ told'[e] # Nothing /\ unkept'[e] = 0 => Kept(e)'
                      /\ \A b \in Closer :
                           HoldsDate(b, e)' /\ closer'[b].step = "told" /\ unkept'[e] = 0
                             => told'[e] = closer'[b].summary
    BY DEF MessageInv
  <2>1. \A b \in Closer : HoldsDate(b, e)' => HoldsDate(b, e) /\ closer'[b] = closer[b]
    BY <1>5, <1>8
  <2>2. Kept(e)' <=> Kept(e)
    BY <1>3, <1>5, <1>8 DEF Kept
  <2>3. CASE e = d
    BY <1>1, <1>6, <2>2, <2>3 DEF MessageInv
  <2>4. CASE e # d
    BY <1>1, <1>6, <2>1, <2>2, <2>4 DEF MessageInv
  <2>5. QED
    BY <2>3, <2>4
<1>14. QED
  BY <1>7, <1>9, <1>10, <1>11, <1>12, <1>13 DEF DayInv

\* What is stored counts what the request found, and is what it told.
LEMMA CommitClosingInv ==
  ASSUME DayInv, NEW c \in Closer, CommitClosing(c)
  PROVE  DayInv'
<1> DEFINE x == Ended("idle")
           stored == [summary |-> closer[c].summary, found |-> closer[c].found]
<1>1. /\ DayTypeOK /\ KeyInv /\ FoundInv /\ CountedInv /\ FoundAreCounted
      /\ MessageInv /\ ToldAsStored
  BY DEF DayInv
<1>2. /\ closer[c].step \in {"told", "silent"}
      /\ closer[c].found \in SUBSET Order /\ Knows(closer[c])
  BY <1>1, ClosingTypes DEF FoundInv, CommitClosing
<1>3. PICK d \in Date :
        /\ HoldsDate(c, d) /\ d = closer[c].date
        /\ closer[c].summary \in Summaries
        /\ \A o \in closer[c].found :
             /\ Seen(o)
             /\ o \in DOMAIN closer[c].summary \/ WindowOf(orders[o].placed) # d
  BY <1>2 DEF Knows, AtWork, HoldsDate
<1>4. /\ hour' = hour /\ orders' = orders /\ messages' = messages
      /\ told' = told /\ unkept' = unkept
      /\ closer' = [closer EXCEPT ![c] = x]
      /\ closures' = [closures EXCEPT ![d] = stored]
  BY <1>3 DEF CommitClosing, Stored, reportVars
<1>5. /\ stored \in Closure /\ stored.summary = closer[c].summary
      /\ stored.found = closer[c].found
  BY <1>2, <1>3 DEF Closure
<1>6. x \in Closing /\ x.step \notin AtWork
  BY EndedType
<1> HIDE DEF x, stored
<1>7. /\ closer' \in [Closer -> Closing]
      /\ \A b \in Closer : closer'[b] = IF b = c THEN x ELSE closer[b]
  BY <1>1, <1>4, <1>6 DEF DayTypeOK
<1>8. /\ closures' \in [Date -> Closure \union {Nothing}]
      /\ closures'[d] = stored /\ stored # Nothing
      /\ \A e \in Date : e # d => closures'[e] = closures[e]
  BY <1>1, <1>3, <1>4, <1>5, DayConstants DEF DayTypeOK
<1>9. DayTypeOK'
  BY <1>1, <1>4, <1>7, <1>8 DEF DayTypeOK
<1>10. \A b \in Closer, e \in Date :
         HoldsDate(b, e)' <=> HoldsDate(b, e) /\ b # c
  BY <1>6, <1>7 DEF HoldsDate, AtWork
<1>11. closures[d] = Nothing /\ \A b \in Closer : HoldsDate(b, d) => b = c
  BY <1>3, HoldersAtWork
<1>12. KeyInv'
  <2> SUFFICES ASSUME NEW b \in Closer, NEW e \in Date, HoldsDate(b, e)'
               PROVE  closures'[e] = Nothing /\ \A a \in Closer : HoldsDate(a, e)' => a = b
    BY DEF KeyInv
  <2>1. HoldsDate(b, e) /\ b # c
    BY <1>10
  <2>2. e # d
    BY <1>11, <2>1
  <2>3. QED
    BY <1>1, <1>8, <1>10, <2>1, <2>2 DEF KeyInv
<1>13. FoundInv'
  <2> SUFFICES ASSUME NEW b \in Closer PROVE Knows(closer[b])'
    BY DEF FoundInv
  <2>1. Knows(closer'[b])
    BY <1>1, <1>6, <1>7 DEF FoundInv, Knows
  <2>2. QED
    BY <1>4, <2>1 DEF Knows, Seen, WindowOf
<1>14. CountedInv' /\ FoundAreCounted'
  <2> SUFFICES ASSUME NEW e \in Date, closures'[e] # Nothing,
                      NEW o \in closures'[e].found
               PROVE  /\ Seen(o)'
                      /\ \/ o \in DOMAIN closures'[e].summary
                         \/ WindowOf(orders'[o].placed) # e
    BY DEF CountedInv, FoundAreCounted, WindowOf
  <2>1. /\ Seen(o)
        /\ o \in DOMAIN closures'[e].summary \/ WindowOf(orders[o].placed) # e
    BY <1>1, <1>3, <1>5, <1>8 DEF CountedInv, FoundAreCounted
  <2>2. QED
    BY <1>4, <2>1 DEF Seen, WindowOf
<1>15. ToldAsStored'
  <2> SUFFICES ASSUME NEW e \in Date, unkept'[e] = 0, told'[e] # Nothing,
                      closures'[e] # Nothing
               PROVE  told'[e] = closures'[e].summary
    BY DEF ToldAsStored
  <2>1. CASE e # d
    BY <1>1, <1>4, <1>8, <2>1 DEF ToldAsStored
  <2>2. CASE e = d
    <3>1. Kept(d)
      BY <1>1, <1>4, <2>2 DEF MessageInv
    <3>2. closer[c].step = "told"
      BY <1>11, <3>1 DEF Kept
    <3>3. told[d] = closer[c].summary
      BY <1>1, <1>3, <1>4, <2>2, <3>2 DEF MessageInv
    <3>4. QED
      BY <1>4, <1>5, <1>8, <2>2, <3>3
  <2>3. QED
    BY <2>1, <2>2
<1>16. MessageInv'
  <2> SUFFICES ASSUME NEW e \in Date
               PROVE  /\ messages'[e] <= unkept'[e] + (IF Kept(e)' THEN 1 ELSE 0)
                      /\ told'[e] # Nothing /\ unkept'[e] = 0 => Kept(e)'
                      /\ \A b \in Closer :
                           HoldsDate(b, e)' /\ closer'[b].step = "told" /\ unkept'[e] = 0
                             => told'[e] = closer'[b].summary
    BY DEF MessageInv
  <2>1. \A b \in Closer : HoldsDate(b, e)' => HoldsDate(b, e) /\ closer'[b] = closer[b]
    BY <1>7, <1>10
  <2>2. CASE e = d
    <3>1. messages[d] <= unkept[d] + 1 /\ messages[d] \in Nat /\ unkept[d] \in Nat
      BY <1>1, <1>3 DEF MessageInv, DayTypeOK
    <3>2. Kept(d)'
      BY <1>8 DEF Kept
    <3>3. \A b \in Closer : ~HoldsDate(b, d)'
      BY <1>10, <1>11
    <3>4. QED
      BY <1>4, <2>2, <3>1, <3>2, <3>3
  <2>3. CASE e # d
    <3>1. ~HoldsDate(c, e)
      BY <1>3, <2>3 DEF HoldsDate
    <3>2. Kept(e)' <=> Kept(e)
      BY <1>7, <1>8, <1>10, <2>3, <3>1 DEF Kept
    <3>3. QED
      BY <1>1, <1>4, <2>1, <2>3, <3>2 DEF MessageInv
  <2>4. QED
    BY <2>2, <2>3
<1>17. QED
  BY <1>9, <1>12, <1>13, <1>14, <1>15, <1>16 DEF DayInv

LEMMA DayStepInv ==
  ASSUME DayInv, [DayNext]_dayVars
  PROVE  DayInv'
<1>1. CASE HourPasses
  BY <1>1, HourPassesInv
<1>2. ASSUME NEW o \in Order, Live(o) PROVE DayInv'
  BY <1>2, LiveInv
<1>3. ASSUME NEW c \in Closer, Close(c) PROVE DayInv'
  <2>1. CASE Look(c) \/ SumUp(c)
    BY <2>1, LookInv, SumUpInv
  <2>2. CASE Insert(c) \/ Refuse(c)
    BY <2>2, InsertInv, RefuseInv
  <2>3. CASE Tell(c) \/ StaySilent(c)
    BY <2>3, TellInv, StaySilentInv
  <2>4. CASE CommitClosing(c) \/ FailClosing(c)
    BY <2>4, CommitClosingInv, FailClosingInv
  <2>5. CASE TellLate(c)
    BY <2>5, TellLateInv
  <2>6. QED
    BY <1>3, <2>1, <2>2, <2>3, <2>4, <2>5 DEF Close
<1>4. CASE UNCHANGED dayVars
  <2>1. UNCHANGED <<hour, orders, closures, closer, reportVars>>
    BY <1>4 DEF dayVars, reportVars
  <2>2. DayTypeOK' /\ OrdersStay
    BY <1>4 DEF dayVars, DayInv, DayTypeOK, OrdersStay, Seen
  <2>3. QED
    BY <2>1, <2>2, OrdersMove
<1>5. QED
  BY <1>1, <1>2, <1>3, <1>4 DEF DayNext

-----------------------------------------------------------------------------
(* The closing of the day: what is stored and told                         *)

\* A date is inserted by one request at a time, a closing knows the orders it
\* found, and a message is kept, about to be kept, or counted as unkept, for
\* any number of requests, orders, days and hours.
THEOREM DayInvariant == DaySpec => []DayInv
  BY DayInitInv, DayStepInv, PTL DEF DaySpec

\* Every value a variable of the closing takes is one it is declared for.
LEMMA DayTypeCorrect == DaySpec => []DayTypeOK
<1>1. DayInv => DayTypeOK
  BY DEF DayInv
<1>2. QED
  BY <1>1, DayInvariant, PTL

\* However many requests close a day at once, the merchant is told of it once,
\* and once more for each closing that was rolled back after it had told.
THEOREM MessagesKept == DaySpec => []MessagesAreKept
<1>1. DayInv => MessagesAreKept
  <2> SUFFICES ASSUME DayInv, NEW d \in Date PROVE messages[d] <= 1 + unkept[d]
    BY DEF MessagesAreKept
  <2>1. messages[d] \in Nat /\ unkept[d] \in Nat
    BY DEF DayInv, DayTypeOK
  <2>2. messages[d] <= unkept[d] + (IF Kept(d) THEN 1 ELSE 0)
    BY DEF DayInv, MessageInv
  <2>3. QED
    BY <2>1, <2>2
<1>2. QED
  BY <1>1, DayInvariant, PTL

\* What the merchant was told of a day is what is stored of it, whatever orders
\* have done since they were added up, unless a closing that had told was
\* rolled back.
THEOREM ToldIsStored == DaySpec => []ToldAsStored
<1>1. DayInv => ToldAsStored
  BY DEF DayInv
<1>2. QED
  BY <1>1, DayInvariant, PTL

\* Every order of the day that was there when its closure was asked for is
\* counted by it, but for those of an hour that is on another day in +02:00.
THEOREM FoundIsCounted == DaySpec => []FoundAreCounted
<1>1. DayInv => FoundAreCounted
  BY DEF DayInv
<1>2. QED
  BY <1>1, DayInvariant, PTL
=============================================================================

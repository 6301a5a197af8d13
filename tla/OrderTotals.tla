----------------------------- MODULE OrderTotals -----------------------------
(***************************************************************************)
(* The amounts of one order while its items are priced, run out of stock   *)
(* and its delivery fee is set, by requests that overlap.                  *)
(*                                                                         *)
(* A request is a transaction at READ COMMITTED: it checks the order it    *)
(* reads, writes its item or the fee, which locks that row until it ends,  *)
(* reads the order, adds up the lines of its items and then writes the     *)
(* total, waiting for the row of the order.  It sees what is committed and *)
(* its own writes.                                                         *)
(*                                                                         *)
(* A total is kept as its summands, so that two totals are equal only if   *)
(* they add up the same.  Left out: rounding, unit prices, the price       *)
(* history and availability of products, the quoted bounds of the fee, and *)
(* what follows from a cancellation, as in OrderLifecycle.                 *)
(***************************************************************************)
EXTENDS Integers

CONSTANTS
  Call,     \* requests
  Item,     \* of the order
  Price,    \* a line may be given
  Fee,      \* a delivery may be given
  None,     \* no price, item or total
  ByHand,   \* a total the merchant has set
  MaxRaces  \* bound on commits that rest on a stale read

ASSUME ConstantsAssumption ==
  /\ Price \subseteq Nat \ {0}
  /\ Fee \subseteq Nat
  /\ None \notin Nat \union Item
  /\ ByHand # None
  /\ MaxRaces \in Nat

VARIABLES
  open,      \* orders.status is draft or confirmed
  price,     \* order_items.total_price
  out,       \* order_items.is_out_of_stock
  fee,       \* orders.delivery_fee
  feeSet,    \* orders.delivery_fee_status is not pending
  subtotal,  \* orders.subtotal
  total,     \* orders.total
  mode,      \* orders.pricing_mode
  request,   \* calls: what each is doing
  races      \* history: commits that rest on a stale read

amounts == <<price, out, fee, subtotal, total>>
order   == <<open, price, out, fee, feeSet, subtotal, total, mode>>
vars    == <<open, price, out, fee, feeSet, subtotal, total, mode, request,
             races>>

Amount == Price \union Fee \union {0, None}
Line   == UNION {[S -> Amount \ {None}] : S \in SUBSET Item}

Idle == [kind |-> "idle", step |-> "none", item |-> None, amount |-> None,
         last |-> FALSE, fee |-> 0, lines |-> <<>>]

\* "last": no other item could be delivered; "fee" and "lines" are what the
\* request adds up.
Request == [kind   : {"reprice", "out", "fee"},
            step   : {"checked", "written", "summed"},
            item   : Item \union {None},
            amount : Amount,
            last   : BOOLEAN,
            fee    : Fee \union {0},
            lines  : Line \union {<<>>}]

-----------------------------------------------------------------------------
(* recalculateOrderTotals                                                  *)

Lines(p, o) == [i \in {j \in Item \ o : p[j] # None} |-> p[i]]

Sum(lines) == IF DOMAIN lines = {} THEN None ELSE lines

TotalWithFee(lines, f) ==
  IF DOMAIN lines = {} /\ f = 0 THEN None ELSE [lines |-> lines, fee |-> f]

Owed == TotalWithFee(Lines(price, out), fee)

TypeOK ==
  /\ open \in BOOLEAN
  /\ price \in [Item -> Amount]
  /\ out \subseteq Item
  /\ fee \in Fee \union {0}
  /\ feeSet \in BOOLEAN
  /\ subtotal \in Line \union {None}
  /\ total \in [lines : Line, fee : Fee \union {0}] \union {None, ByHand}
  /\ mode \in {"auto", "manual"}
  /\ request \in [Call -> Request \union {Idle}]
  /\ races \in Nat

\* An order as create leaves it.
Init ==
  /\ open = TRUE
  /\ price \in [Item -> Price \union {0, None}]
  /\ out = {}
  /\ fee \in Fee \union {0}
  /\ feeSet \in BOOLEAN
  /\ ~feeSet => fee = 0
  /\ subtotal = Sum(Lines(price, out))
  /\ total \in {Owed, ByHand}
  /\ mode = IF total = ByHand \/ subtotal = None THEN "manual" ELSE "auto"
  /\ request = [c \in Call |-> Idle]
  /\ races = 0

-----------------------------------------------------------------------------
(* Reads and checks                                                        *)

\* A draft or confirmed order may still change.
MayChange == open

Begin(c, kind, item, amount, last) ==
  /\ request[c] = Idle
  /\ MayChange
  /\ request' = [request EXCEPT ![c] =
                   [kind |-> kind, step |-> "checked", item |-> item,
                    amount |-> amount, last |-> last, fee |-> 0,
                    lines |-> <<>>]]
  /\ UNCHANGED <<order, races>>

BeginReprice(c, i, p) == Begin(c, "reprice", i, p, FALSE)

\* The item is the only one that is not out of stock.
IsLastIfNoneLeft(i) == Item \ out = {}
IsLast(i)           == Item \ out = {i}

BeginOutOfStock(c, i) == Begin(c, "out", i, 0, IsLast(i))

BeginSetFee(c, f) == ~feeSet /\ Begin(c, "fee", None, f, FALSE)

-----------------------------------------------------------------------------
(* Rows and locks                                                          *)

Holds(c, i) == request[c].step \in {"written", "summed"} /\ request[c].item = i

\* The fee is written to the row of the order, before the lines are read.
OrderIsFree(c) == \A b \in Call \ {c} : ~Holds(b, None)

\* What a request sees of the items: what is committed and its own item.
PriceSeen(c) ==
  LET q == request[c]
  IN  [i \in Item |-> IF i = q.item THEN q.amount ELSE price[i]]
OutSeen(c) ==
  IF request[c].kind = "out" THEN out \union {request[c].item} ELSE out

\* The item's update and the read of the order, or the fee's.
Write(c) ==
  LET q == request[c]
  IN  /\ q.step = "checked"
      /\ \/ q.kind # "fee" /\ \A b \in Call : ~Holds(b, q.item)
         \/ q.kind = "fee" /\ OrderIsFree(c)
      /\ request' = [request EXCEPT ![c].step = "written",
                       ![c].fee = IF q.kind = "fee" THEN q.amount ELSE fee]
      /\ UNCHANGED <<order, races>>

LinesCommitted(c) == Lines(price, out)
LinesSeen(c)      == Lines(PriceSeen(c), OutSeen(c))

AddUp(c) ==
  /\ request[c].step = "written"
  /\ request' = [request EXCEPT ![c].step = "summed",
                                ![c].lines = LinesSeen(c)]
  /\ UNCHANGED <<order, races>>

\* What was read is not what the commit finds.
Stale(c) ==
  LET q == request[c]
  IN  \/ ~MayChange
      \/ q.kind = "fee" /\ feeSet
      \/ q.kind = "out" /\ q.last # IsLast(q.item)
      \/ q.kind # "fee" /\ (q.fee # fee \/ q.lines # LinesSeen(c))

CountRace(stale) ==
  IF stale THEN races < MaxRaces /\ races' = races + 1 ELSE UNCHANGED races

\* Setting the fee leaves the pricing mode alone.
ModeKept(kind)  == mode
ModeAfter(kind) == IF kind = "fee" THEN mode ELSE "manual"

\* The order's update, a cancellation with its last item, and the commit.
Commit(c) ==
  LET q == request[c]
  IN  /\ q.step = "summed"
      /\ OrderIsFree(c)
      /\ price' = PriceSeen(c)
      /\ out' = OutSeen(c)
      /\ IF q.kind = "fee" THEN fee' = q.amount /\ feeSet' = TRUE
                           ELSE UNCHANGED <<fee, feeSet>>
      /\ subtotal' = Sum(q.lines)
      /\ total' = TotalWithFee(q.lines, q.fee)
      /\ mode' = ModeAfter(q.kind)
      /\ open' = (open /\ ~q.last)
      /\ request' = [request EXCEPT ![c] = Idle]
      /\ CountRace(Stale(c))

\* update: the total by hand, a status, or both; a status decided on before
\* another was written may open the order again.
Update(byHand, status) ==
  /\ \A c \in Call : ~Holds(c, None)
  /\ open' = status
  /\ IF byHand THEN total' = ByHand /\ mode' = "manual"
               ELSE UNCHANGED <<total, mode>>
  /\ CountRace(status /\ ~open)
  /\ UNCHANGED <<price, out, fee, feeSet, subtotal, request>>

RollBack(c) ==
  /\ request[c] # Idle
  /\ request' = [request EXCEPT ![c] = Idle]
  /\ UNCHANGED <<order, races>>

-----------------------------------------------------------------------------

BeginCall(c) ==
  \/ \E i \in Item, p \in Price : BeginReprice(c, i, p)
  \/ \E i \in Item : BeginOutOfStock(c, i)
  \/ \E f \in Fee : BeginSetFee(c, f)

Next ==
  \/ \E c \in Call :
       BeginCall(c) \/ Write(c) \/ AddUp(c) \/ Commit(c) \/ RollBack(c)
  \/ \E byHand, status \in BOOLEAN : Update(byHand, status)

Spec == Init /\ [][Next]_vars

-----------------------------------------------------------------------------
(* Properties                                                              *)

\* An order whose pricing is automatic asks for what its items and its fee
\* add up to, however many commits were overtaken.
AutoIsTheSum == mode = "auto" => total = Owed

\* A change of a price, the stock or the fee that is not overtaken leaves the
\* right total behind, whatever earlier commits have made of it.
TotalFollows ==
  [][races' = races /\ <<price, out, fee>>' # <<price, out, fee>> =>
       total' = Owed']_vars

\* Amounts settle: the fee once it is set, all but a total set by hand once
\* the order is no longer open.  Only a commit that is overtaken moves them.
AmountsSettle ==
  [][races' = races =>
       /\ feeSet => fee' = fee
       /\ ~open => \/ amounts' = amounts
                   \/ total' = ByHand /\ <<price, out, fee>>' = <<price, out, fee>>]_vars

\* Until a commit rests on a stale read, the total follows every change.
Contract == INSTANCE TotalsContract WITH excused <- (races > 0)
ImplementsContract == Contract!Spec

-----------------------------------------------------------------------------
(* The inductive invariant                                                 *)

\* A row is held by one request.
LockInv ==
  \A b, c \in Call : \A i \in Item \union {None} :
    Holds(b, i) /\ Holds(c, i) => b = c

\* The fee is set on the row of the order, and all else on an item's.
RequestInv ==
  \A c \in Call :
    LET q == request[c]
    IN  q # Idle =>
          /\ q.kind = "reprice" => q.item \in Item /\ q.amount \in Price
          /\ q.kind = "out" => q.item \in Item /\ q.amount = 0
          /\ q.kind = "fee" => q.item = None /\ q.amount \in Fee
          /\ q.kind # "out" => ~q.last

\* While a request holds the row of the order, nothing it has added up
\* changes.
FeeInv ==
  \A c \in Call : Holds(c, None) =>
    /\ request[c].fee = request[c].amount
    /\ request[c].step = "summed" => request[c].lines = Lines(price, out)

IInv ==
  /\ TypeOK
  /\ LockInv
  /\ RequestInv
  /\ FeeInv
  /\ AutoIsTheSum
=============================================================================

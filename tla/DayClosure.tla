------------------------------ MODULE DayClosure ------------------------------
(***************************************************************************)
(* The closing of a store's day by requests that overlap, while its orders *)
(* are placed and go on changing.                                          *)
(*                                                                         *)
(* A closing is one transaction at READ COMMITTED: it looks for the day's  *)
(* closure, adds up the orders of the day, inserts what it found, tells    *)
(* the merchant and commits.  The unique key on the date makes an insert   *)
(* wait for another's that has not ended.  The date is Cairo's; the day    *)
(* whose orders are added up starts and ends at midnight of +02:00, and    *)
(* Cairo is ahead of that in summer.                                       *)
(*                                                                         *)
(* A summary is kept as the orders it adds up with their status.  Left     *)
(* out: amounts, what the merchant is shown before, and closures of other  *)
(* stores.                                                                 *)
(***************************************************************************)
EXTENDS Integers

CONSTANTS
  Closer,     \* requests that close the day
  Order,      \* orders of the store
  Nothing,    \* no closure, no message
  DayLength,  \* hours of a day
  Ahead,      \* hours by which Cairo is ahead of +02:00
  MaxHour,    \* bound on the clock
  MaxUnkept   \* bound on messages of closings that fail

Happening == {"open", "completed", "cancelled"}

\* What a request adds up, and what the table keeps of it.
Summaries == UNION {[S -> Happening] : S \in SUBSET Order}
Closure   == [summary : Summaries, found : SUBSET Order]

ASSUME DayAssumption ==
  /\ DayLength \in Nat \ {0}
  /\ Ahead \in Nat
  /\ MaxHour \in Nat
  /\ MaxUnkept \in Nat
  /\ Nothing \notin Summaries \union Closure

VARIABLES
  hour,      \* the time
  orders,    \* created_at and status of each order
  closures,  \* the closure of each date, and the orders it was asked for
  closer,    \* requests: what each is doing
  messages,  \* history: how often the merchant was told of each date
  told,      \* history: what the merchant was told last
  unkept     \* history: messages whose closing was rolled back

dayVars    == <<hour, orders, closures, closer, messages, told, unkept>>
reportVars == <<messages, told, unkept>>

Hour == 0 .. MaxHour

\* getCairoDateKey, and the day an instant belongs to in +02:00.
DateOf(h)   == h \div DayLength
WindowOf(h) == (h - Ahead) \div DayLength
Date        == {DateOf(h) : h \in Hour}

AtWork == {"looked", "summed", "inserted", "told", "silent", "late"}

\* A request that has not begun or has ended: answered, given up or "refused".
Ended(how) == [step |-> how, date |-> 0, summary |-> Nothing, found |-> {}]

Placed  == [placed : Hour, status : Happening \union {"none", "placing"}]
Closing == [step : AtWork \union {"idle", "refused"}, date : Date \union {0},
            summary : Summaries \union {Nothing}, found : SUBSET Order]

DayTypeOK ==
  /\ hour \in Hour
  /\ orders \in [Order -> Placed]
  /\ closures \in [Date -> Closure \union {Nothing}]
  /\ closer \in [Closer -> Closing]
  /\ messages \in [Date -> Nat]
  /\ told \in [Date -> Summaries \union {Nothing}]
  /\ unkept \in [Date -> Nat]

DayInit ==
  /\ hour = 0
  /\ orders = [o \in Order |-> [placed |-> 0, status |-> "none"]]
  /\ closures = [d \in Date |-> Nothing]
  /\ closer = [c \in Closer |-> Ended("idle")]
  /\ messages = [d \in Date |-> 0]
  /\ told = [d \in Date |-> Nothing]
  /\ unkept = [d \in Date |-> 0]

-----------------------------------------------------------------------------
(* Orders                                                                  *)

HourPasses ==
  /\ hour < MaxHour
  /\ hour' = hour + 1
  /\ UNCHANGED <<orders, closures, closer, reportVars>>

\* An order has its created_at before others see it, or is given up.
Place(o) ==
  /\ orders[o].status = "none"
  /\ orders' = [orders EXCEPT ![o] = [placed |-> hour, status |-> "placing"]]
  /\ UNCHANGED <<hour, closures, closer, reportVars>>

EndPlacing(o, status) ==
  /\ orders[o].status = "placing"
  /\ orders' = [orders EXCEPT ![o].status = status]
  /\ UNCHANGED <<hour, closures, closer, reportVars>>

\* Where overlapping changes of an order may take it, OrderLifecycle says.
Move(o, status) ==
  /\ orders[o].status \in Happening
  /\ orders' = [orders EXCEPT ![o].status = status]
  /\ UNCHANGED <<hour, closures, closer, reportVars>>

-----------------------------------------------------------------------------
(* Closings                                                                *)

Seen(o) == orders[o].status \in Happening

\* computeDayCloseSummary: the orders it counts, and what it knows of them.
CountsIfCompleted(o, d) ==
  WindowOf(orders[o].placed) = d /\ orders[o].status = "completed"
Counts(o, d) == WindowOf(orders[o].placed) = d /\ Seen(o)
Summary(d)   == [o \in {p \in Order : Counts(p, d)} |-> orders[o].status]

\* The orders of the date that are there for a request that begins.
Found(d) == {o \in Order : DateOf(orders[o].placed) = d /\ Seen(o)}

Look(c) ==
  LET d == DateOf(hour)
  IN  /\ closer[c].step \notin AtWork
      /\ closer' = [closer EXCEPT ![c] =
                      IF closures[d] # Nothing THEN Ended("idle")
                      ELSE [step |-> "looked", date |-> d, summary |-> Nothing,
                            found |-> Found(d)]]
      /\ UNCHANGED <<hour, orders, closures, reportVars>>

SumUp(c) ==
  /\ closer[c].step = "looked"
  /\ closer' = [closer EXCEPT ![c].step = "summed",
                              ![c].summary = Summary(closer[c].date)]
  /\ UNCHANGED <<hour, orders, closures, reportVars>>

HoldsDate(c, d) ==
  closer[c].step \in {"inserted", "told", "silent"} /\ closer[c].date = d

\* The insert of a date waits for one that has not ended.
MayInsertWithoutKey(d) == TRUE
MayInsert(d)           == \A c \in Closer : ~HoldsDate(c, d)

Insert(c) ==
  /\ closer[c].step = "summed"
  /\ MayInsert(closer[c].date)
  /\ closures[closer[c].date] = Nothing
  /\ closer' = [closer EXCEPT ![c].step = "inserted"]
  /\ UNCHANGED <<hour, orders, closures, reportVars>>

\* The date has been closed since: isUniqueViolation waits for a code of
\* PostgreSQL where Prisma gives its own, and the error ends the request.
Refuse(c) ==
  /\ closer[c].step = "summed"
  /\ MayInsert(closer[c].date)
  /\ closures[closer[c].date] # Nothing
  /\ closer' = [closer EXCEPT ![c] = Ended("refused")]
  /\ UNCHANGED <<hour, orders, closures, reportVars>>

\* notifyMerchantDailySummary, before the commit.
Tell(c) ==
  LET d == closer[c].date
  IN  /\ closer[c].step = "inserted"
      /\ messages' = [messages EXCEPT ![d] = @ + 1]
      /\ told' = [told EXCEPT ![d] = closer[c].summary]
      /\ closer' = [closer EXCEPT ![c].step = "told"]
      /\ UNCHANGED <<hour, orders, closures, unkept>>

\* The merchant has no phone, or the message fails, which is only logged.
StaySilent(c) ==
  /\ closer[c].step = "inserted"
  /\ closer' = [closer EXCEPT ![c].step = "silent"]
  /\ UNCHANGED <<hour, orders, closures, reportVars>>

StoredAfresh(c) == Summary(closer[c].date)
Stored(c)       == closer[c].summary

CommitClosing(c) ==
  /\ closer[c].step \in {"told", "silent"}
  /\ closures' = [closures EXCEPT ![closer[c].date] =
                    [summary |-> Stored(c), found |-> closer[c].found]]
  /\ closer' = [closer EXCEPT ![c] = Ended("idle")]
  /\ UNCHANGED <<hour, orders, reportVars>>

\* The transaction takes too long or its process dies; the handler of one that
\* takes too long runs on with the insert rolled back.
FailClosing(c) ==
  LET d == closer[c].date
  IN  /\ closer[c].step \in AtWork
      /\ IF closer[c].step = "told"
         THEN unkept[d] < MaxUnkept /\ unkept' = [unkept EXCEPT ![d] = @ + 1]
         ELSE UNCHANGED unkept
      /\ \/ closer' = [closer EXCEPT ![c] = Ended("idle")]
         \/ /\ closer[c].step = "inserted"
            /\ closer' = [closer EXCEPT ![c].step = "late"]
      /\ UNCHANGED <<hour, orders, closures, messages, told>>

TellLate(c) ==
  LET d == closer[c].date
  IN  /\ closer[c].step = "late"
      /\ unkept[d] < MaxUnkept
      /\ messages' = [messages EXCEPT ![d] = @ + 1]
      /\ told' = [told EXCEPT ![d] = closer[c].summary]
      /\ unkept' = [unkept EXCEPT ![d] = @ + 1]
      /\ closer' = [closer EXCEPT ![c] = Ended("idle")]
      /\ UNCHANGED <<hour, orders, closures>>

-----------------------------------------------------------------------------

Live(o) ==
  \/ Place(o)
  \/ \E status \in {"open", "none"} : EndPlacing(o, status)
  \/ \E status \in Happening : Move(o, status)

Close(c) ==
  \/ Look(c)
  \/ SumUp(c)
  \/ Insert(c)
  \/ Refuse(c)
  \/ Tell(c)
  \/ StaySilent(c)
  \/ CommitClosing(c)
  \/ FailClosing(c)
  \/ TellLate(c)

DayNext ==
  \/ HourPasses
  \/ \E o \in Order : Live(o)
  \/ \E c \in Closer : Close(c)

DaySpec == DayInit /\ [][DayNext]_dayVars

-----------------------------------------------------------------------------
(* Properties                                                              *)

\* The merchant is told of a day once, and once more for each closing that
\* told and was rolled back, before or after.
MessagesAreKept == \A d \in Date : messages[d] <= 1 + unkept[d]

\* Unless such a closing was rolled back, what the merchant was told of a day
\* is what is stored, though orders have changed in between.
ToldAsStored ==
  \A d \in Date :
    unkept[d] = 0 /\ told[d] # Nothing /\ closures[d] # Nothing
      => told[d] = closures[d].summary

\* A closure counts every order of its day that was there when it was asked
\* for, but for those of an hour that is on another day in +02:00.
FoundAreCounted ==
  \A d \in Date : closures[d] # Nothing =>
    \A o \in closures[d].found :
      o \in DOMAIN closures[d].summary \/ WindowOf(orders[o].placed) # d

\* "Closes current Cairo day for tenant with idempotent behavior": no closing
\* is refused because another came first.
ClosingIsIdempotent == \A c \in Closer : closer[c].step # "refused"

-----------------------------------------------------------------------------
(* The inductive invariant                                                 *)

\* A date is inserted by one request, and by none once it is closed.
KeyInv ==
  \A c \in Closer : \A d \in Date : HoldsDate(c, d) =>
    closures[d] = Nothing /\ \A b \in Closer : HoldsDate(b, d) => b = c

\* What a closing at work knows of the orders it has found or added up.
Knows(x) == x.step \in AtWork =>
  /\ x.date \in Date
  /\ \A o \in x.found :
       /\ Seen(o)
       /\ x.step # "looked" => \/ o \in DOMAIN x.summary
                              \/ WindowOf(orders[o].placed) # x.date
  /\ x.step # "looked" => x.summary \in Summaries

FoundInv == \A c \in Closer : Knows(closer[c])

CountedInv ==
  \A d \in Date : closures[d] # Nothing => \A o \in closures[d].found : Seen(o)

\* A message is kept, about to be kept, or counted as unkept.
Kept(d) ==
  closures[d] # Nothing \/ \E c \in Closer : HoldsDate(c, d) /\ closer[c].step = "told"

MessageInv ==
  \A d \in Date :
    /\ messages[d] <= unkept[d] + (IF Kept(d) THEN 1 ELSE 0)
    /\ told[d] # Nothing /\ unkept[d] = 0 => Kept(d)
    /\ \A c \in Closer :
         HoldsDate(c, d) /\ closer[c].step = "told" /\ unkept[d] = 0
           => told[d] = closer[c].summary

DayInv ==
  /\ DayTypeOK
  /\ KeyInv
  /\ FoundInv
  /\ CountedInv
  /\ FoundAreCounted
  /\ MessageInv
  /\ ToldAsStored
=============================================================================

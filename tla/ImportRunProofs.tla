--------------------------- MODULE ImportRunProofs ---------------------------
(***************************************************************************)
(* Proofs about imports for any number of runs, processes, products and    *)
(* files: the invariants TLC checks on small instances, that copies come   *)
(* from stale reads and erased external ids, that items leave the catalog  *)
(* to a replacement alone, and that imports implement CatalogContract.     *)
(***************************************************************************)
EXTENDS ImportRun, FiniteSetTheorems, TLAPS

RowState == Success \union InFlight \union {"failed"}

LEMMA States ==
  /\ Success = {"skipped", "created", "updated"}
  /\ InFlight = {"look_up", "create", "update"}
  /\ RowState = {"skipped", "created", "updated", "look_up", "create", "update", "failed"}
  BY DEF Success, InFlight, RowState

LEMMA TypeFacts ==
  ASSUME TypeOK
  PROVE  /\ mode \in [Run -> Mode]
         /\ file \in [Run -> Seq(Row)]
         /\ status \in [Run -> Status]
         /\ home \in [Run -> Process \union {None}]
         /\ step \in [Run -> {"idle", "read", "batch", "replaced", "ended"}]
         /\ rows \in [Run -> Seq(RowState)]
         /\ found \in [Run -> Seq(Nat)]
         /\ cancelled \in [Process -> SUBSET Run]
         /\ items \in Seq(Item)
         /\ born \in Seq(Key \union {None})
         /\ races \in Nat
  BY DEF TypeOK, RowState

LEMMA RowsOf ==
  ASSUME TypeOK, NEW r \in Run
  PROVE  /\ rows[r] \in Seq(RowState) /\ Len(rows[r]) \in Nat
         /\ DOMAIN rows[r] = 1 .. Len(rows[r])
         /\ \A i \in DOMAIN rows[r] : rows[r][i] \in RowState
         /\ file[r] \in Seq(Row) /\ Len(file[r]) \in Nat
         /\ DOMAIN file[r] = 1 .. Len(file[r])
         /\ \A i \in DOMAIN file[r] : file[r][i] \in Row
<1>1. rows[r] \in Seq(RowState) /\ file[r] \in Seq(Row)
  BY TypeFacts
<1>2. QED
  BY <1>1

LEMMA ItemsOf ==
  ASSUME TypeOK
  PROVE  /\ Len(items) \in Nat /\ DOMAIN items = 1 .. Len(items)
         /\ \A x \in DOMAIN items : items[x] \in Item
         /\ Len(born) \in Nat /\ DOMAIN born = 1 .. Len(born)
         /\ \A x \in DOMAIN born : born[x] \in Key \union {None}
<1>1. items \in Seq(Item) /\ born \in Seq(Key \union {None})
  BY TypeFacts
<1>2. QED
  BY <1>1

\* One element of a sequence changes.
LEMMA ElementChange ==
  ASSUME NEW S, NEW s \in Seq(S), NEW i, NEW v \in S
  PROVE  /\ [s EXCEPT ![i] = v] \in Seq(S)
         /\ DOMAIN [s EXCEPT ![i] = v] = DOMAIN s
         /\ \A j \in DOMAIN s : [s EXCEPT ![i] = v][j] = IF j = i THEN v ELSE s[j]
<1> DEFINE t == [s EXCEPT ![i] = v]
<1>1. Len(s) \in Nat /\ DOMAIN s = 1 .. Len(s) /\ \A j \in 1 .. Len(s) : s[j] \in S
  OBVIOUS
<1>2. /\ DOMAIN t = 1 .. Len(s) /\ t = [j \in 1 .. Len(s) |-> t[j]]
      /\ \A j \in DOMAIN s : t[j] = IF j = i THEN v ELSE s[j]
  BY <1>1
<1>3. \A j \in 1 .. Len(s) : t[j] \in S
  BY <1>1, <1>2
<1> HIDE DEF t
<1>4. t \in Seq(S)
  BY <1>1, <1>2, <1>3
<1>5. QED
  BY <1>1, <1>2, <1>4 DEF t

\* One row changes.
LEMMA RowChange ==
  ASSUME TypeOK, NEW r \in Run, NEW i \in DOMAIN rows[r], NEW o \in RowState,
         NEW x, RowBecomes(r, i, o, x)
  PROVE  /\ rows' \in [Run -> Seq(RowState)]
         /\ \A q \in Run : /\ Len(rows'[q]) = Len(rows[q])
                           /\ DOMAIN rows'[q] = DOMAIN rows[q]
                           /\ \A j \in DOMAIN rows[q] :
                                rows'[q][j] = IF q = r /\ j = i THEN o ELSE rows[q][j]
<1>1. rows' = [rows EXCEPT ![r] = [rows[r] EXCEPT ![i] = o]]
  BY DEF RowBecomes
<1>2. [rows[r] EXCEPT ![i] = o] \in Seq(RowState)
  BY RowsOf
<1>3. rows' \in [Run -> Seq(RowState)]
  BY <1>1, <1>2, TypeFacts
<1>4. ASSUME NEW q \in Run
      PROVE  /\ Len(rows'[q]) = Len(rows[q])
             /\ DOMAIN rows'[q] = DOMAIN rows[q]
             /\ \A j \in DOMAIN rows[q] :
                  rows'[q][j] = IF q = r /\ j = i THEN o ELSE rows[q][j]
  <2>1. CASE q = r
    <3>1. rows'[q] = [rows[q] EXCEPT ![i] = o]
      BY <1>1, <2>1, TypeFacts
    <3>2. QED
      BY <3>1, <2>1, RowsOf
  <2>2. CASE q # r
    <3>1. rows'[q] = rows[q]
      BY <1>1, <2>2, TypeFacts
    <3>2. QED
      BY <3>1, <2>2
  <2>3. QED
    BY <2>1, <2>2
<1>5. QED
  BY <1>3, <1>4

\* What it found changes with it.
LEMMA FoundChange ==
  ASSUME TypeOK, NEW r \in Run, NEW i, NEW o, NEW x \in Nat,
         RowBecomes(r, i, o, x)
  PROVE  /\ found' \in [Run -> Seq(Nat)]
         /\ \A q \in Run : /\ DOMAIN found'[q] = DOMAIN found[q]
                           /\ \A j \in DOMAIN found[q] :
                                found'[q][j] = IF q = r /\ j = i THEN x ELSE found[q][j]
<1>1. found' = [found EXCEPT ![r] = [found[r] EXCEPT ![i] = x]]
  BY DEF RowBecomes
<1>2. found[r] \in Seq(Nat)
  BY TypeFacts
<1>3. /\ [found[r] EXCEPT ![i] = x] \in Seq(Nat)
      /\ DOMAIN [found[r] EXCEPT ![i] = x] = DOMAIN found[r]
      /\ \A j \in DOMAIN found[r] :
           [found[r] EXCEPT ![i] = x][j] = IF j = i THEN x ELSE found[r][j]
  BY <1>2, ElementChange, Zenon
<1>4. \A q \in Run : found'[q] = IF q = r THEN [found[r] EXCEPT ![i] = x] ELSE found[q]
  BY <1>1, TypeFacts
<1>5. found' \in [Run -> Seq(Nat)]
  BY <1>1, <1>3, TypeFacts
<1>6. QED
  BY <1>3, <1>4, <1>5

LEMMA RowStartType ==
  ASSUME NEW r \in Run, NEW row \in Row
  PROVE  /\ RowStart(r, row) \in {"skipped", "failed", "look_up"}
         /\ RowStart(r, row) \in RowState
         /\ RowStart(r, row) \in InFlight => row \in Entry
         /\ mode[r] = "replace_source" /\ row \in Entry /\ row.key = None
              => RowStart(r, row) = "failed"
<1>1. row \in Entry => row # Header /\ row # Invalid
  BY ConstantsAssumption
<1>2. RowStart(r, row) \in {"skipped", "failed", "look_up"}
  BY DEF RowStart
<1>3. RowStart(r, row) \in InFlight => row \in Entry
  BY <1>2, States DEF RowStart, Row
<1>4. mode[r] = "replace_source" /\ row \in Entry /\ row.key = None
        => RowStart(r, row) = "failed"
  BY <1>1 DEF RowStart
<1>5. QED
  BY <1>2, <1>3, <1>4, States

LEMMA Longer ==
  \A s, t \in Seq(RowState) :
    /\ s \o t \in Seq(RowState)
    /\ Len(s \o t) = Len(s) + Len(t)
    /\ \A j \in 1 .. Len(s) : (s \o t)[j] = s[j]
    /\ \A j \in 1 .. Len(t) : (s \o t)[Len(s) + j] = t[j]
  OBVIOUS

\* A batch is read.
LEMMA BatchGrows ==
  ASSUME TypeOK, RunInv, NEW r \in Run, StartBatch(r)
  PROVE  \E n \in 1 .. BatchSize :
           /\ Len(rows[r]) + n <= Len(file[r])
           /\ rows' \in [Run -> Seq(RowState)]
           /\ Len(rows'[r]) = Len(rows[r]) + n
           /\ DOMAIN rows'[r] = 1 .. (Len(rows[r]) + n)
           /\ \A j \in DOMAIN rows[r] : rows'[r][j] = rows[r][j]
           /\ \A j \in (DOMAIN rows'[r]) \ DOMAIN rows[r] :
                rows'[r][j] = RowStart(r, file[r][j])
           /\ \A q \in Run \ {r} : rows'[q] = rows[q]
<1>1. PICK n \in 1 .. BatchSize :
        /\ Len(rows[r]) + n <= Len(file[r])
        /\ rows' = [rows EXCEPT ![r] =
             @ \o [i \in 1 .. n |-> RowStart(r, file[r][Len(@) + i])]]
  BY DEF StartBatch
<1> DEFINE new == [i \in 1 .. n |-> RowStart(r, file[r][Len(rows[r]) + i])]
<1>2. n \in Nat \ {0}
  BY ConstantsAssumption
<1>3. \A i \in 1 .. n : RowStart(r, file[r][Len(rows[r]) + i]) \in RowState
  <2>1. \A i \in 1 .. n : Len(rows[r]) + i \in DOMAIN file[r]
    BY <1>1, <1>2, RowsOf
  <2>2. QED
    BY <2>1, RowsOf, RowStartType
<1>4. new \in Seq(RowState) /\ Len(new) = n
  BY <1>2, <1>3
<1>5. rows' = [rows EXCEPT ![r] = rows[r] \o new]
  BY <1>1, TypeFacts
<1>6. \A i \in 1 .. n : new[i] = RowStart(r, file[r][Len(rows[r]) + i])
  OBVIOUS
<1> HIDE DEF new
<1>7. /\ rows[r] \o new \in Seq(RowState)
      /\ Len(rows[r] \o new) = Len(rows[r]) + n
      /\ \A j \in 1 .. Len(rows[r]) : (rows[r] \o new)[j] = rows[r][j]
      /\ \A j \in (1 .. (Len(rows[r]) + n)) \ (1 .. Len(rows[r])) :
            (rows[r] \o new)[j] = new[j - Len(rows[r])]
  <2>1. /\ rows[r] \o new \in Seq(RowState)
        /\ Len(rows[r] \o new) = Len(rows[r]) + n
        /\ \A j \in 1 .. Len(rows[r]) : (rows[r] \o new)[j] = rows[r][j]
        /\ \A j \in 1 .. n : (rows[r] \o new)[Len(rows[r]) + j] = new[j]
    <3>1. rows[r] \in Seq(RowState)
      BY RowsOf
    <3>2. /\ rows[r] \o new \in Seq(RowState)
          /\ Len(rows[r] \o new) = Len(rows[r]) + Len(new)
          /\ \A j \in 1 .. Len(rows[r]) : (rows[r] \o new)[j] = rows[r][j]
          /\ \A j \in 1 .. Len(new) : (rows[r] \o new)[Len(rows[r]) + j] = new[j]
      BY <1>4, <3>1, Longer, ZenonT(30)
    <3>3. QED
      BY <1>4, <3>2
  <2>2. ASSUME NEW j \in (1 .. (Len(rows[r]) + n)) \ (1 .. Len(rows[r]))
        PROVE  (rows[r] \o new)[j] = new[j - Len(rows[r])]
    <3>1. PICK k \in 1 .. n : j = Len(rows[r]) + k
      <4>1. j - Len(rows[r]) \in 1 .. n /\ Len(rows[r]) + (j - Len(rows[r])) = j
        BY <1>2, RowsOf
      <4>2. QED
        BY <4>1
    <3>2. j - Len(rows[r]) = k
      BY <3>1, RowsOf, <1>2
    <3>3. (rows[r] \o new)[Len(rows[r]) + k] = new[k]
      BY <2>1
    <3>4. QED
      BY <3>1, <3>2, <3>3
  <2>3. QED
    BY <2>1, <2>2
<1>8. rows'[r] = rows[r] \o new /\ \A q \in Run \ {r} : rows'[q] = rows[q]
  BY <1>5, TypeFacts
<1>9. DOMAIN rows'[r] = 1 .. (Len(rows[r]) + n)
  BY <1>7, <1>8
<1>10. ASSUME NEW j \in (DOMAIN rows'[r]) \ DOMAIN rows[r]
       PROVE  rows'[r][j] = RowStart(r, file[r][j])
  <2>1. j \in (1 .. (Len(rows[r]) + n)) \ (1 .. Len(rows[r]))
    BY <1>10, <1>9, RowsOf
  <2>2. j - Len(rows[r]) \in 1 .. n /\ Len(rows[r]) + (j - Len(rows[r])) = j
    BY <2>1, <1>2, RowsOf
  <2>3. QED
    BY <2>1, <2>2, <1>6, <1>7, <1>8
<1>11. rows' \in [Run -> Seq(RowState)]
  BY <1>5, <1>7, TypeFacts
<1>12. QED
  BY <1>1, <1>7, <1>8, <1>9, <1>10, <1>11, RowsOf

-----------------------------------------------------------------------------
(* The inductive invariant                                                 *)

LEMMA OneIsFew ==
  ASSUME NEW S, \A x, y \in S : x = y
  PROVE  IsFiniteSet(S) /\ Cardinality(S) <= 1
<1>1. CASE S = {}
  BY <1>1, FS_EmptySet
<1>2. CASE S # {}
  <2>1. PICK x : x \in S
    BY <1>2
  <2>2. S = {x}
    BY <2>1
  <2>3. IsFiniteSet({x}) /\ Cardinality({x}) = 1
    BY FS_Singleton
  <2>4. QED
    BY <2>2, <2>3
<1>3. QED
  BY <1>1, <1>2

LEMMA InitInv == Init => IInv /\ CopiesNeedRaces
<1> SUFFICES ASSUME Init PROVE IInv /\ CopiesNeedRaces
  OBVIOUS
<1>1. PICK request \in [Run -> Requests] :
        /\ mode = [r \in Run |-> request[r][1]]
        /\ file = [r \in Run |-> request[r][2]]
  BY DEF Init
<1>2. \A r \in Run : request[r][1] \in Mode /\ request[r][2] \in Seq(Row)
  BY ConstantsAssumption
<1>3. /\ items \in Seq(Item) /\ NoCopies(items)
      /\ born = [x \in DOMAIN items |-> items[x].key]
  BY ConstantsAssumption DEF Init
<1>4. mode \in [Run -> Mode] /\ file \in [Run -> Seq(Row)]
  BY <1>1, <1>2
<1>5. /\ Len(items) \in Nat /\ DOMAIN items = 1 .. Len(items)
      /\ \A x \in DOMAIN items : items[x] \in Item /\ items[x].key \in Key \union {None}
  <2>1. /\ Len(items) \in Nat /\ DOMAIN items = 1 .. Len(items)
        /\ \A x \in DOMAIN items : items[x] \in Item
    BY <1>3
  <2>2. QED
    BY <2>1 DEF Item
<1>6. /\ born \in Seq(Key \union {None}) /\ DOMAIN born = DOMAIN items
      /\ \A x \in DOMAIN items : born[x] = items[x].key
  BY <1>3, <1>5
<1>7. \A r \in Run : rows[r] = <<>> /\ step[r] = "idle" /\ status[r] = "none"
                       /\ home[r] = None
  BY DEF Init
<1>8. /\ found \in [Run -> Seq(Nat)]
      /\ \A r \in Run : DOMAIN found[r] = DOMAIN file[r]
  <2>1. \A r \in Run : file[r] \in Seq(Row)
    BY <1>4
  <2>2. \A r \in Run : [i \in DOMAIN file[r] |-> 0] \in Seq(Nat)
    BY <2>1
  <2>3. QED
    BY <2>2 DEF Init
<1>9. TypeOK
  BY <1>3, <1>4, <1>6, <1>8 DEF Init, TypeOK, Status
<1>10. ItemsInv
  BY <1>3, <1>6 DEF ItemsInv, NoCopies
<1>11. FoundInv
  BY <1>7, <1>8 DEF FoundInv
<1>12. RunInv
  BY <1>7, <1>9, RowsOf DEF RunInv
<1>13. CopiesNeedRaces
  <2>1. ASSUME NEW n \in Name
        PROVE  Cardinality({x \in DOMAIN items : born[x] = None /\ items[x].name = n}) <= 1
    <3> DEFINE S == {x \in DOMAIN items : born[x] = None /\ items[x].name = n}
    <3>1. \A x, y \in S : x = y
      BY <1>3, <1>6 DEF NoCopies
    <3> HIDE DEF S
    <3>2. Cardinality(S) <= 1
      BY <3>1, OneIsFew
    <3>3. QED
      BY <3>2 DEF S
  <2>2. races = 0
    BY DEF Init
  <2>3. \A x, y \in DOMAIN items :
          x # y /\ born[x] = born[y] => None \in {items[x].key, items[y].key}
    BY <1>6, <1>10 DEF ItemsInv
  <2>4. QED
    BY <2>1, <2>2, <2>3 DEF CopiesNeedRaces
<1>14. QED
  BY <1>9, <1>10, <1>11, <1>12, <1>13 DEF IInv

\* A row in flight belongs to a batch in progress or to a run that is over.
LEMMA FlightInBatch ==
  ASSUME IInv, NEW r \in Run, NEW i \in DOMAIN rows[r], rows[r][i] \in InFlight
  PROVE  /\ step[r] \in {"batch", "ended"}
         /\ i \in DOMAIN file[r] /\ file[r][i] \in Entry
         /\ mode[r] = "replace_source" => file[r][i].key # None
<1>1. rows[r] # <<>>
  BY RowsOf DEF IInv
<1>2. ~Settled(r)
  BY DEF Settled, Outcome
<1>3. file[r][i] \in Entry /\ (mode[r] = "replace_source" => file[r][i].key # None)
  BY States DEF IInv, RunInv
<1>4. i \in DOMAIN file[r]
  BY RowsOf DEF IInv, RunInv
<1>5. QED
  BY <1>1, <1>2, <1>3, <1>4, TypeFacts DEF IInv, RunInv

\* A row goes on.
LEMMA RowKeepsRunInv ==
  ASSUME IInv, NEW r \in Run, NEW i \in DOMAIN rows[r], NEW o \in RowState,
         NEW x, rows[r][i] \in InFlight, RowBecomes(r, i, o, x),
         UNCHANGED <<run, status, home, step>>
  PROVE  RunInv'
<1>0. TypeOK /\ RunInv
  BY DEF IInv
<1>1. UNCHANGED <<mode, file, status, home, step>>
  BY DEF run
<1> SUFFICES ASSUME NEW q \in Run
             PROVE
    /\ Len(rows'[q]) <= Len(file[q])
    /\ step[q] = "idle" => status[q] \in {"none", "pending"} /\ rows'[q] = <<>>
    /\ step[q] \in {"read", "batch", "replaced"} => status[q] = "processing"
    /\ step[q] = "ended" => status[q] \in Over
    /\ step[q] \in {"read", "replaced"} => Settled(q)'
    /\ step[q] = "replaced" => Outcome(q, Success)' = DOMAIN file[q]
    /\ status[q] = "none" => home[q] = None
    /\ \A j \in DOMAIN rows'[q] :
         /\ rows'[q][j] \in InFlight => file[q][j] \in Entry
         /\ mode[q] = "replace_source" /\ file[q][j] \in Entry /\ file[q][j].key = None
              => rows'[q][j] = "failed"
  BY <1>1, ZenonT(60) DEF RunInv
<1>2. /\ Len(rows'[q]) = Len(rows[q]) /\ DOMAIN rows'[q] = DOMAIN rows[q]
      /\ \A j \in DOMAIN rows[q] :
           rows'[q][j] = IF q = r /\ j = i THEN o ELSE rows[q][j]
  BY <1>0, RowChange
<1>3. /\ step[r] \in {"batch", "ended"} /\ file[r][i] \in Entry
      /\ mode[r] = "replace_source" => file[r][i].key # None
  BY FlightInBatch
<1>4. CASE q = r
  BY <1>0, <1>2, <1>3, <1>4 DEF RunInv
<1>5. CASE q # r
  <2>1. rows'[q] = rows[q]
    <3>1. rows' = [rows EXCEPT ![r] = [rows[r] EXCEPT ![i] = o]]
      BY DEF RowBecomes
    <3>2. QED
      BY <3>1, <1>5, <1>0, TypeFacts
  <2>2. Settled(q)' = Settled(q) /\ Outcome(q, Success)' = Outcome(q, Success)
    BY <2>1 DEF Settled, Outcome
  <2>3. QED
    BY <1>0, <2>1, <2>2 DEF RunInv
<1>6. QED
  BY <1>4, <1>5

\* A replacement has every row behind it, and none that failed.
LEMMA ReplacedWhole ==
  ASSUME IInv, NEW r \in Run, DeactivateMissingSourceItems(r)
  PROVE  /\ Outcome(r, Success) = DOMAIN file[r]
         /\ mode[r] = "replace_source" /\ DOMAIN rows[r] = DOMAIN file[r]
         /\ Seen(r) = Listed(r)
<1>1. AllRead(r) /\ step[r] = "read" /\ MayReplace(r) /\ mode[r] = "replace_source"
  BY DEF DeactivateMissingSourceItems, Replaces
<1>2. Settled(r)
  BY <1>1 DEF IInv, RunInv
<1>3. DOMAIN rows[r] = DOMAIN file[r]
  BY <1>1, RowsOf DEF AllRead, IInv
<1>4. \A i \in DOMAIN rows[r] : rows[r][i] \in Success /\ rows[r][i] # "failed"
  BY <1>1, <1>2, RowsOf DEF IInv, Settled, MayReplace, Outcome, RowState
<1>5. QED
  BY <1>1, <1>3, <1>4 DEF Outcome, Seen, Listed

\* A run takes a step of its own, and its rows stay what they are.
LEMMA RunKeepsInv ==
  ASSUME IInv, NEW r \in Run,
         UNCHANGED <<run, rows>>,
         \/ CreateImport(r, home'[r]) \/ ProcessCatalogImport(r)
         \/ EndBatchCancelled(r) \/ EndBatch(r)
         \/ DeactivateMissingSourceItems(r) \/ FinishImport(r) \/ FailImport(r),
         TypeOK', \A q \in Run \ {r} : UNCHANGED <<status[q], step[q], home[q]>>
  PROVE  RunInv'
<1>1. UNCHANGED <<mode, file, rows>>
  BY DEF run
<1>2. TypeOK /\ RunInv
  BY DEF IInv
<1> SUFFICES ASSUME NEW q \in Run
             PROVE
    /\ Len(rows[q]) <= Len(file[q])
    /\ step'[q] = "idle" => status'[q] \in {"none", "pending"} /\ rows[q] = <<>>
    /\ step'[q] \in {"read", "batch", "replaced"} => status'[q] = "processing"
    /\ step'[q] = "ended" => status'[q] \in Over
    /\ step'[q] \in {"read", "replaced"} => Settled(q)
    /\ step'[q] = "replaced" => Outcome(q, Success) = DOMAIN file[q]
    /\ status'[q] = "none" => home'[q] = None
    /\ \A j \in DOMAIN rows[q] :
         /\ rows[q][j] \in InFlight => file[q][j] \in Entry
         /\ mode[q] = "replace_source" /\ file[q][j] \in Entry /\ file[q][j].key = None
              => rows[q][j] = "failed"
  BY <1>1 DEF RunInv, Settled, Outcome
<1>3. CASE q # r
  BY <1>2, <1>3 DEF RunInv
<1>4. ASSUME q = r PROVE
    /\ Len(rows[q]) <= Len(file[q])
    /\ \A j \in DOMAIN rows[q] :
         /\ rows[q][j] \in InFlight => file[q][j] \in Entry
         /\ mode[q] = "replace_source" /\ file[q][j] \in Entry /\ file[q][j].key = None
              => rows[q][j] = "failed"
  BY <1>2 DEF RunInv
<1>5. ASSUME q = r PROVE
    /\ step'[q] = "idle" => status'[q] \in {"none", "pending"} /\ rows[q] = <<>>
    /\ step'[q] \in {"read", "batch", "replaced"} => status'[q] = "processing"
    /\ step'[q] = "ended" => status'[q] \in Over
    /\ step'[q] \in {"read", "replaced"} => Settled(q)
    /\ step'[q] = "replaced" => Outcome(q, Success) = DOMAIN file[q]
    /\ status'[q] = "none" => home'[q] = None
  <2>9. rows[q] = <<>> => Settled(q)
    BY <1>2, RowsOf DEF Settled, Outcome
  <2>0. /\ rows[q] = <<>> => Settled(q)
        /\ status' \in [Run -> Status] /\ status \in [Run -> Status]
        /\ step' \in [Run -> {"idle", "read", "batch", "replaced", "ended"}]
        /\ step \in [Run -> {"idle", "read", "batch", "replaced", "ended"}]
    BY <1>2, <2>9, TypeFacts DEF TypeOK
  <2>1. CASE CreateImport(r, home'[r])
    BY <1>2, <1>5, <2>0, <2>1 DEF CreateImport, RunInv, Over
  <2>2. CASE ProcessCatalogImport(r)
    BY <1>2, <1>5, <2>0, <2>2 DEF ProcessCatalogImport, RunInv, Over
  <2>3. CASE EndBatchCancelled(r)
    BY <1>2, <1>5, <2>0, <2>3 DEF EndBatchCancelled, Ends, RunInv, Over
  <2>4. CASE EndBatch(r)
    BY <1>2, <1>5, <2>0, <2>4 DEF EndBatch, RunInv, Over
  <2>5. CASE DeactivateMissingSourceItems(r)
    <3>1. Outcome(r, Success) = DOMAIN file[r]
      BY <1>2, <2>5, ReplacedWhole
    <3>2. QED
      BY <1>2, <1>5, <2>0, <2>5, <3>1
         DEF DeactivateMissingSourceItems, RunInv, Over
  <2>6. CASE FinishImport(r)
    <3>1. Verdict(r) \in Over
      BY DEF Verdict, Over
    <3>2. QED
      BY <1>2, <1>5, <2>0, <2>6, <3>1 DEF FinishImport, Ends, RunInv, Over
  <2>7. CASE FailImport(r)
    BY <1>2, <1>5, <2>0, <2>7 DEF FailImport, Ends, RunInv, Over
  <2>8. QED
    BY <2>1, <2>2, <2>3, <2>4, <2>5, <2>6, <2>7
<1>6. QED
  BY <1>3, <1>4, <1>5

LEMMA BatchKeepsInv ==
  ASSUME IInv, NEW r \in Run, StartBatch(r)
  PROVE  TypeOK' /\ ItemsInv' /\ FoundInv' /\ RunInv'
<1>1. UNCHANGED <<mode, file, status, home, found, cancelled, items, born, races>>
  BY DEF StartBatch, run
<1>2. TypeOK /\ RunInv /\ ItemsInv /\ FoundInv
  BY DEF IInv
<1>3. PICK n \in 1 .. BatchSize :
           /\ Len(rows[r]) + n <= Len(file[r])
           /\ rows' \in [Run -> Seq(RowState)]
           /\ Len(rows'[r]) = Len(rows[r]) + n
           /\ DOMAIN rows'[r] = 1 .. (Len(rows[r]) + n)
           /\ \A j \in DOMAIN rows[r] : rows'[r][j] = rows[r][j]
           /\ \A j \in (DOMAIN rows'[r]) \ DOMAIN rows[r] :
                rows'[r][j] = RowStart(r, file[r][j])
           /\ \A q \in Run \ {r} : rows'[q] = rows[q]
  BY <1>2, BatchGrows, Zenon
<1>4. step' = [step EXCEPT ![r] = "batch"] /\ step[r] = "read"
  BY DEF StartBatch
<1>5. TypeOK'
  BY <1>1, <1>2, <1>3, <1>4 DEF TypeOK, RowState
<1>6. ASSUME NEW j \in (DOMAIN rows'[r]) \ DOMAIN rows[r]
      PROVE  /\ rows'[r][j] \in {"skipped", "failed", "look_up"}
             /\ rows'[r][j] \in InFlight => file[r][j] \in Entry
             /\ mode[r] = "replace_source" /\ file[r][j] \in Entry /\ file[r][j].key = None
                  => rows'[r][j] = "failed"
  <2>1. j \in DOMAIN file[r]
    BY <1>2, <1>3, RowsOf, ConstantsAssumption
  <2>2. file[r][j] \in Row
    BY <2>1, <1>2, RowsOf
  <2>3. QED
    BY <1>3, <2>2, RowStartType
<1>7. ItemsInv' /\ FoundInv'
  <2>1. ASSUME NEW q \in Run, NEW j \in DOMAIN rows'[q], rows'[q][j] = "update"
        PROVE  j \in DOMAIN rows[q] /\ rows[q][j] = "update"
    BY <1>3, <1>6, <2>1, ZenonT(60)
  <2>2. FoundInv'
    BY <1>1, <1>2, <2>1 DEF FoundInv
  <2>3. QED
    BY <1>1, <1>2, <2>2 DEF ItemsInv
<1>8. RunInv'
  <2> SUFFICES ASSUME NEW q \in Run
               PROVE
    /\ Len(rows'[q]) <= Len(file[q])
    /\ step'[q] = "idle" => status[q] \in {"none", "pending"} /\ rows'[q] = <<>>
    /\ step'[q] \in {"read", "batch", "replaced"} => status[q] = "processing"
    /\ step'[q] = "ended" => status[q] \in Over
    /\ step'[q] \in {"read", "replaced"} => Settled(q)'
    /\ step'[q] = "replaced" => Outcome(q, Success)' = DOMAIN file[q]
    /\ status[q] = "none" => home[q] = None
    /\ \A j \in DOMAIN rows'[q] :
         /\ rows'[q][j] \in InFlight => file[q][j] \in Entry
         /\ mode[q] = "replace_source" /\ file[q][j] \in Entry /\ file[q][j].key = None
              => rows'[q][j] = "failed"
    BY <1>1, Zenon DEF RunInv
  <2>1. CASE q = r
    <3>1. step'[q] = "batch"
      BY <1>4, <1>2, <2>1, TypeFacts
    <3>2. \A j \in DOMAIN rows'[q] :
         /\ rows'[q][j] \in InFlight => file[q][j] \in Entry
         /\ mode[q] = "replace_source" /\ file[q][j] \in Entry /\ file[q][j].key = None
              => rows'[q][j] = "failed"
      BY <1>2, <1>3, <1>6, <2>1 DEF RunInv
    <3>3. QED
      BY <1>2, <1>3, <1>4, <2>1, <3>1, <3>2 DEF RunInv
  <2>2. CASE q # r
    <3>1. rows'[q] = rows[q] /\ step'[q] = step[q]
      BY <1>2, <1>3, <1>4, <2>2, TypeFacts
    <3>2. Settled(q)' = Settled(q) /\ Outcome(q, Success)' = Outcome(q, Success)
      BY <3>1 DEF Settled, Outcome
    <3>3. QED
      BY <1>2, <3>1, <3>2 DEF RunInv
  <2>3. QED
    BY <2>1, <2>2
<1>9. QED
  BY <1>5, <1>7, <1>8

\* What a lookup finds.
LEMMA FindFinds ==
  ASSUME IInv, NEW r \in Run, NEW i \in DOMAIN rows[r],
         FindExistingCatalogItem(r, i)
  PROVE  \E o \in RowState, x \in Nat :
           /\ RowBecomes(r, i, o, x)
           /\ o \in {"skipped", "create", "update"}
           /\ o = "create" => Matches(file[r][i]) = {} /\ mode[r] # "update_only"
           /\ o = "update" => x \in Matches(file[r][i]) /\ mode[r] # "create_only"
           /\ o = "skipped" => mode[r] = IF Matches(file[r][i]) = {} THEN "update_only"
                                        ELSE "create_only"
<1> DEFINE e == file[r][i]
<1>1. \A x \in Matches(e) : x \in Nat
  BY ItemsOf DEF Matches, IInv
<1>2. CASE /\ Matches(e) = {}
           /\ RowBecomes(r, i, IF mode[r] = "update_only" THEN "skipped"
                                ELSE "create", 0)
  BY <1>2, States
<1>3. ASSUME NEW x \in Oldest(Matches(e)),
             IF mode[r] = "create_only" THEN RowBecomes(r, i, "skipped", 0)
             ELSE RowBecomes(r, i, "update", x)
      PROVE  \E o \in RowState, y \in Nat :
               /\ RowBecomes(r, i, o, y)
               /\ o \in {"skipped", "create", "update"}
               /\ o = "create" => Matches(e) = {} /\ mode[r] # "update_only"
               /\ o = "update" => y \in Matches(e) /\ mode[r] # "create_only"
               /\ o = "skipped" => mode[r] = IF Matches(e) = {} THEN "update_only"
                                            ELSE "create_only"
  <2>1. x \in Matches(e) /\ x \in Nat
    BY <1>1 DEF Oldest
  <2>2. CASE mode[r] = "create_only"
    BY <1>3, <2>1, <2>2, States
  <2>3. CASE mode[r] # "create_only"
    BY <1>3, <2>1, <2>3, States
  <2>4. QED
    BY <2>2, <2>3
<1>4. QED
  BY <1>2, <1>3 DEF FindExistingCatalogItem

\* What a row does to the items.
LEMMA ItemsChange ==
  ASSUME IInv, NEW r \in Run, NEW i \in DOMAIN rows[r],
         \/ FindExistingCatalogItem(r, i) \/ CreateItem(r, i)
         \/ UpdateItem(r, i) \/ RowFails(r, i)
  PROVE  /\ items' \in Seq(Item) /\ born' \in Seq(Key \union {None})
         /\ ItemsInv'
         /\ \A x \in DOMAIN items :
              /\ x \in DOMAIN items' /\ born'[x] = born[x]
              /\ born[x] = None => items'[x].name = items[x].name
<1>1. TypeOK /\ ItemsInv /\ FoundInv /\ RunInv
  BY DEF IInv
<1>2. /\ items \in Seq(Item) /\ born \in Seq(Key \union {None})
      /\ Len(items) \in Nat /\ DOMAIN items = 1 .. Len(items)
      /\ Len(born) = Len(items) /\ DOMAIN born = DOMAIN items
      /\ \A x \in DOMAIN items : items[x] \in Item /\ born[x] \in Key \union {None}
  <2>1. Len(born) = Len(items)
    BY <1>1, ItemsOf DEF ItemsInv
  <2>2. QED
    BY <1>1, <2>1, TypeFacts, ItemsOf DEF ItemsInv
<1> DEFINE e == file[r][i]
<1>3. CASE UNCHANGED <<items, born>>
  BY <1>1, <1>2, <1>3 DEF ItemsInv
<1>4. CASE CreateItem(r, i)
  <2>1. /\ items' = Append(items, AsItem(e)) /\ born' = Append(born, e.key)
        /\ Fits(e, 0)
    BY <1>4 DEF CreateItem
  <2>2. e \in Entry
    BY <1>4, States, FlightInBatch DEF CreateItem
  <2>3. AsItem(e) \in Item /\ AsItem(e).key = e.key /\ e.key \in Key \union {None}
    BY <2>2 DEF AsItem, Item, Entry
  <2> HIDE DEF e
  <2>4. /\ items' \in Seq(Item) /\ born' \in Seq(Key \union {None})
        /\ DOMAIN items' = 1 .. (Len(items) + 1) /\ DOMAIN born' = DOMAIN items'
        /\ \A x \in DOMAIN items : items'[x] = items[x] /\ born'[x] = born[x]
        /\ items'[Len(items) + 1] = AsItem(e) /\ born'[Len(items) + 1] = e.key
    BY <1>2, <2>1, <2>3
  <2>5. ItemsInv'
    <3>1. \A x \in DOMAIN items' : x \in DOMAIN items \/ x = Len(items) + 1
      BY <1>2, <2>4
    <3>2. \A x \in DOMAIN items' : items'[x].key \in {born'[x], None}
      BY <1>1, <2>3, <2>4, <3>1 DEF ItemsInv
    <3>3. \A x \in DOMAIN items : items[x].key = e.key => e.key = None
      BY <1>2, <2>1 DEF Fits
    <3>4. \A x, y \in DOMAIN items' : items'[x].key = items'[y].key =>
            x = y \/ items'[x].key = None
      BY <1>1, <2>3, <2>4, <3>1, <3>3 DEF ItemsInv
    <3>5. QED
      BY <2>4, <3>2, <3>4 DEF ItemsInv
  <2>6. QED
    BY <1>2, <2>4, <2>5
<1>5. CASE UpdateItem(r, i)
  <2> DEFINE z == found[r][i]
  <2>1. /\ items' = [items EXCEPT ![z] = AsItem(e)] /\ born' = born
        /\ Fits(e, z) /\ rows[r][i] = "update"
    BY <1>5 DEF UpdateItem
  <2>2. e \in Entry
    BY <1>5, States, FlightInBatch DEF UpdateItem
  <2>3. /\ AsItem(e) \in Item /\ AsItem(e).key = e.key /\ AsItem(e).name = e.name
        /\ e.key \in Key \union {None}
    BY <2>2 DEF AsItem, Item, Entry
  <2>4. /\ z \in DOMAIN items
        /\ e.key # None => born[z] = e.key
        /\ born[z] = None => items[z].name = e.name
    BY <1>1, <2>1 DEF FoundInv
  <2> HIDE DEF e, z
  <2>5. /\ items' \in Seq(Item) /\ DOMAIN items' = DOMAIN items
        /\ \A x \in DOMAIN items : items'[x] = IF x = z THEN AsItem(e) ELSE items[x]
    BY <1>2, <2>1, <2>3, ElementChange, Zenon
  <2>6. ItemsInv'
    <3>1. \A x \in DOMAIN items : items'[x].key \in {born[x], None}
      BY <1>1, <2>3, <2>4, <2>5 DEF ItemsInv
    <3>2. \A x \in DOMAIN items : items[x].key = e.key => e.key = None \/ x = z
      BY <2>1 DEF Fits
    <3>3. \A x, y \in DOMAIN items : items'[x].key = items'[y].key =>
            x = y \/ items'[x].key = None
      BY <1>1, <2>3, <2>5, <3>2 DEF ItemsInv
    <3>4. QED
      BY <1>2, <2>1, <2>5, <3>1, <3>3 DEF ItemsInv
  <2>7. \A x \in DOMAIN items : born[x] = None => items'[x].name = items[x].name
    BY <2>3, <2>4, <2>5
  <2>8. QED
    BY <1>2, <2>1, <2>5, <2>6, <2>7
<1>6. QED
  BY <1>3, <1>4, <1>5 DEF FindExistingCatalogItem, RowFails

\* A row of a batch goes on.
LEMMA RowKeepsInv ==
  ASSUME IInv, NEW r \in Run, NEW i \in DOMAIN rows[r],
         \/ FindExistingCatalogItem(r, i) \/ CreateItem(r, i)
         \/ UpdateItem(r, i) \/ RowFails(r, i)
  PROVE  TypeOK' /\ ItemsInv' /\ FoundInv' /\ RunInv'
<1>1. UNCHANGED <<mode, file, status, home, step, cancelled>>
  BY DEF FindExistingCatalogItem, CreateItem, UpdateItem, RowFails, run
<1>2. TypeOK /\ ItemsInv /\ FoundInv /\ RunInv
  BY DEF IInv
<1>3. rows[r][i] \in InFlight
  BY States DEF FindExistingCatalogItem, CreateItem, UpdateItem, RowFails
<1>4. i \in DOMAIN file[r]
  BY <1>3, FlightInBatch
<1>5. PICK o \in RowState, z \in Nat :
        /\ RowBecomes(r, i, o, z)
        /\ o = "update" => z \in Matches(file[r][i]) /\ UNCHANGED <<items, born>>
  <2>1. CASE FindExistingCatalogItem(r, i)
    BY <2>1, FindFinds, Zenon DEF FindExistingCatalogItem
  <2>2. CASE CreateItem(r, i) \/ UpdateItem(r, i) \/ RowFails(r, i)
    BY <2>2, States DEF CreateItem, UpdateItem, RowFails
  <2>3. QED
    BY <2>1, <2>2
<1>6. RunInv'
  BY <1>1, <1>3, <1>5, RowKeepsRunInv DEF run
<1>7. /\ rows' \in [Run -> Seq(RowState)]
      /\ \A q \in Run : /\ DOMAIN rows'[q] = DOMAIN rows[q]
                        /\ \A j \in DOMAIN rows[q] :
                             rows'[q][j] = IF q = r /\ j = i THEN o ELSE rows[q][j]
  BY <1>2, <1>5, RowChange
<1>8. /\ found' \in [Run -> Seq(Nat)]
      /\ \A q \in Run : /\ DOMAIN found'[q] = DOMAIN found[q]
                        /\ \A j \in DOMAIN found[q] :
                             found'[q][j] = IF q = r /\ j = i THEN z ELSE found[q][j]
  BY <1>2, <1>5, FoundChange
<1>9. races' \in Nat
  BY <1>2 DEF FindExistingCatalogItem, CreateItem, UpdateItem, RowFails,
              CountRace, TypeOK
<1>10. /\ items' \in Seq(Item) /\ born' \in Seq(Key \union {None})
       /\ ItemsInv'
       /\ \A x \in DOMAIN items :
            /\ x \in DOMAIN items' /\ born'[x] = born[x]
            /\ born[x] = None => items'[x].name = items[x].name
  BY ItemsChange
<1>11. TypeOK'
  BY <1>1, <1>2, <1>7, <1>8, <1>9, <1>10 DEF TypeOK, RowState
<1>12. FoundInv'
  <2>1. ASSUME NEW q \in Run, NEW j \in DOMAIN rows'[q], rows'[q][j] = "update"
        PROVE  /\ found'[q][j] \in DOMAIN items'
               /\ file[q][j].key # None => born'[found'[q][j]] = file[q][j].key
               /\ born'[found'[q][j]] = None =>
                    items'[found'[q][j]].name = file[q][j].name
    <3>1. CASE q = r /\ j = i
      <4>1. o = "update" /\ found'[q][j] = z
        BY <1>2, <1>4, <1>7, <1>8, <2>1, <3>1 DEF FoundInv
      <4>2. /\ z \in DOMAIN items /\ items' = items /\ born' = born
            /\ file[r][i].key # None => items[z].key = file[r][i].key
            /\ file[r][i].key = None => items[z].name = file[r][i].name
        BY <1>5, <4>1 DEF Matches
      <4>3. items[z].key \in {born[z], None}
        BY <1>2, <4>2 DEF ItemsInv
      <4>4. QED
        BY <3>1, <4>1, <4>2, <4>3
    <3>2. CASE ~(q = r /\ j = i)
      <4>1. j \in DOMAIN rows[q] /\ rows[q][j] = "update"
        BY <1>7, <2>1, <3>2
      <4>2. j \in DOMAIN found[q]
        BY <1>2, <4>1, RowsOf DEF FoundInv, RunInv
      <4>3. found'[q][j] = found[q][j]
        BY <1>8, <3>2, <4>2
      <4>4. /\ found[q][j] \in DOMAIN items
            /\ file[q][j].key # None => born[found[q][j]] = file[q][j].key
            /\ born[found[q][j]] = None => items[found[q][j]].name = file[q][j].name
        BY <1>2, <4>1 DEF FoundInv
      <4>5. QED
        BY <1>10, <4>3, <4>4
    <3>3. QED
      BY <3>1, <3>2
  <2>2. QED
    BY <1>1, <1>2, <1>8, <2>1 DEF FoundInv
<1>13. QED
  BY <1>6, <1>10, <1>11, <1>12

\* What is deactivated keeps its name and its external id.
LEMMA DeactivationKeeps ==
  ASSUME TypeOK, NEW r \in Run, DeactivateMissingSourceItems(r)
  PROVE  /\ items' \in Seq(Item) /\ DOMAIN items' = DOMAIN items
         /\ \A x \in DOMAIN items :
              /\ items'[x].key = items[x].key /\ items'[x].name = items[x].name
              /\ items[x].active /\ ~items'[x].active => items[x].key \notin Seen(r)
<1> DEFINE new == [x \in DOMAIN items |->
                     [items[x] EXCEPT !.active = @ /\ items[x].key \in Seen(r)]]
<1>1. items' = new
  BY DEF DeactivateMissingSourceItems
<1>2. ASSUME NEW x \in DOMAIN items
      PROVE  /\ new[x] \in Item
             /\ new[x].key = items[x].key /\ new[x].name = items[x].name
             /\ items[x].active /\ ~new[x].active => items[x].key \notin Seen(r)
  <2>1. items[x] \in Item
    BY ItemsOf
  <2>2. new[x] = [items[x] EXCEPT !.active = items[x].active /\ items[x].key \in Seen(r)]
    OBVIOUS
  <2>3. QED
    BY <2>1, <2>2 DEF Item
<1>3. DOMAIN new = 1 .. Len(items) /\ Len(items) \in Nat
  BY ItemsOf
<1>4. DOMAIN items = 1 .. Len(items) /\ new = [x \in DOMAIN items |-> new[x]]
  BY ItemsOf
<1> HIDE DEF new
<1>5. new \in Seq(Item)
  BY <1>2, <1>3, <1>4
<1>6. QED
  BY <1>1, <1>2, <1>3, <1>4, <1>5

LEMMA NextInv == IInv /\ [Next]_vars => IInv'
<1> SUFFICES ASSUME IInv, [Next]_vars PROVE TypeOK' /\ ItemsInv' /\ FoundInv' /\ RunInv'
  BY DEF IInv
<1>1. TypeOK /\ ItemsInv /\ FoundInv /\ RunInv
  BY DEF IInv
<1>2. ASSUME NEW r \in Run,
             \/ \E p \in Process : CreateImport(r, p)
             \/ ProcessCatalogImport(r)
             \/ EndBatchCancelled(r) \/ EndBatch(r)
             \/ DeactivateMissingSourceItems(r) \/ FinishImport(r) \/ FailImport(r)
      PROVE  TypeOK' /\ ItemsInv' /\ FoundInv' /\ RunInv'
  <2>1. UNCHANGED <<mode, file, rows, found, born, races>>
    BY <1>2 DEF CreateImport, ProcessCatalogImport, EndBatchCancelled, EndBatch,
         DeactivateMissingSourceItems, FinishImport, FailImport, Ends, run
  <2>2. /\ status' \in [Run -> Status]
        /\ home' \in [Run -> Process \union {None}]
        /\ step' \in [Run -> {"idle", "read", "batch", "replaced", "ended"}]
    <3>1. Verdict(r) \in Status
      BY DEF Verdict, Status
    <3>2. QED
      BY <1>1, <1>2, <3>1, TypeFacts, ZenonT(60)
         DEF CreateImport, ProcessCatalogImport, EndBatchCancelled, EndBatch,
         DeactivateMissingSourceItems, FinishImport, FailImport, Ends, Status
  <2>3. /\ items' \in Seq(Item) /\ DOMAIN items' = DOMAIN items
        /\ \A x \in DOMAIN items : /\ items'[x].key = items[x].key
                                   /\ items'[x].name = items[x].name
    BY <1>1, <1>2, DeactivationKeeps, TypeFacts
       DEF CreateImport, ProcessCatalogImport, EndBatchCancelled, EndBatch,
         FinishImport, FailImport
  <2>4. cancelled' \in [Process -> SUBSET Run]
    <3>1. CASE EndBatchCancelled(r)
      <4>1. cancelled' = [cancelled EXCEPT ![home[r]] = cancelled[home[r]] \ {r}]
        BY <3>1 DEF EndBatchCancelled
      <4>2. home[r] \in Process
        BY <1>1, <3>1, TypeFacts DEF EndBatchCancelled, Alive
      <4>3. cancelled[home[r]] \ {r} \in SUBSET Run
        BY <1>1, <4>2, TypeFacts
      <4>4. QED
        BY <1>1, <4>1, <4>3, TypeFacts
    <3>2. CASE UNCHANGED cancelled
      BY <1>1, <3>2, TypeFacts
    <3>3. QED
      BY <1>2, <3>1, <3>2
         DEF CreateImport, ProcessCatalogImport, EndBatch,
         DeactivateMissingSourceItems, FinishImport, FailImport
  <2>5. TypeOK'
    BY <1>1, <2>1, <2>2, <2>3, <2>4 DEF TypeOK
  <2>6. ItemsInv' /\ FoundInv'
    <3>1. ItemsInv'
      BY <1>1, <2>1, <2>3 DEF ItemsInv
    <3>2. FoundInv'
      BY <1>1, <2>1, <2>3 DEF FoundInv
    <3>3. QED
      BY <3>1, <3>2
  <2>7. \A q \in Run \ {r} : UNCHANGED <<status[q], step[q], home[q]>>
    BY <1>1, <1>2, TypeFacts
       DEF CreateImport, ProcessCatalogImport, EndBatchCancelled, EndBatch,
         DeactivateMissingSourceItems, FinishImport, FailImport, Ends
  <2>8. (\E p \in Process : CreateImport(r, p)) => CreateImport(r, home'[r])
    BY <1>1, TypeFacts DEF CreateImport
  <2>9. RunInv'
    BY <1>2, <2>1, <2>5, <2>7, <2>8, RunKeepsInv DEF run
  <2>10. QED
    BY <2>5, <2>6, <2>9
<1>3. ASSUME NEW r \in Run, NEW p \in Process, CancelImport(r, p)
      PROVE  TypeOK' /\ ItemsInv' /\ FoundInv' /\ RunInv'
  <2>1. UNCHANGED <<mode, file, status, home, step, rows, found, items, born, races>>
    BY <1>3 DEF CancelImport, run
  <2>2. cancelled' \in [Process -> SUBSET Run]
    BY <1>1, <1>3, TypeFacts DEF CancelImport
  <2>3. QED
    BY <1>1, <2>1, <2>2
       DEF TypeOK, ItemsInv, FoundInv, RunInv, Settled, Outcome
<1>4. ASSUME NEW p \in Process, Crash(p)
      PROVE  TypeOK' /\ ItemsInv' /\ FoundInv' /\ RunInv'
  <2>1. UNCHANGED <<mode, file, status, step, rows, found, items, born, races>>
    BY <1>4 DEF Crash, run
  <2>2. /\ cancelled' \in [Process -> SUBSET Run]
        /\ home' \in [Run -> Process \union {None}]
        /\ \A r \in Run : home'[r] \in {home[r], None}
    BY <1>1, <1>4, TypeFacts DEF Crash
  <2>3. TypeOK'
    BY <1>1, <2>1, <2>2 DEF TypeOK
  <2>4. ItemsInv' /\ FoundInv'
    BY <1>1, <2>1 DEF ItemsInv, FoundInv
  <2>5. RunInv'
    BY <1>1, <2>1, <2>2 DEF RunInv, Settled, Outcome
  <2>6. QED
    BY <2>3, <2>4, <2>5
<1>5. CASE UNCHANGED vars
  <2>1. UNCHANGED <<mode, file, status, home, step, rows, found, cancelled,
                    items, born, races>>
    BY <1>5 DEF vars
  <2>2. QED
    BY <1>1, <2>1 DEF TypeOK, ItemsInv, FoundInv, RunInv, Settled, Outcome
<1>6. QED
  BY <1>2, <1>3, <1>4, <1>5, BatchKeepsInv, RowKeepsInv DEF Next, RunStep, RowStep

\* Every reachable state of runs, rows and catalog is well-typed.
THEOREM TypeCorrect == Spec => []TypeOK
<1>1. IInv => TypeOK
  BY DEF IInv
<1>2. QED
  BY <1>1, InitInv, NextInv, PTL DEF Spec

\* The types, what the catalog holds and what a run has behind it are
\* invariant, however runs, cancellations and crashes overlap.
THEOREM InductiveInvariant == Spec => []IInv
  BY InitInv, NextInv, PTL DEF Spec

-----------------------------------------------------------------------------
(* What the catalog gains and loses                                        *)

\* The items of a name that never had an external id.
Bare(n) == {x \in DOMAIN items : born[x] = None /\ items[x].name = n}

LEMMA BareIsFinite ==
  ASSUME TypeOK, NEW n
  PROVE  IsFiniteSet(Bare(n)) /\ Cardinality(Bare(n)) \in Nat
<1>1. IsFiniteSet(DOMAIN items)
  BY ItemsOf, FS_Interval
<1>2. IsFiniteSet(Bare(n))
  BY <1>1, FS_Subset DEF Bare
<1>3. QED
  BY <1>2, FS_CardinalityType

LEMMA OneAtLeast == \A k \in Nat : 1 <= 1 + k
  OBVIOUS

LEMMA BareGrows ==
  ASSUME IInv, NEW r \in Run, NEW i \in DOMAIN rows[r],
         \/ FindExistingCatalogItem(r, i) \/ CreateItem(r, i)
         \/ UpdateItem(r, i) \/ RowFails(r, i),
         NEW n, Cardinality(Bare(n)) <= 1 + races
  PROVE  Cardinality(Bare(n)') <= 1 + races'
<1>1. /\ TypeOK /\ ItemsInv
      /\ IsFiniteSet(Bare(n)) /\ Cardinality(Bare(n)) \in Nat
  BY BareIsFinite DEF IInv
<1>2. races \in Nat /\ races' \in Nat /\ races' >= races
  BY <1>1 DEF FindExistingCatalogItem, CreateItem, UpdateItem, RowFails,
              CountRace, TypeOK
<1>3. \A x \in DOMAIN items :
        /\ x \in DOMAIN items' /\ born'[x] = born[x]
        /\ born[x] = None => items'[x].name = items[x].name
  BY ItemsChange
<1>4. CASE DOMAIN items' = DOMAIN items
  <2>1. Bare(n)' = Bare(n)
    BY <1>3, <1>4 DEF Bare
  <2>2. QED
    BY <1>1, <1>2, <2>1
<1>5. CASE CreateItem(r, i)
  <2> DEFINE e == file[r][i]
             z == Len(items) + 1
  <2>1. /\ items' = Append(items, AsItem(e)) /\ born' = Append(born, e.key)
        /\ Matches(e) # {} => races' = races + 1
    BY <1>5 DEF CreateItem, CountRace
  <2>2. /\ items \in Seq(Item) /\ Len(items) \in Nat /\ DOMAIN items = 1 .. Len(items)
        /\ born \in Seq(Key \union {None}) /\ Len(born) = Len(items)
    BY <1>1, TypeFacts, ItemsOf DEF ItemsInv
  <2>3. AsItem(e).name = e.name
    BY DEF AsItem
  <2> HIDE DEF e
  <2>4. /\ DOMAIN items' = DOMAIN items \union {z}
        /\ items'[z] = AsItem(e) /\ born'[z] = e.key
    BY <2>1, <2>2
  <2> HIDE DEF z
  <2>5. CASE e.key = None /\ e.name = n
    <3>1. Bare(n)' = Bare(n) \union {z}
      BY <1>3, <2>3, <2>4, <2>5 DEF Bare
    <3>2. CASE Matches(e) = {}
      <4>1. Bare(n) = {}
        BY <2>5, <3>2 DEF Bare, Matches
      <4>2. Bare(n)' = {z}
        BY <3>1, <4>1
      <4>3. Cardinality(Bare(n)') = 1
        BY <4>2, FS_Singleton, Zenon
      <4>4. QED
        BY <1>2, <4>3, OneAtLeast, Zenon
    <3>3. CASE Matches(e) # {}
      <4>1. Cardinality(Bare(n)') =
              IF z \in Bare(n) THEN Cardinality(Bare(n)) ELSE Cardinality(Bare(n)) + 1
        <5>1. Cardinality(Bare(n) \union {z}) =
                IF z \in Bare(n) THEN Cardinality(Bare(n)) ELSE Cardinality(Bare(n)) + 1
          BY <1>1, FS_AddElement
        <5>2. QED
          BY <3>1, <5>1
      <4>2. Cardinality(Bare(n)') <= Cardinality(Bare(n)) + 1
        BY <1>1, <4>1
      <4>3. QED
        BY <1>1, <1>2, <2>1, <3>3, <4>1, <4>2
    <3>4. QED
      BY <3>2, <3>3
  <2>6. CASE ~(e.key = None /\ e.name = n)
    <3>1. Bare(n)' = Bare(n)
      BY <1>3, <2>3, <2>4, <2>6 DEF Bare
    <3>2. QED
      BY <1>1, <1>2, <3>1
  <2>7. QED
    BY <2>5, <2>6
<1>6. ~CreateItem(r, i) => DOMAIN items' = DOMAIN items
  BY DEF FindExistingCatalogItem, UpdateItem, RowFails
<1>7. QED
  BY <1>4, <1>5, <1>6

LEMMA CopiesByBare ==
  CopiesNeedRaces <=>
    /\ \A n \in Name : Cardinality(Bare(n)) <= 1 + races
    /\ \A x, y \in DOMAIN items :
         x # y /\ born[x] = born[y] => None \in {items[x].key, items[y].key}
  BY DEF CopiesNeedRaces, Bare

LEMMA NextCopies == IInv /\ CopiesNeedRaces /\ [Next]_vars => CopiesNeedRaces'
<1> SUFFICES ASSUME IInv, CopiesNeedRaces, [Next]_vars PROVE CopiesNeedRaces'
  OBVIOUS
<1>1. TypeOK /\ \A n \in Name : Cardinality(Bare(n)) <= 1 + races
  BY CopiesByBare DEF IInv
<1>2. ASSUME NEW r \in Run, NEW i \in DOMAIN rows[r],
             \/ FindExistingCatalogItem(r, i) \/ CreateItem(r, i)
             \/ UpdateItem(r, i) \/ RowFails(r, i)
      PROVE  \A n \in Name : Cardinality(Bare(n)') <= 1 + races'
  BY <1>1, <1>2, BareGrows
<1>3. ASSUME NEW r \in Run, DeactivateMissingSourceItems(r)
      PROVE  \A n \in Name : Cardinality(Bare(n)') <= 1 + races'
  <2>1. UNCHANGED <<born, races>>
    BY <1>3 DEF DeactivateMissingSourceItems
  <2>2. DOMAIN items' = DOMAIN items /\ \A x \in DOMAIN items : items'[x].name = items[x].name
    BY <1>1, <1>3, DeactivationKeeps
  <2>3. \A n \in Name : Bare(n)' = Bare(n)
    BY <2>1, <2>2 DEF Bare
  <2>4. QED
    BY <1>1, <2>1, <2>3
<1>4. ASSUME UNCHANGED <<items, born, races>>
      PROVE  \A n \in Name : Cardinality(Bare(n)') <= 1 + races'
  BY <1>1, <1>4 DEF Bare
<1>5. \A n \in Name : Cardinality(Bare(n)') <= 1 + races'
  BY <1>2, <1>3, <1>4
     DEF Next, RunStep, RowStep, CreateImport, CancelImport, Crash,
       ProcessCatalogImport, StartBatch, EndBatchCancelled, EndBatch,
       FinishImport, FailImport, vars
<1>6. \A x, y \in DOMAIN items' :
        x # y /\ born'[x] = born'[y] => None \in {items'[x].key, items'[y].key}
  <2>1. IInv'
    BY NextInv
  <2>2. /\ \A x \in DOMAIN items' : items'[x].key \in {born'[x], None}
        /\ \A x, y \in DOMAIN items' : items'[x].key = items'[y].key =>
             x = y \/ items'[x].key = None
    BY <2>1 DEF IInv, ItemsInv
  <2>3. QED
    BY <2>2
<1>7. QED
  BY <1>5, <1>6 DEF CopiesNeedRaces, Bare

\* A name is given a second item without an external id only by a row that
\* missed what another was about to create, and of the items created with one
\* external id no two still have it.
THEOREM CopiesComeFromRaces == Spec => []CopiesNeedRaces
  BY InitInv, NextInv, NextCopies, PTL DEF Spec

\* What a row writes is active.
LEMMA RowsActivate ==
  ASSUME IInv, NEW r \in Run, NEW i \in DOMAIN rows[r],
         \/ FindExistingCatalogItem(r, i) \/ CreateItem(r, i)
         \/ UpdateItem(r, i) \/ RowFails(r, i),
         NEW x \in DOMAIN items
  PROVE  items'[x].active \/ items'[x] = items[x]
<1>1. items \in Seq(Item) /\ x \in 1 .. Len(items) /\ Len(items) \in Nat
  BY TypeFacts, ItemsOf DEF IInv
<1>2. AsItem(file[r][i]).active
  BY DEF AsItem
<1>3. CASE CreateItem(r, i)
  BY <1>1, <1>3 DEF CreateItem
<1>4. CASE UpdateItem(r, i)
  BY <1>1, <1>2, <1>4 DEF UpdateItem
<1>5. QED
  BY <1>3, <1>4 DEF FindExistingCatalogItem, RowFails

LEMMA NextRemoves ==
  ASSUME IInv, [Next]_vars, NEW x \in DOMAIN items, items[x].active, ~items'[x].active
  PROVE  \E r \in Run : /\ mode[r] = "replace_source"
                        /\ Outcome(r, Success) = DOMAIN file[r]
                        /\ items[x].key \notin Listed(r)
                        /\ born[x] \in Listed(r) => items[x].key = None
<1>1. TypeOK /\ ItemsInv
  BY DEF IInv
<1>2. ASSUME NEW r \in Run, DeactivateMissingSourceItems(r)
      PROVE  /\ mode[r] = "replace_source"
             /\ Outcome(r, Success) = DOMAIN file[r]
             /\ items[x].key \notin Listed(r)
             /\ born[x] \in Listed(r) => items[x].key = None
  <2>1. /\ Outcome(r, Success) = DOMAIN file[r]
        /\ mode[r] = "replace_source" /\ Seen(r) = Listed(r)
    BY <1>2, ReplacedWhole
  <2>2. items[x].key \notin Seen(r)
    BY <1>1, <1>2, DeactivationKeeps
  <2>3. items[x].key \in {born[x], None}
    BY <1>1 DEF ItemsInv
  <2>4. QED
    BY <2>1, <2>2, <2>3
<1>3. items' # items
  OBVIOUS
<1>4. ASSUME NEW r \in Run, RowStep(r) PROVE FALSE
  BY <1>4, RowsActivate DEF RowStep
<1>5. QED
  BY <1>2, <1>3, <1>4
     DEF Next, RunStep, CreateImport, CancelImport, Crash,
       ProcessCatalogImport, StartBatch, EndBatchCancelled, EndBatch,
       FinishImport, FailImport, vars

\* An item leaves the catalog only to a run that replaces the source, has every
\* row behind it and none that failed, and does not list the external id the
\* item has, or had before a row without one took it away.
THEOREM OnlyReplacementRemoves == Spec => RemovedByReplacement
<1>1. IInv /\ [Next]_vars =>
        [\A x \in DOMAIN items : items[x].active /\ ~items'[x].active =>
           \E r \in Run : /\ mode[r] = "replace_source"
                          /\ Outcome(r, Success) = DOMAIN file[r]
                          /\ items[x].key \notin Listed(r)
                          /\ born[x] \in Listed(r) => items[x].key = None]_vars
  BY NextRemoves
<1>2. QED
  BY <1>1, InductiveInvariant, PTL DEF Spec, RemovedByReplacement

LEMMA NextIds ==
  ASSUME IInv, [Next]_vars, NEW x \in DOMAIN items, items[x].key # items'[x].key
  PROVE  \/ items'[x].key = born[x]
         \/ /\ items'[x].key = None
            /\ \E r \in Run : \E i \in DOMAIN rows[r] :
                 /\ rows[r][i] = "update" /\ rows'[r][i] = "updated"
                 /\ found[r][i] = x /\ file[r][i].key = None
<1>1. TypeOK /\ FoundInv
  BY DEF IInv
<1>2. items \in Seq(Item) /\ x \in 1 .. Len(items) /\ Len(items) \in Nat
  BY <1>1, TypeFacts, ItemsOf
<1> DEFINE Goal ==
       \/ items'[x].key = born[x]
       \/ /\ items'[x].key = None
          /\ \E r \in Run : \E i \in DOMAIN rows[r] :
               /\ rows[r][i] = "update" /\ rows'[r][i] = "updated"
               /\ found[r][i] = x /\ file[r][i].key = None
<1>3. ASSUME NEW r \in Run, NEW i \in DOMAIN rows[r], UpdateItem(r, i)
      PROVE  Goal
  <2>1. /\ rows[r][i] = "update"
        /\ items' = [items EXCEPT ![found[r][i]] = AsItem(file[r][i])]
        /\ RowBecomes(r, i, "updated", 0)
    BY <1>3 DEF UpdateItem
  <2>2. found[r][i] = x /\ items'[x].key = file[r][i].key
    BY <1>2, <2>1 DEF AsItem
  <2>3. rows'[r][i] = "updated"
    BY <1>1, <2>1, RowChange, States
  <2>4. file[r][i].key # None => born[x] = file[r][i].key
    BY <1>1, <2>1, <2>2 DEF FoundInv
  <2>5. QED
    BY <2>1, <2>2, <2>3, <2>4
<1>4. ASSUME NEW r \in Run, NEW i \in DOMAIN rows[r], CreateItem(r, i)
      PROVE  FALSE
  BY <1>2, <1>4 DEF CreateItem
<1>5. ASSUME NEW r \in Run, DeactivateMissingSourceItems(r)
      PROVE  FALSE
  BY <1>1, <1>5, DeactivationKeeps
<1>6. items' # items
  OBVIOUS
<1> HIDE DEF Goal
<1>7. Goal
  BY <1>3, <1>4, <1>5, <1>6
     DEF Next, RunStep, RowStep, CreateImport, CancelImport, Crash,
       ProcessCatalogImport, StartBatch, EndBatchCancelled, EndBatch,
       FinishImport, FailImport, FindExistingCatalogItem, RowFails, vars
<1>8. QED
  BY <1>7 DEF Goal

\* However rows overlap, an item never gets an external id but the one it had
\* at first, and loses that only to a row without that found it by its name.
THEOREM IdsLostToNames == Spec => IdsYieldToNames
<1>1. IInv /\ [Next]_vars =>
        [\A x \in DOMAIN items : items[x].key # items'[x].key =>
           \/ items'[x].key = born[x]
           \/ /\ items'[x].key = None
              /\ \E r \in Run : \E i \in DOMAIN rows[r] :
                   /\ rows[r][i] = "update" /\ rows'[r][i] = "updated"
                   /\ found[r][i] = x /\ file[r][i].key = None]_vars
  BY NextIds
<1>2. QED
  BY <1>1, InductiveInvariant, PTL DEF Spec, IdsYieldToNames

-----------------------------------------------------------------------------
(* What a run reports                                                      *)

\* A run that ends of itself has every row of its file behind it.
LEMMA Finished ==
  ASSUME IInv, NEW r \in Run, FinishImport(r)
  PROVE  /\ status[r] = "processing" /\ Settled(r)
         /\ DOMAIN rows[r] = DOMAIN file[r]
         /\ Outcome(r, Success) \union Outcome(r, {"failed"}) = DOMAIN file[r]
         /\ Outcome(r, Success \union {"failed"}) = DOMAIN file[r]
<1>1. TypeOK /\ RunInv
  BY DEF IInv
<1>2. status[r] = "processing" /\ Settled(r)
  <2>1. step[r] \in {"read", "replaced"}
    BY DEF FinishImport
  <2>2. QED
    BY <1>1, <2>1 DEF RunInv
<1>3. DOMAIN rows[r] = DOMAIN file[r]
  <2>1. CASE step[r] = "replaced"
    <3>1. Outcome(r, Success) = DOMAIN file[r] /\ Len(rows[r]) <= Len(file[r])
      BY <1>1, <2>1 DEF RunInv
    <3>2. QED
      BY <1>1, <3>1, RowsOf DEF Outcome
  <2>2. CASE AllRead(r)
    BY <1>1, <2>2, RowsOf DEF AllRead
  <2>3. QED
    BY <2>1, <2>2 DEF FinishImport
<1>4. \A i \in DOMAIN rows[r] : rows[r][i] \in Success \union {"failed"}
  BY <1>1, <1>2, RowsOf DEF Settled, Outcome, RowState
<1>5. QED
  BY <1>2, <1>3, <1>4 DEF Outcome

\* What a run deserves depends on its status, its rows and its file.
LEMMA DeservedStays ==
  ASSUME NEW r \in Run, Deserved(r), UNCHANGED file,
         status'[r] = status[r], rows'[r] = rows[r]
  PROVE  Deserved(r)'
  BY DEF Deserved, Outcome, Settled

LEMMA DeservedInit == Init => EndsAsDeserved
  BY DEF Init, EndsAsDeserved, Deserved

\* A row still at work is not one of a run that reports on all of its rows.
LEMMA FlightHasNoVerdict ==
  ASSUME IInv, NEW r \in Run, Deserved(r),
         NEW i \in DOMAIN rows[r], rows[r][i] \in InFlight
  PROVE  status[r] \notin {"success", "partial_success", "cancelled"}
<1>1. i \in DOMAIN file[r]
  BY RowsOf DEF IInv, RunInv
<1>2. /\ i \in Outcome(r, InFlight)
      /\ i \notin Outcome(r, Success)
      /\ i \notin Outcome(r, Success \union {"failed"})
  BY States DEF Outcome
<1>3. QED
  BY <1>1, <1>2 DEF Deserved, Settled

LEMMA NextDeserved == IInv /\ EndsAsDeserved /\ [Next]_vars => EndsAsDeserved'
<1> SUFFICES ASSUME IInv, EndsAsDeserved, [Next]_vars, NEW q \in Run
             PROVE  Deserved(q)'
  BY DEF EndsAsDeserved
<1>1. TypeOK /\ RunInv /\ Deserved(q)
  BY DEF IInv, EndsAsDeserved
<1>2. CASE UNCHANGED <<file, status, rows>>
  BY <1>1, <1>2, DeservedStays
<1>3. CASE status'[q] \notin {"success", "partial_success", "cancelled"}
  BY <1>3 DEF Deserved
<1>4. ASSUME NEW r \in Run, NEW i \in DOMAIN rows[r],
             \/ FindExistingCatalogItem(r, i) \/ CreateItem(r, i)
             \/ UpdateItem(r, i) \/ RowFails(r, i)
      PROVE  Deserved(q)'
  <2>1. /\ UNCHANGED <<file, status>>
        /\ rows[r][i] \in InFlight
        /\ \E o : rows' = [rows EXCEPT ![r][i] = o]
    BY <1>4, States DEF FindExistingCatalogItem, CreateItem, UpdateItem,
                        RowFails, RowBecomes, run
  <2>2. CASE q = r
    BY <1>1, <1>3, <2>1, <2>2, FlightHasNoVerdict
  <2>3. CASE q # r
    <3>1. rows'[q] = rows[q]
      BY <1>1, <2>1, <2>3, TypeFacts
    <3>2. QED
      BY <1>1, <2>1, <3>1, DeservedStays
  <2>4. QED
    BY <2>2, <2>3
<1>5. ASSUME NEW r \in Run, StartBatch(r)
      PROVE  Deserved(q)'
  <2>1. UNCHANGED <<file, status>> /\ status[r] = "processing"
    BY <1>1, <1>5 DEF StartBatch, RunInv, run
  <2>2. q # r => rows'[q] = rows[q]
    BY <1>1, <1>5, TypeFacts DEF StartBatch
  <2>3. QED
    BY <1>1, <1>3, <2>1, <2>2, DeservedStays
<1>6. ASSUME NEW r \in Run,
             \/ \E p \in Process : CreateImport(r, p)
             \/ ProcessCatalogImport(r)
             \/ EndBatchCancelled(r) \/ FinishImport(r) \/ FailImport(r)
      PROVE  Deserved(q)'
  <2>1. UNCHANGED <<file, rows>>
    BY <1>6 DEF CreateImport, ProcessCatalogImport, EndBatchCancelled,
                FinishImport, FailImport, run
  <2>2. PICK s : status' = [status EXCEPT ![r] = s]
    BY <1>6 DEF CreateImport, ProcessCatalogImport, EndBatchCancelled,
                FinishImport, FailImport, Ends
  <2>3. CASE q # r
    <3>1. status'[q] = status[q]
      BY <1>1, <2>2, <2>3, TypeFacts
    <3>2. QED
      BY <1>1, <2>1, <3>1, DeservedStays
  <2>4. CASE q = r /\ FinishImport(r)
    <3>1. status'[q] = Verdict(q)
      BY <1>1, <2>4, TypeFacts DEF FinishImport, Ends
    <3>2. /\ Outcome(q, Success) \union Outcome(q, {"failed"}) = DOMAIN file[q]
          /\ Outcome(q, Success \union {"failed"}) = DOMAIN file[q]
      BY <2>4, Finished
    <3>3. /\ Outcome(q, Success)' = Outcome(q, Success)
          /\ Outcome(q, {"failed"})' = Outcome(q, {"failed"})
          /\ Outcome(q, Success \union {"failed"})' = Outcome(q, Success \union {"failed"})
      BY <2>1 DEF Outcome
    <3>4. QED
      BY <2>1, <3>1, <3>2, <3>3 DEF Deserved, Verdict
  <2>5. CASE q = r /\ EndBatchCancelled(r)
    <3>1. status'[q] = "cancelled" /\ Settled(q)
      BY <1>1, <2>5, TypeFacts DEF EndBatchCancelled, Ends
    <3>2. QED
      BY <2>1, <3>1 DEF Deserved, Settled, Outcome
  <2>6. CASE q = r /\ ~FinishImport(r) /\ ~EndBatchCancelled(r)
    <3>1. status'[q] \in {"pending", "processing", "failed"}
      BY <1>1, <1>6, <2>6, TypeFacts
         DEF CreateImport, ProcessCatalogImport, FailImport, Ends
    <3>2. QED
      BY <1>3, <3>1
  <2>7. QED
    BY <2>3, <2>4, <2>5, <2>6
<1>7. ASSUME NEW r \in Run,
             \/ EndBatch(r) \/ DeactivateMissingSourceItems(r)
             \/ \E p \in Process : CancelImport(r, p)
      PROVE  Deserved(q)'
  BY <1>2, <1>7 DEF EndBatch, DeactivateMissingSourceItems, CancelImport, run
<1>8. ASSUME NEW p \in Process, Crash(p)
      PROVE  Deserved(q)'
  BY <1>2, <1>8 DEF Crash, run
<1>9. CASE UNCHANGED vars
  BY <1>2, <1>9 DEF vars
<1>10. QED
  BY <1>4, <1>5, <1>6, <1>7, <1>8, <1>9 DEF Next, RunStep, RowStep

\* What a run reports is what became of its rows, and no row that is still at
\* work makes it untrue later, for any number of runs, processes and files.
THEOREM EndsAreDeserved == Spec => []EndsAsDeserved
  BY DeservedInit, NextDeserved, InductiveInvariant, PTL DEF Spec

-----------------------------------------------------------------------------
(* Implementation of the contract                                          *)

\* A row writes as its mode allows.
ModeInv ==
  \A r \in Run : \A i \in DOMAIN rows[r] :
    /\ rows[r][i] = "create" => mode[r] # "update_only"
    /\ rows[r][i] = "update" => mode[r] # "create_only"

LEMMA InitMode == Init => ModeInv
  BY DEF Init, ModeInv

LEMMA NextMode == IInv /\ ModeInv /\ [Next]_vars => ModeInv'
<1> SUFFICES ASSUME IInv, ModeInv, [Next]_vars PROVE ModeInv'
  OBVIOUS
<1>1. TypeOK /\ RunInv
  BY DEF IInv
<1>2. ASSUME NEW r \in Run, NEW i \in DOMAIN rows[r],
             \/ FindExistingCatalogItem(r, i) \/ CreateItem(r, i)
             \/ UpdateItem(r, i) \/ RowFails(r, i)
      PROVE  ModeInv'
  <2>1. PICK o \in RowState, z \in Nat :
          /\ RowBecomes(r, i, o, z)
          /\ o = "create" => mode[r] # "update_only"
          /\ o = "update" => mode[r] # "create_only"
    <3>1. CASE FindExistingCatalogItem(r, i)
      BY <3>1, FindFinds
    <3>2. CASE CreateItem(r, i) \/ UpdateItem(r, i) \/ RowFails(r, i)
      BY <3>2, States DEF CreateItem, UpdateItem, RowFails
    <3>3. QED
      BY <1>2, <3>1, <3>2
  <2>2. \A q \in Run : /\ DOMAIN rows'[q] = DOMAIN rows[q]
                        /\ \A j \in DOMAIN rows[q] :
                             rows'[q][j] = IF q = r /\ j = i THEN o ELSE rows[q][j]
    BY <1>1, <2>1, RowChange
  <2>3. mode' = mode
    BY <1>2 DEF FindExistingCatalogItem, CreateItem, UpdateItem, RowFails, run
  <2>4. QED
    BY <2>1, <2>2, <2>3 DEF ModeInv
<1>3. ASSUME NEW r \in Run, StartBatch(r) PROVE ModeInv'
  <2>1. PICK n \in 1 .. BatchSize :
           /\ Len(rows[r]) + n <= Len(file[r])
           /\ rows' \in [Run -> Seq(RowState)]
           /\ Len(rows'[r]) = Len(rows[r]) + n
           /\ DOMAIN rows'[r] = 1 .. (Len(rows[r]) + n)
           /\ \A j \in DOMAIN rows[r] : rows'[r][j] = rows[r][j]
           /\ \A j \in (DOMAIN rows'[r]) \ DOMAIN rows[r] :
                rows'[r][j] = RowStart(r, file[r][j])
           /\ \A q \in Run \ {r} : rows'[q] = rows[q]
    BY <1>1, <1>3, BatchGrows, Zenon
  <2>2. \A row : RowStart(r, row) \notin {"create", "update"}
    BY DEF RowStart
  <2>3. mode' = mode
    BY <1>3 DEF StartBatch, run
  <2>4. QED
    BY <2>1, <2>2, <2>3, ZenonT(60) DEF ModeInv
<1>4. CASE UNCHANGED <<mode, rows>>
  BY <1>4 DEF ModeInv
<1>5. QED
  BY <1>2, <1>3, <1>4
     DEF Next, RunStep, RowStep, CreateImport, CancelImport, Crash,
       ProcessCatalogImport, EndBatchCancelled, EndBatch,
       DeactivateMissingSourceItems, FinishImport, FailImport, vars, run

\* The state of the contract.
Applied == [q \in Run |-> Outcome(q, Success)]
Refused == [q \in Run |-> Outcome(q, {"failed"})]

LEMMA ApplyRefines ==
  ASSUME NEW r \in Run, NEW i \in DOMAIN file[r],
         status[r] = "processing", UNCHANGED <<mode, file, status>>,
         file[r][i] \in Entry,
         i \notin Outcome(r, Success) \union Outcome(r, {"failed"}),
         Applied' = [Applied EXCEPT ![r] = @ \union {i}],
         Refused' = Refused,
         Contract!Effect(r, file[r][i])
  PROVE  Contract!KeepPromise
<1>1. Applied[r] = Outcome(r, Success) /\ Refused[r] = Outcome(r, {"failed"})
  BY DEF Applied, Refused
<1>2. Contract!Apply(r, i)
  BY <1>1, Zenon DEF Contract!Apply, Applied, Refused
<1>3. QED
  BY <1>2 DEF Contract!KeepPromise

LEMMA PassRefines ==
  ASSUME NEW r \in Run, status[r] = "processing",
         NEW passed, NEW refused,
         passed \in SUBSET (DOMAIN file[r] \
                       (Outcome(r, Success) \union Outcome(r, {"failed"}))),
         refused \in SUBSET (DOMAIN file[r] \
                       (Outcome(r, Success) \union Outcome(r, {"failed"}))),
         \A i \in passed : file[r][i] \notin Entry,
         passed \intersect refused = {},
         Applied' = [Applied EXCEPT ![r] = @ \union passed],
         Refused' = [Refused EXCEPT ![r] = @ \union refused],
         UNCHANGED <<mode, file, status, items>>
  PROVE  Contract!KeepPromise
<1>1. Applied[r] = Outcome(r, Success) /\ Refused[r] = Outcome(r, {"failed"})
  BY DEF Applied, Refused
<1>2. Contract!Pass(r)
  BY <1>1 DEF Contract!Pass, Applied, Refused
<1>3. QED
  BY <1>2 DEF Contract!KeepPromise

\* A row that succeeds or fails joins those that did.
LEMMA OutcomeChange ==
  ASSUME IInv, NEW r \in Run, NEW i \in DOMAIN rows[r], NEW o \in RowState,
         NEW x, rows[r][i] \in InFlight, RowBecomes(r, i, o, x)
  PROVE  /\ Applied' =
              [Applied EXCEPT ![r] =
                 @ \union IF o \in Success THEN {i} ELSE {}]
         /\ Refused' =
              [Refused EXCEPT ![r] =
                 @ \union IF o = "failed" THEN {i} ELSE {}]
         /\ i \notin Outcome(r, Success) \union Outcome(r, {"failed"})
         /\ i \in DOMAIN file[r]
<1>1. \A q \in Run : /\ DOMAIN rows'[q] = DOMAIN rows[q]
                      /\ \A j \in DOMAIN rows[q] :
                           rows'[q][j] = IF q = r /\ j = i THEN o ELSE rows[q][j]
  BY RowChange DEF IInv
<1>2. \A q \in Run : Outcome(q, Success)' = Outcome(q, Success) \union
                        IF q = r /\ o \in Success THEN {i} ELSE {}
  BY <1>1, States DEF Outcome
<1>3. \A q \in Run : Outcome(q, {"failed"})' = Outcome(q, {"failed"}) \union
                        IF q = r /\ o = "failed" THEN {i} ELSE {}
  BY <1>1, States DEF Outcome
<1>4. i \notin Outcome(r, Success) \union Outcome(r, {"failed"})
  BY States DEF Outcome
<1>5. i \in DOMAIN file[r]
  BY RowsOf DEF IInv, RunInv
<1>6. QED
  BY <1>2, <1>3, <1>4, <1>5, ZenonT(60) DEF Applied, Refused

\* Runs to which no row is added have the rows they had.
LEMMA NothingAdded ==
  ASSUME NEW r, NEW more, more = {},
         Applied' = [Applied EXCEPT ![r] = @ \union more],
         Refused' = [Refused EXCEPT ![r] = @ \union more]
  PROVE  Applied' = Applied /\ Refused' = Refused
<1>1. Applied' = Applied
  BY DEF Applied
<1>2. Refused' = Refused
  BY DEF Refused
<1>3. QED
  BY <1>1, <1>2

LEMMA SuccessChange ==
  ASSUME IInv, NEW r \in Run, NEW i \in DOMAIN rows[r], NEW o \in Success,
         NEW x, rows[r][i] \in InFlight, RowBecomes(r, i, o, x)
  PROVE  /\ Applied' = [Applied EXCEPT ![r] = @ \union {i}]
         /\ Refused' = Refused
<1>1. o \in RowState /\ o # "failed"
  BY States
<1>2. /\ Applied' = [Applied EXCEPT ![r] = @ \union {i}]
      /\ Refused' = [Refused EXCEPT ![r] = @ \union {}]
  BY <1>1, OutcomeChange
<1>3. QED
  BY <1>2 DEF Refused

\* What a row finds is what it names.
LEMMA MatchesAreNamed ==
  ASSUME NEW e
  PROVE  Contract!Named(e) = Matches(e) /\ Contract!New(e) = AsItem(e)
  BY DEF Contract!Named, Contract!New, Matches, AsItem

\* Without a race, a row of a batch takes effect at once or not at all.
LEMMA RowRefines ==
  ASSUME IInv, ModeInv, NEW r \in Run, NEW i \in DOMAIN rows[r],
         \/ FindExistingCatalogItem(r, i) \/ CreateItem(r, i)
         \/ UpdateItem(r, i) \/ RowFails(r, i),
         races = 0, races' = 0
  PROVE  Contract!KeepPromise \/ UNCHANGED Contract!vars
<1>1. TypeOK /\ RunInv
  BY DEF IInv
<1>2. rows[r][i] \in InFlight
  BY States DEF FindExistingCatalogItem, CreateItem, UpdateItem, RowFails
<1>3. /\ file[r][i] \in Entry /\ i \in DOMAIN file[r]
      /\ i \notin Outcome(r, Success) \union Outcome(r, {"failed"})
  BY <1>2, States, FlightInBatch DEF Outcome
<1>4. status[r] = "processing"
  BY DEF FindExistingCatalogItem, CreateItem, UpdateItem, RowFails, CountRace, Stray
<1>5. UNCHANGED <<mode, file, status>>
  BY DEF FindExistingCatalogItem, CreateItem, UpdateItem, RowFails, run
<1>6. CASE FindExistingCatalogItem(r, i)
  <2>1. PICK o \in RowState, z \in Nat :
           /\ RowBecomes(r, i, o, z)
           /\ o \in {"skipped", "create", "update"}
           /\ o = "skipped" => mode[r] = IF Matches(file[r][i]) = {} THEN "update_only"
                                        ELSE "create_only"
    BY <1>6, FindFinds
  <2>2. items' = items
    BY <1>6 DEF FindExistingCatalogItem
  <2>3. CASE o = "skipped"
    <3>1. Applied' = [Applied EXCEPT ![r] = @ \union {i}] /\ Refused' = Refused
      BY <1>2, <2>1, <2>3, SuccessChange, States
    <3>2. Contract!Effect(r, file[r][i])
      BY <2>1, <2>2, <2>3, MatchesAreNamed DEF Contract!Effect
    <3>3. QED
      BY <1>3, <1>4, <1>5, <3>1, <3>2, ApplyRefines, ZenonT(30)
  <2>4. CASE o # "skipped"
    <3>1. o \notin Success /\ o # "failed"
      BY <2>1, <2>4, States
    <3>2. /\ Applied' = [Applied EXCEPT ![r] = @ \union {}]
          /\ Refused' = [Refused EXCEPT ![r] = @ \union {}]
      BY <1>2, <2>1, <3>1, OutcomeChange
    <3>3. Applied' = Applied /\ Refused' = Refused
      BY <3>2, NothingAdded
    <3>4. QED
      BY <1>5, <2>2, <3>3 DEF Contract!vars, Applied, Refused
  <2>5. QED
    BY <2>3, <2>4
<1>7. CASE CreateItem(r, i)
  <2>1. /\ RowBecomes(r, i, "created", 0) /\ rows[r][i] = "create"
        /\ items' = Append(items, AsItem(file[r][i]))
        /\ Matches(file[r][i]) = {}
    BY <1>7 DEF CreateItem, CountRace
  <2>2. mode[r] # "update_only"
    BY <2>1 DEF ModeInv
  <2>3. Contract!Effect(r, file[r][i])
    BY <2>1, <2>2, MatchesAreNamed DEF Contract!Effect
  <2>4. Applied' = [Applied EXCEPT ![r] = @ \union {i}] /\ Refused' = Refused
    BY <1>2, <2>1, SuccessChange, States
  <2>5. QED
    BY <1>3, <1>4, <1>5, <2>3, <2>4, ApplyRefines, ZenonT(30)
<1>8. CASE UpdateItem(r, i)
  <2>1. /\ RowBecomes(r, i, "updated", 0) /\ rows[r][i] = "update"
        /\ items' = [items EXCEPT ![found[r][i]] = AsItem(file[r][i])]
        /\ found[r][i] \in Oldest(Matches(file[r][i]))
    BY <1>8 DEF UpdateItem, CountRace
  <2>2. mode[r] # "create_only"
    BY <2>1 DEF ModeInv
  <2>3. Contract!Effect(r, file[r][i])
    BY <2>1, <2>2, MatchesAreNamed DEF Contract!Effect, Oldest
  <2>4. Applied' = [Applied EXCEPT ![r] = @ \union {i}] /\ Refused' = Refused
    BY <1>2, <2>1, SuccessChange, States
  <2>5. QED
    BY <1>3, <1>4, <1>5, <2>3, <2>4, ApplyRefines, ZenonT(30)
<1>9. CASE RowFails(r, i)
  <2>1. RowBecomes(r, i, "failed", 0) /\ items' = items
    BY <1>9 DEF RowFails
  <2>2. Applied' = [Applied EXCEPT ![r] = @ \union {}]
    BY <1>2, <2>1, OutcomeChange, States
  <2>3. Refused' = [Refused EXCEPT ![r] = @ \union {i}]
    BY <1>2, <2>1, OutcomeChange, States
  <2>4. QED
    <3>1. /\ {} \in SUBSET (DOMAIN file[r] \
                       (Outcome(r, Success) \union Outcome(r, {"failed"})))
          /\ {i} \in SUBSET (DOMAIN file[r] \
                       (Outcome(r, Success) \union Outcome(r, {"failed"})))
          /\ \A j \in {} : file[r][j] \notin Entry
          /\ {} \intersect {i} = {}
          /\ UNCHANGED <<mode, file, status, items>>
      BY <1>3, <1>5, <2>1
    <3>2. QED
      BY <1>4, <2>2, <2>3, <3>1, PassRefines, ZenonT(30)
<1>10. QED
  BY <1>6, <1>7, <1>8, <1>9

\* A batch is read: what is passed over and what does not parse is settled.
LEMMA BatchRefines ==
  ASSUME IInv, NEW r \in Run, StartBatch(r)
  PROVE  Contract!KeepPromise
<1>1. TypeOK /\ RunInv
  BY DEF IInv
<1>2. PICK n \in 1 .. BatchSize :
           /\ Len(rows[r]) + n <= Len(file[r])
           /\ rows' \in [Run -> Seq(RowState)]
           /\ Len(rows'[r]) = Len(rows[r]) + n
           /\ DOMAIN rows'[r] = 1 .. (Len(rows[r]) + n)
           /\ \A j \in DOMAIN rows[r] : rows'[r][j] = rows[r][j]
           /\ \A j \in (DOMAIN rows'[r]) \ DOMAIN rows[r] :
                rows'[r][j] = RowStart(r, file[r][j])
           /\ \A q \in Run \ {r} : rows'[q] = rows[q]
  BY <1>1, BatchGrows, Zenon
<1> DEFINE new     == (DOMAIN rows'[r]) \ DOMAIN rows[r]
           passed  == {j \in new : RowStart(r, file[r][j]) \in Success}
           refused == {j \in new : RowStart(r, file[r][j]) = "failed"}
<1>3. /\ DOMAIN rows[r] \subseteq DOMAIN rows'[r]
      /\ new \subseteq DOMAIN file[r]
  BY <1>1, <1>2, RowsOf, ConstantsAssumption
<1>4. /\ Applied' = [Applied EXCEPT ![r] = @ \union passed]
      /\ Refused' = [Refused EXCEPT ![r] = @ \union refused]
  <2>1. Outcome(r, Success)' = Outcome(r, Success) \union passed
    BY <1>2, <1>3 DEF Outcome
  <2>2. Outcome(r, {"failed"})' = Outcome(r, {"failed"}) \union refused
    BY <1>2, <1>3 DEF Outcome
  <2>3. \A q \in Run \ {r} : /\ Outcome(q, Success)' = Outcome(q, Success)
                             /\ Outcome(q, {"failed"})' = Outcome(q, {"failed"})
    BY <1>2 DEF Outcome
  <2> HIDE DEF passed, refused
  <2>4. QED
    BY <2>1, <2>2, <2>3 DEF Applied, Refused
<1>5. /\ passed \in SUBSET (DOMAIN file[r] \
             (Outcome(r, Success) \union Outcome(r, {"failed"})))
      /\ refused \in SUBSET (DOMAIN file[r] \
             (Outcome(r, Success) \union Outcome(r, {"failed"})))
  BY <1>3 DEF Outcome
<1>6. \A j \in passed : file[r][j] \notin Entry
  <2>1. ASSUME NEW j \in passed PROVE file[r][j] \notin Entry
    <3>1. file[r][j] = Header
      BY <2>1, States DEF RowStart
    <3>2. QED
      BY <3>1, ConstantsAssumption
  <2>2. QED
    BY <2>1
<1>7. passed \intersect refused = {}
  BY States
<1>8. status[r] = "processing"
  BY <1>1 DEF StartBatch, RunInv
<1>9. UNCHANGED <<mode, file, status, items>>
  BY DEF StartBatch, run
<1> HIDE DEF passed, refused
<1>10. QED
  BY <1>4, <1>5, <1>6, <1>7, <1>8, <1>9, PassRefines, ZenonT(30)

\* A run moves on.
LEMMA RunRefines ==
  ASSUME IInv, NEW r \in Run,
         \/ \E p \in Process : CreateImport(r, p)
         \/ ProcessCatalogImport(r)
         \/ EndBatchCancelled(r) \/ FinishImport(r) \/ FailImport(r)
  PROVE  Contract!KeepPromise
<1>1. TypeOK /\ RunInv
  BY DEF IInv
<1>2. UNCHANGED <<mode, file, rows, items>>
  BY DEF CreateImport, ProcessCatalogImport, EndBatchCancelled, FinishImport,
         FailImport, Ends, run
<1>3. PICK s \in {"pending", "processing", "success", "partial_success",
                  "failed", "cancelled"} :
        /\ status' = [status EXCEPT ![r] = s]
        /\ status[r] \in {"none", "pending", "processing"}
        /\ status[r] = "none" <=> s = "pending"
        /\ status[r] = "pending" => s = "processing"
        /\ s = "success" => Outcome(r, Success) = DOMAIN file[r]
        /\ s = "partial_success" =>
             /\ Outcome(r, Success) \union Outcome(r, {"failed"}) = DOMAIN file[r]
             /\ Outcome(r, Success) # {} /\ Outcome(r, {"failed"}) # {}
  <2>1. CASE \E p \in Process : CreateImport(r, p)
    BY <2>1 DEF CreateImport
  <2>2. CASE ProcessCatalogImport(r)
    <3>1. status[r] = "pending"
      BY <1>1, <2>2, TypeFacts DEF ProcessCatalogImport, RunInv, Alive
    <3>2. QED
      BY <2>2, <3>1 DEF ProcessCatalogImport
  <2>3. CASE EndBatchCancelled(r)
    <3>1. status[r] = "processing"
      BY <1>1, <2>3 DEF EndBatchCancelled, RunInv
    <3>2. QED
      BY <2>3, <3>1 DEF EndBatchCancelled, Ends
  <2>4. CASE FinishImport(r)
    <3>1. /\ status[r] = "processing"
          /\ Outcome(r, Success) \union Outcome(r, {"failed"}) = DOMAIN file[r]
      BY <2>4, Finished
    <3>2. /\ Verdict(r) \in {"success", "partial_success", "failed"}
          /\ Verdict(r) = "success" => Outcome(r, {"failed"}) = {}
          /\ Verdict(r) = "partial_success" =>
               Outcome(r, Success) # {} /\ Outcome(r, {"failed"}) # {}
      BY DEF Verdict
    <3>3. status' = [status EXCEPT ![r] = Verdict(r)]
      BY <2>4 DEF FinishImport, Ends
    <3>4. QED
      BY <3>1, <3>2, <3>3
  <2>5. CASE FailImport(r)
    <3>1. status[r] = "processing"
      BY <1>1, <2>5 DEF FailImport, RunInv
    <3>2. QED
      BY <2>5, <3>1 DEF FailImport, Ends
  <2>6. QED
    BY <2>1, <2>2, <2>3, <2>4, <2>5
<1>4. Applied' = Applied /\ Refused' = Refused
  BY <1>2 DEF Applied, Refused, Outcome
<1>5. status'[r] = s
  BY <1>1, <1>3, TypeFacts
<1>6. Applied[r] = Outcome(r, Success) /\ Refused[r] = Outcome(r, {"failed"})
  BY DEF Applied, Refused
<1>7. Contract!Progress(r)
  BY <1>2, <1>3, <1>4, <1>5, <1>6
     DEF Contract!Progress, Applied, Refused
<1>8. QED
  BY <1>7 DEF Contract!KeepPromise

\* What a replacement does not list leaves the catalog.
LEMMA ReplaceRefines ==
  ASSUME IInv, NEW r \in Run, DeactivateMissingSourceItems(r)
  PROVE  Contract!KeepPromise
<1>1. TypeOK /\ RunInv
  BY DEF IInv
<1>2. /\ Outcome(r, Success) = DOMAIN file[r]
      /\ mode[r] = "replace_source" /\ Seen(r) = Listed(r)
  BY ReplacedWhole
<1>3. status[r] = "processing"
  BY <1>1 DEF DeactivateMissingSourceItems, RunInv
<1>4. Seen(r) = Contract!Listed(r)
  BY <1>2 DEF Listed, Contract!Listed
<1>5. items' = [x \in DOMAIN items |->
                  [items[x] EXCEPT !.active = @ /\ items[x].key \in Contract!Listed(r)]]
  BY <1>4 DEF DeactivateMissingSourceItems
<1>6. UNCHANGED <<mode, file, status, rows>>
  BY DEF DeactivateMissingSourceItems, run
<1>7. Applied' = Applied /\ Refused' = Refused
  BY <1>6 DEF Applied, Refused, Outcome
<1>8. Contract!Replace(r)
  BY <1>2, <1>3, <1>5, <1>6, <1>7, Zenon
     DEF Contract!Replace, Applied, Refused
<1>9. QED
  BY <1>8 DEF Contract!KeepPromise

\* Until a write rests on a stale read, imports implement the contract of the
\* catalog, for any number of runs, processes, products and files.
THEOREM Implementation == Spec => ImplementsContract
<1>1. IInv /\ Init => Contract!Init
  <2> SUFFICES ASSUME IInv, Init PROVE Contract!Init
    OBVIOUS
  <2>1. \A r \in Run : Outcome(r, Success) = {} /\ Outcome(r, {"failed"}) = {}
    BY DEF Init, Outcome
  <2>2. \A x, y \in DOMAIN items :
          items[x].key = items[y].key => x = y \/ items[x].key = None
    BY DEF IInv, ItemsInv
  <2>3. ~(races > 0)
    BY DEF Init
  <2>4. QED
    BY <2>1, <2>2, <2>3 DEF Contract!Init, Init
<1>2. IInv /\ ModeInv /\ [Next]_vars => [Contract!Next]_Contract!vars
  <2> SUFFICES ASSUME IInv, ModeInv, [Next]_vars
               PROVE  [Contract!Next]_Contract!vars
    OBVIOUS
  <2>1. races \in Nat /\ races' \in Nat /\ races <= races'
    <3>1. ASSUME NEW r \in Run, NEW i \in DOMAIN rows[r],
                 \/ FindExistingCatalogItem(r, i) \/ CreateItem(r, i)
                 \/ UpdateItem(r, i) \/ RowFails(r, i)
          PROVE  races' \in Nat /\ races <= races'
      BY <3>1 DEF FindExistingCatalogItem, CreateItem, UpdateItem, RowFails,
                  CountRace, IInv, TypeOK
    <3>2. CASE UNCHANGED races
      BY <3>2 DEF IInv, TypeOK
    <3>3. races \in Nat
      BY DEF IInv, TypeOK
    <3>4. QED
      BY <3>1, <3>2, <3>3
         DEF Next, RunStep, RowStep, CreateImport, CancelImport, Crash,
           ProcessCatalogImport, StartBatch, EndBatchCancelled, EndBatch,
           DeactivateMissingSourceItems, FinishImport, FailImport, vars
  <2>2. CASE races' > 0
    BY <2>2 DEF Contract!Next
  <2>3. CASE ~(races' > 0)
    <3>1. races' = 0 /\ races = 0
      BY <2>1, <2>3
    <3>2. Contract!KeepPromise \/ UNCHANGED Contract!vars
      <4>1. ASSUME NEW r \in Run, RowStep(r)
            PROVE  Contract!KeepPromise \/ UNCHANGED Contract!vars
        BY <3>1, <4>1, RowRefines DEF RowStep
      <4>2. ASSUME NEW r \in Run,
                   \/ RunStep(r) \/ FailImport(r)
                   \/ \E p \in Process : CreateImport(r, p),
                   ~EndBatch(r)
            PROVE  Contract!KeepPromise
        BY <4>2, BatchRefines, RunRefines, ReplaceRefines DEF RunStep
      <4>3. CASE UNCHANGED <<mode, file, status, rows, items, races>>
        BY <4>3 DEF Contract!vars, Outcome
      <4>4. ASSUME NEW r \in Run,
                   EndBatch(r) \/ \E p \in Process : CancelImport(r, p)
            PROVE  UNCHANGED <<mode, file, status, rows, items, races>>
        BY <4>4 DEF EndBatch, CancelImport, run
      <4>5. ASSUME NEW p \in Process, Crash(p)
            PROVE  UNCHANGED <<mode, file, status, rows, items, races>>
        BY <4>5 DEF Crash, run
      <4>6. CASE UNCHANGED vars
        BY <4>3, <4>6 DEF vars
      <4>7. QED
        BY <4>1, <4>2, <4>3, <4>4, <4>5, <4>6 DEF Next, RunStep
    <3>3. QED
      BY <3>1, <3>2 DEF Contract!Next
  <2>4. QED
    BY <2>2, <2>3
<1>3. Init => IInv
  BY InitInv
<1>4. QED
  BY <1>1, <1>2, <1>3, InitMode, NextInv, NextMode, PTL
     DEF Spec, ImplementsContract, Contract!Spec
=============================================================================

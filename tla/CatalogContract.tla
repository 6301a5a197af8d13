--------------------------- MODULE CatalogContract ---------------------------
(***************************************************************************)
(* What imports promise the catalog of a source, as if every row took      *)
(* effect at once: a row writes the item that has its external id, one     *)
(* without an external id the oldest item of its name, and either makes an *)
(* item if there is none, as the mode of its run allows, while the run is  *)
(* processing; a run succeeds with all its rows, and one that replaces the *)
(* source takes away what its file does not list, and only if no row has   *)
(* failed.  The promise is off once a write rests on a stale read.         *)
(***************************************************************************)
EXTENDS Integers, Sequences

CONSTANTS
  Run,      \* import runs
  Entry,    \* rows that name a product: its name, and its external id or None
  None      \* no external id

VARIABLES
  mode,      \* of each run
  file,      \* the products its rows name, and other rows
  status,    \* of each run
  applied,   \* its rows that took effect
  failed,    \* its rows that did not
  items,     \* of the catalog: name, external id, and whether it is offered
  excused    \* nothing is promised any more

vars == <<mode, file, status, applied, failed, items, excused>>

Listed(r) == {file[r][i].key : i \in {j \in DOMAIN file[r] : file[r][j] \in Entry}}
               \ {None}

Init ==
  /\ status = [r \in Run |-> "none"]
  /\ applied = [r \in Run |-> {}]
  /\ failed = [r \in Run |-> {}]
  /\ \A x, y \in DOMAIN items :
       items[x].key = items[y].key => x = y \/ items[x].key = None
  /\ excused = FALSE

\* Items that a row names.
Named(e) ==
  {x \in DOMAIN items : IF e.key # None THEN items[x].key = e.key
                        ELSE items[x].name = e.name}

\* The item as the row has it.
New(e) == [name |-> e.name, key |-> e.key, active |-> TRUE]

Effect(r, e) ==
  \/ /\ Named(e) = {} /\ mode[r] # "update_only"
     /\ items' = Append(items, New(e))
  \/ /\ mode[r] # "create_only"
     /\ \E x \in Named(e) : /\ \A y \in Named(e) : x <= y
                            /\ items' = [items EXCEPT ![x] = New(e)]
  \/ /\ mode[r] = IF Named(e) = {} THEN "update_only" ELSE "create_only"
     /\ UNCHANGED items

\* A row of a product takes effect.
Apply(r, i) ==
  /\ status[r] = "processing"
  /\ file[r][i] \in Entry /\ i \notin applied[r] \union failed[r]
  /\ applied' = [applied EXCEPT ![r] = @ \union {i}]
  /\ Effect(r, file[r][i])
  /\ UNCHANGED <<mode, file, status, failed>>

\* Rows that name no product are passed over, and others fail.
Pass(r) ==
  /\ status[r] = "processing"
  /\ \E passed, refused \in SUBSET (DOMAIN file[r] \ (applied[r] \union failed[r])) :
       /\ \A i \in passed : file[r][i] \notin Entry
       /\ passed \intersect refused = {}
       /\ applied' = [applied EXCEPT ![r] = @ \union passed]
       /\ failed' = [failed EXCEPT ![r] = @ \union refused]
  /\ UNCHANGED <<items, mode, file, status>>

\* What a replacing run does not list is offered no more.
Replace(r) ==
  /\ status[r] = "processing"
  /\ mode[r] = "replace_source"
  /\ applied[r] = DOMAIN file[r]
  /\ items' = [x \in DOMAIN items |->
                 [items[x] EXCEPT !.active = @ /\ items[x].key \in Listed(r)]]
  /\ UNCHANGED <<mode, file, status, applied, failed>>

\* A run moves on; it succeeds, in full or in part, once all rows are settled.
Progress(r) ==
  /\ \E s \in {"pending", "processing", "success", "partial_success",
               "failed", "cancelled"} : status' = [status EXCEPT ![r] = s]
  /\ status[r] \in {"none", "pending", "processing"}
  /\ status[r] = "none" <=> status'[r] = "pending"
  /\ status[r] = "pending" => status'[r] = "processing"
  /\ status'[r] = "success" => applied[r] = DOMAIN file[r]
  /\ status'[r] = "partial_success" =>
       /\ applied[r] \union failed[r] = DOMAIN file[r]
       /\ applied[r] # {} /\ failed[r] # {}
  /\ status[r] # "none" => UNCHANGED <<mode, file>>
  /\ UNCHANGED <<items, applied, failed>>

KeepPromise ==
  \E r \in Run :
    \/ \E i \in DOMAIN file[r] : Apply(r, i)
    \/ Pass(r)
    \/ Replace(r)
    \/ Progress(r)

Next == excused' \/ (KeepPromise /\ UNCHANGED excused)

Spec == Init /\ [][Next]_vars
=============================================================================

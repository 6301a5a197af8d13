------------------------------ MODULE ImportRun ------------------------------
(***************************************************************************)
(* Imports of catalog items from files, each run by the process of the     *)
(* server that accepted it.  A run reads its file in batches; the rows of  *)
(* a batch proceed in parallel, each looking its product up and later      *)
(* writing it by what it found.  A cancellation is remembered by the       *)
(* process that served it and looked at after a full batch.  A run that    *)
(* replaces the source deactivates what its file does not list, once all   *)
(* rows are done and none has failed.                                      *)
(*                                                                         *)
(* A row that names an external id finds the one item that has it; a row   *)
(* without finds the oldest item of its name, whatever id that has.  The   *)
(* item found is written whole, with the external id of the row or none.   *)
(*                                                                         *)
(* Left out: files of more than one source, images, progress, the texts of *)
(* errors, and edits of the catalog other than imports; a row may fail for *)
(* reasons that are not modelled.                                          *)
(***************************************************************************)
EXTENDS Integers, Sequences, FiniteSets

CONSTANTS
  Run,        \* import runs
  Process,    \* of the server
  Key,        \* external ids
  Name,       \* names of products, each with its category
  Header,     \* a row that repeats the header
  Invalid,    \* a row that does not parse
  Requests,   \* imports that may be asked for: a mode, and the rows of a file
  Catalogs,   \* items the catalog may have at first, oldest first
  BatchSize,  \* rows that proceed in parallel
  None,       \* no process, no external id
  MaxItems,   \* bound on the items of the catalog
  MaxRaces,   \* bound on writes that rest on a stale read
  MaxCancels  \* bound on the cancellations remembered at a time

Entry == [name : Name, key : Key \union {None}]
Item  == [name : Name, key : Key \union {None}, active : BOOLEAN]
Row   == Entry \union {Header, Invalid}
Mode  == {"upsert", "create_only", "update_only", "replace_source"}

\* No external id is there twice, and no name twice without one.
NoCopies(c) ==
  \A x, y \in DOMAIN c : c[x].key = c[y].key =>
    x = y \/ (c[x].key = None /\ c[x].name # c[y].name)

ASSUME ConstantsAssumption ==
  /\ Entry \intersect {Header, Invalid} = {}
  /\ Requests \subseteq Mode \X Seq(Row)
  /\ Catalogs \subseteq Seq(Item)
  /\ \A c \in Catalogs : NoCopies(c)
  /\ BatchSize \in Nat \ {0}
  /\ None \notin Process \union Key
  /\ MaxItems \in Nat
  /\ MaxRaces \in Nat
  /\ MaxCancels \in Nat

VARIABLES
  mode,       \* import_runs.mode
  file,       \* the rows of the uploaded file
  status,     \* import_runs.status; "none" before the run is created
  home,       \* the process that runs it; None once that has died
  step,       \* where processCatalogImport is
  rows,       \* rows read so far: what became of each
  found,      \* the item that a row is to write; 0 for none
  cancelled,  \* cancelledImports of each process
  items,      \* catalog_items, oldest first; never deleted
  born,       \* history: the external id each item had at first
  races       \* history: writes that rest on a stale read

run  == <<mode, file>>
vars == <<mode, file, status, home, step, rows, found, cancelled, items, born, races>>

Status == {"none", "pending", "processing", "success", "partial_success",
           "failed", "cancelled"}
Over   == {"success", "partial_success", "failed", "cancelled"}

Success  == {"skipped", "created", "updated"}
InFlight == {"look_up", "create", "update"}

TypeOK ==
  /\ mode \in [Run -> Mode]
  /\ file \in [Run -> Seq(Row)]
  /\ status \in [Run -> Status]
  /\ home \in [Run -> Process \union {None}]
  /\ step \in [Run -> {"idle", "read", "batch", "replaced", "ended"}]
  /\ rows \in [Run -> Seq(Success \union InFlight \union {"failed"})]
  /\ found \in [Run -> Seq(Nat)]
  /\ cancelled \in [Process -> SUBSET Run]
  /\ items \in Seq(Item)
  /\ born \in Seq(Key \union {None})
  /\ races \in Nat

Init ==
  /\ \E request \in [Run -> Requests] :
       /\ mode = [r \in Run |-> request[r][1]]
       /\ file = [r \in Run |-> request[r][2]]
  /\ status = [r \in Run |-> "none"]
  /\ home = [r \in Run |-> None]
  /\ step = [r \in Run |-> "idle"]
  /\ rows = [r \in Run |-> <<>>]
  /\ found = [r \in Run |-> [i \in DOMAIN file[r] |-> 0]]
  /\ cancelled = [p \in Process |-> {}]
  /\ items \in Catalogs
  /\ born = [x \in DOMAIN items |-> items[x].key]
  /\ races = 0

-----------------------------------------------------------------------------
(* The run                                                                 *)

Alive(r) == home[r] # None

Outcome(r, o) == {i \in DOMAIN rows[r] : rows[r][i] \in o}

AllRead(r) == Len(rows[r]) = Len(file[r])
Settled(r) == Outcome(r, InFlight) = {}

CreateImport(r, p) ==
  /\ status[r] = "none"
  /\ status' = [status EXCEPT ![r] = "pending"]
  /\ home' = [home EXCEPT ![r] = p]
  /\ UNCHANGED <<run, step, rows, found, cancelled, items, born, races>>

ProcessCatalogImport(r) ==
  /\ Alive(r) /\ step[r] = "idle"
  /\ status' = [status EXCEPT ![r] = "processing"]
  /\ step' = [step EXCEPT ![r] = "read"]
  /\ UNCHANGED <<run, home, rows, found, cancelled, items, born, races>>

\* A row starts: a repeated header is skipped, one that does not parse or, in
\* a run that replaces the source, names no external id fails.
RowStart(r, row) ==
  CASE row = Header  -> "skipped"
    [] row = Invalid -> "failed"
    [] row \in Entry /\ row.key = None /\ mode[r] = "replace_source" -> "failed"
    [] OTHER -> "look_up"

StartBatch(r) ==
  /\ Alive(r) /\ step[r] = "read" /\ ~AllRead(r)
  /\ \E n \in 1 .. BatchSize :
       /\ n = BatchSize \/ Len(rows[r]) + n = Len(file[r])
       /\ Len(rows[r]) + n <= Len(file[r])
       /\ rows' = [rows EXCEPT ![r] =
            @ \o [i \in 1 .. n |-> RowStart(r, file[r][Len(@) + i])]]
  /\ step' = [step EXCEPT ![r] = "batch"]
  /\ UNCHANGED <<run, status, home, found, cancelled, items, born, races>>

Ends(r, s) ==
  /\ status' = [status EXCEPT ![r] = s]
  /\ step' = [step EXCEPT ![r] = "ended"]

\* After a full batch the process looks for a cancellation.
BatchIsFull(r) == Len(rows[r]) % BatchSize = 0

EndBatchCancelled(r) ==
  /\ Alive(r) /\ step[r] = "batch" /\ Settled(r)
  /\ BatchIsFull(r) /\ r \in cancelled[home[r]]
  /\ cancelled' = [cancelled EXCEPT ![home[r]] = @ \ {r}]
  /\ Ends(r, "cancelled")
  /\ UNCHANGED <<run, home, rows, found, items, born, races>>

EndBatch(r) ==
  /\ Alive(r) /\ step[r] = "batch" /\ Settled(r)
  /\ ~(BatchIsFull(r) /\ r \in cancelled[home[r]])
  /\ step' = [step EXCEPT ![r] = "read"]
  /\ UNCHANGED <<run, status, home, rows, found, cancelled, items, born, races>>

\* The external ids the run has seen, of rows that failed later too.
Seen(r) == {file[r][i].key : i \in {j \in DOMAIN rows[r] : file[r][j] \in Entry}}
             \ {None}

AnyMayReplace(r) == TRUE
MayReplace(r)    == Outcome(r, {"failed"}) = {}

Replaces(r) == mode[r] = "replace_source" /\ MayReplace(r)

DeactivateMissingSourceItems(r) ==
  /\ Alive(r) /\ step[r] = "read" /\ AllRead(r) /\ Replaces(r)
  /\ Seen(r) # {}
  /\ items' = [x \in DOMAIN items |->
                 [items[x] EXCEPT !.active = @ /\ items[x].key \in Seen(r)]]
  /\ step' = [step EXCEPT ![r] = "replaced"]
  /\ UNCHANGED <<run, status, home, rows, found, cancelled, born, races>>

VerdictOfAny(r) ==
  IF Outcome(r, Success) # {} THEN "success" ELSE "failed"
Verdict(r) ==
  IF Outcome(r, {"failed"}) = {} THEN "success"
  ELSE IF Outcome(r, Success) # {} THEN "partial_success" ELSE "failed"

FinishImport(r) ==
  /\ Alive(r)
  /\ \/ step[r] = "replaced"
     \/ step[r] = "read" /\ AllRead(r) /\ ~Replaces(r)
  /\ Ends(r, Verdict(r))
  /\ UNCHANGED <<run, home, rows, found, cancelled, items, born, races>>

\* The file cannot be read on, an error cannot be saved or a replacement has
\* no source; rows in flight go on.
FailImport(r) ==
  /\ Alive(r) /\ step[r] \in {"read", "batch", "replaced"}
  /\ Ends(r, "failed")
  /\ UNCHANGED <<run, home, rows, found, cancelled, items, born, races>>

-----------------------------------------------------------------------------
(* Rows                                                                    *)

CountRace(stale) ==
  IF stale THEN races < MaxRaces /\ races' = races + 1 ELSE UNCHANGED races

\* The run is over, and its row goes on.
Stray(r) == status[r] # "processing"

RowBecomes(r, i, o, x) ==
  /\ rows' = [rows EXCEPT ![r][i] = o]
  /\ found' = [found EXCEPT ![r][i] = x]

MatchesEither(e) ==
  {x \in DOMAIN items : \/ e.key # None /\ items[x].key = e.key
                        \/ items[x].name = e.name}
Matches(e) ==
  {x \in DOMAIN items : IF e.key # None THEN items[x].key = e.key
                        ELSE items[x].name = e.name}
Oldest(X) == {x \in X : \A y \in X : x <= y}

\* findExistingCatalogItem, and what the mode makes of it.
FindExistingCatalogItem(r, i) ==
  LET e == file[r][i]
  IN  /\ rows[r][i] = "look_up"
      /\ \/ /\ Matches(e) = {}
            /\ RowBecomes(r, i, IF mode[r] = "update_only" THEN "skipped"
                                ELSE "create", 0)
         \/ \E x \in Oldest(Matches(e)) :
              IF mode[r] = "create_only" THEN RowBecomes(r, i, "skipped", 0)
              ELSE RowBecomes(r, i, "update", x)
      /\ CountRace(Stray(r))
      /\ UNCHANGED <<run, status, home, step, cancelled, items, born>>

\* An external id is unique.
FitsAny(e, x) == TRUE
Fits(e, x)    ==
  e.key # None => \A y \in DOMAIN items : items[y].key = e.key => y = x

\* mapCatalogRow: the row is written whole, its external id or none included.
AsItem(e) == [name |-> e.name, key |-> e.key, active |-> TRUE]

CreateItem(r, i) ==
  LET e == file[r][i]
  IN  /\ rows[r][i] = "create"
      /\ Fits(e, 0) /\ Len(items) < MaxItems
      /\ items' = Append(items, AsItem(e))
      /\ born' = Append(born, e.key)
      /\ RowBecomes(r, i, "created", 0)
      /\ CountRace(Matches(e) # {} \/ Stray(r))
      /\ UNCHANGED <<run, status, home, step, cancelled>>

UpdateItem(r, i) ==
  LET e == file[r][i]
      x == found[r][i]
  IN  /\ rows[r][i] = "update"
      /\ Fits(e, x)
      /\ items' = [items EXCEPT ![x] = AsItem(e)]
      /\ RowBecomes(r, i, "updated", 0)
      /\ CountRace(x \notin Oldest(Matches(e)) \/ Stray(r))
      /\ UNCHANGED <<run, status, home, step, cancelled, born>>

\* An image is missing, a value is refused, the external id is taken by now,
\* or the database fails.
RowFails(r, i) ==
  /\ rows[r][i] \in InFlight
  /\ RowBecomes(r, i, "failed", 0)
  /\ CountRace(Stray(r))
  /\ UNCHANGED <<run, status, home, step, cancelled, items, born>>

-----------------------------------------------------------------------------
(* Cancellations and crashes                                               *)

\* Any process may serve it, and only that one remembers it.
CancelImport(r, p) ==
  /\ status[r] \in {"pending", "processing"}
  /\ cancelled' = [cancelled EXCEPT ![p] = @ \union {r}]
  /\ Cardinality({x \in Process \X Run : x[2] \in cancelled'[x[1]]}) <= MaxCancels
  /\ UNCHANGED <<run, status, home, step, rows, found, items, born, races>>

\* A process dies with its runs; nobody takes them over.
Crash(p) ==
  /\ home' = [r \in Run |-> IF home[r] = p THEN None ELSE home[r]]
  /\ cancelled' = [cancelled EXCEPT ![p] = {}]
  /\ UNCHANGED <<run, status, step, rows, found, items, born, races>>

-----------------------------------------------------------------------------

RowStep(r) ==
  Alive(r) /\
  \E i \in DOMAIN rows[r] :
    \/ FindExistingCatalogItem(r, i)
    \/ CreateItem(r, i)
    \/ UpdateItem(r, i)
    \/ RowFails(r, i)

RunStep(r) ==
  \/ ProcessCatalogImport(r)
  \/ StartBatch(r)
  \/ EndBatchCancelled(r)
  \/ EndBatch(r)
  \/ DeactivateMissingSourceItems(r)
  \/ FinishImport(r)

Next ==
  \/ \E r \in Run, p \in Process : CreateImport(r, p) \/ CancelImport(r, p)
  \/ \E r \in Run : RunStep(r) \/ FailImport(r) \/ RowStep(r)
  \/ \E p \in Process : Crash(p)

Spec == Init /\ [][Next]_vars

-----------------------------------------------------------------------------
(* Properties                                                              *)

\* External ids of the file.
Listed(r) == {file[r][i].key : i \in {j \in DOMAIN file[r] : file[r][j] \in Entry}}
               \ {None}

\* However runs overlap, an item leaves the catalog only to a run that replaces
\* the source, has every row behind it and none that failed, and does not list
\* the external id the item has; it lists the one the item had at first only if
\* a row without has taken that away.
RemovedByReplacement ==
  [][\A x \in DOMAIN items : items[x].active /\ ~items'[x].active =>
       \E r \in Run : /\ mode[r] = "replace_source"
                      /\ Outcome(r, Success) = DOMAIN file[r]
                      /\ items[x].key \notin Listed(r)
                      /\ born[x] \in Listed(r) => items[x].key = None]_vars

\* However rows overlap, an item never gets an external id but the one it had
\* at first, and loses that only to a row without that found it by its name.
IdsYieldToNames ==
  [][\A x \in DOMAIN items : items[x].key # items'[x].key =>
       \/ items'[x].key = born[x]
       \/ /\ items'[x].key = None
          /\ \E r \in Run : \E i \in DOMAIN rows[r] :
               /\ rows[r][i] = "update" /\ rows'[r][i] = "updated"
               /\ found[r][i] = x /\ file[r][i].key = None]_vars

\* A name is given a second item without an external id only by a row that
\* missed what another was about to create, and of the items created with one
\* external id no two still have it.
CopiesNeedRaces ==
  /\ \A n \in Name :
       Cardinality({x \in DOMAIN items : born[x] = None /\ items[x].name = n}) <= 1 + races
  /\ \A x, y \in DOMAIN items :
       x # y /\ born[x] = born[y] => None \in {items[x].key, items[y].key}

\* However runs overlap, are cancelled or die, what a run reports is what became
\* of its rows, and stays so: it succeeds with all of them, in part with some
\* and none left open, and is cancelled with no row still at work.
Deserved(r) ==
  /\ status[r] = "success" => Outcome(r, Success) = DOMAIN file[r]
  /\ status[r] = "partial_success" =>
       /\ Outcome(r, Success) # {} /\ Outcome(r, {"failed"}) # {}
       /\ Outcome(r, Success \union {"failed"}) = DOMAIN file[r]
  /\ status[r] = "cancelled" => Settled(r)
EndsAsDeserved == \A r \in Run : Deserved(r)

\* Until a write rests on a stale read, rows take effect as if at once, and a
\* run ends as its rows deserve.
Contract == INSTANCE CatalogContract
              WITH applied <- [r \in Run |-> Outcome(r, Success)],
                   failed  <- [r \in Run |-> Outcome(r, {"failed"})],
                   excused <- (races > 0)
ImplementsContract == Contract!Spec

-----------------------------------------------------------------------------
(* The inductive invariant                                                 *)

\* An item has the external id it had at first, or none, and shares it with
\* no other.
ItemsInv ==
  /\ DOMAIN born = DOMAIN items
  /\ \A x \in DOMAIN items : items[x].key \in {born[x], None}
  /\ \A x, y \in DOMAIN items : items[x].key = items[y].key =>
       x = y \/ items[x].key = None

\* A row is to write an item that is there, and that had the external id of the
\* row at first, if the row has one; an item that never had one has the name of
\* every row that is to write it.
FoundInv ==
  \A r \in Run :
    /\ DOMAIN found[r] = DOMAIN file[r]
    /\ \A i \in DOMAIN rows[r] : rows[r][i] = "update" =>
         LET e == file[r][i]
             x == found[r][i]
         IN  /\ x \in DOMAIN items
             /\ e.key # None => born[x] = e.key
             /\ born[x] = None => items[x].name = e.name

\* Rows are those of the file, and in flight only during their batch or once
\* the run is over.
RunInv ==
  \A r \in Run :
    /\ Len(rows[r]) <= Len(file[r])
    /\ step[r] = "idle" => status[r] \in {"none", "pending"} /\ rows[r] = <<>>
    /\ step[r] \in {"read", "batch", "replaced"} => status[r] = "processing"
    /\ step[r] = "ended" => status[r] \in Over
    /\ step[r] \in {"read", "replaced"} => Settled(r)
    /\ step[r] = "replaced" => Outcome(r, Success) = DOMAIN file[r]
    /\ status[r] = "none" => home[r] = None
    /\ \A i \in DOMAIN rows[r] :
         /\ rows[r][i] \in InFlight => file[r][i] \in Entry
         /\ mode[r] = "replace_source" /\ file[r][i] \in Entry /\ file[r][i].key = None
              => rows[r][i] = "failed"

IInv ==
  /\ TypeOK
  /\ ItemsInv
  /\ FoundInv
  /\ RunInv
=============================================================================

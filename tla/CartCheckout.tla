---------------------------- MODULE CartCheckout ----------------------------
(***************************************************************************)
(* A storefront cart draft: one row of storefront_cart_drafts with its     *)
(* items and its prescription file, the edits a customer makes to it, the  *)
(* checkout calls that turn it into an order, and the worker that deletes  *)
(* it once it has expired.                                                 *)
(*                                                                         *)
(* A call runs in READ COMMITTED transactions that read the draft, then    *)
(* write it with a conditional update.  What a transaction wrote shows at  *)
(* its commit and a second writer of the row waits for it, so the write    *)
(* and the commit are one step; the reads are steps of their own.          *)
(* A checkout claims the draft in one transaction, places the order in     *)
(* another, and releases its claim in a third when it could not.           *)
(*                                                                         *)
(* A call that is refused before it wrote anything changes nothing and has *)
(* no action.  Drafts are independent: the model is of one of them.        *)
(***************************************************************************)
EXTENDS Integers, FiniteSets

CONSTANTS
  Checkout,    \* checkout calls, which name the orders they place
  Edit,        \* edit calls, which name what they write and upload
  None,        \* SQL NULL, or what the draft held at first
  MaxOverruns  \* bound on checkouts still at work when their claim times out

ASSUME ConstantsAssumption ==
  /\ None \notin Checkout \union Edit
  /\ IsFiniteSet(Checkout)
  /\ MaxOverruns \in Nat

VARIABLES
  exists,     \* draft: the row has not been deleted
  expired,    \* draft: expires_at has passed
  claim,      \* draft: checkout_started_at, NULL, recent or timed out
  completed,  \* draft: completed_order_id
  contents,   \* draft: the save that wrote its columns
  items,      \* draft: the save that wrote its item rows
  path,       \* draft: prescription_file_path, named after its upload
  files,      \* disk: the prescription files in the upload directory
  doomed,     \* files some process will delete, its transaction committed
  stage,      \* checkout: where each call is
  seen,       \* checkout: the draft as the call read it
  answer,     \* checkout: the order the call returned
  editing,    \* edit: where each call is
  previous,   \* edit: prescription_file_path as the call read it
  ordered,    \* orders: the checkouts that placed one, from what they saw
  claimant,   \* history: the last call to claim the draft
  raced,      \* history: an edit committed between a call's read and claim
  overruns    \* history: claims that timed out on a checkout at work

draftVars    == <<exists, expired, claim, completed, contents, items, path>>
fileVars     == <<files, doomed>>
checkoutVars == <<stage, seen, answer>>
editVars     == <<editing, previous>>
historyVars  == <<claimant, raced, overruns>>
vars         == <<draftVars, fileVars, checkoutVars, editVars, ordered,
                  historyVars>>

Kind     == {"save", "attach", "remove"}
Stage    == {"idle", "read", "loaded", "claimed", "checked", "ordered",
             "failing", "returned", "failed"}
Snapshot == [contents : Edit \union {None},
             items    : Edit \union {None},
             path     : Edit \union {None}]

TypeOK ==
  /\ exists \in BOOLEAN
  /\ expired \in BOOLEAN
  /\ claim \in {"none", "recent", "stale"}
  /\ completed \in Checkout \union {None}
  /\ contents \in Edit \union {None}
  /\ items \in Edit \union {None}
  /\ path \in Edit \union {None}
  /\ files \subseteq Edit
  /\ doomed \subseteq Edit
  /\ stage \in [Checkout -> Stage]
  /\ seen \in [Checkout -> Snapshot]
  /\ answer \in [Checkout -> Checkout \union {None}]
  /\ editing \in [Edit -> Kind \union {"idle", "done"}]
  /\ previous \in [Edit -> Edit \union {None}]
  /\ ordered \subseteq Checkout
  /\ claimant \in Checkout \union {None}
  /\ raced \in [Checkout -> BOOLEAN]
  /\ overruns \in Nat

Init ==
  /\ exists = TRUE
  /\ expired = FALSE
  /\ claim = "none"
  /\ completed = None
  /\ contents = None
  /\ items = None
  /\ path = None
  /\ files = {}
  /\ doomed = {}
  /\ stage = [c \in Checkout |-> "idle"]
  /\ seen = [c \in Checkout |->
               [contents |-> None, items |-> None, path |-> None]]
  /\ answer = [c \in Checkout |-> None]
  /\ editing = [e \in Edit |-> "idle"]
  /\ previous = [e \in Edit |-> None]
  /\ ordered = {}
  /\ claimant = None
  /\ raced = [c \in Checkout |-> FALSE]
  /\ overruns = 0

\* findDraft finds the row.
Found == exists /\ ~expired

\* The condition of every conditional update: the draft is not completed, and
\* no checkout holds a recent claim on it.
UpdatableEvenIfCompleted == exists /\ claim # "recent"
UpdatableIfUnclaimed     == exists /\ completed = None /\ claim = "none"
UpdatableWhoeverClaims   == exists /\ completed = None
Updatable == exists /\ completed = None /\ claim # "recent"

\* Checkout calls that may hold a claim.
Working == {c \in Checkout : stage[c] \in {"claimed", "checked", "failing"}}

-----------------------------------------------------------------------------
(* Edits                                                                   *)

\* The transaction of an edit reads the draft.  The upload of an attachment is
\* on disk before.  (A save that finds a completed draft creates another one.)
BeginEdit(e, kind) ==
  /\ editing[e] = "idle"
  /\ Found
  /\ completed = None
  /\ claim # "recent"
  /\ editing' = [editing EXCEPT ![e] = kind]
  /\ previous' = [previous EXCEPT ![e] = path]
  /\ files' = IF kind = "attach" THEN files \union {e} ELSE files
  /\ UNCHANGED <<draftVars, doomed, checkoutVars, ordered, historyVars>>

\* An edit's conditional update and its commit.
CommitEdit(e) ==
  /\ Updatable
  /\ expired' = FALSE
  /\ editing' = [editing EXCEPT ![e] = "done"]
  /\ raced' = [c \in Checkout |->
                 raced[c] \/ stage[c] \in {"read", "loaded"}]
  /\ UNCHANGED <<exists, completed, files, checkoutVars, previous, ordered,
                 claimant, overruns>>

SaveDraft(e) ==
  /\ editing[e] = "save"
  /\ CommitEdit(e)
  /\ contents' = e
  /\ items' = e
  /\ claim' = "none"
  /\ UNCHANGED <<path, doomed>>

AttachPrescription(e) ==
  /\ editing[e] = "attach"
  /\ CommitEdit(e)
  /\ path' = e
  /\ doomed' = doomed \union ({previous[e]} \ {None})
  /\ UNCHANGED <<claim, contents, items>>

RemoveFileOnly(e) ==
  /\ editing[e] = "remove"
  /\ CommitEdit(e)
  /\ doomed' = doomed \union ({previous[e]} \ {None})
  /\ UNCHANGED <<claim, contents, items, path>>
RemovePrescription(e) ==
  /\ editing[e] = "remove"
  /\ CommitEdit(e)
  /\ path' = None
  /\ doomed' = doomed \union ({previous[e]} \ {None})
  /\ UNCHANGED <<claim, contents, items>>

\* The update matches no row, or the transaction fails: a new upload goes.
RefuseEdit(e) ==
  /\ editing[e] \in Kind
  /\ editing' = [editing EXCEPT ![e] = "done"]
  /\ doomed' = IF editing[e] = "attach" THEN doomed \union {e} ELSE doomed
  /\ UNCHANGED <<draftVars, files, checkoutVars, previous, ordered,
                 historyVars>>

\* deleteDraftFile and deleteUpload, after the commit that made a file useless.
DeleteFile(e) ==
  /\ e \in doomed
  /\ files' = files \ {e}
  /\ doomed' = doomed \ {e}
  /\ UNCHANGED <<draftVars, checkoutVars, editVars, ordered, historyVars>>

\* The process dies first, or the deletion fails: the file stays.
ForgetFile(e) ==
  /\ e \in doomed
  /\ doomed' = doomed \ {e}
  /\ UNCHANGED <<draftVars, files, checkoutVars, editVars, ordered,
                 historyVars>>

-----------------------------------------------------------------------------
(* Checkout                                                                *)

Move(c, s) == stage' = [stage EXCEPT ![c] = s]

\* findDraft reads the row, then its items with a statement of its own.
ReadDraft(c) ==
  /\ stage[c] = "idle"
  /\ Found
  /\ completed = None
  /\ Move(c, "read")
  /\ seen' = [seen EXCEPT ![c] =
               [contents |-> contents, items |-> None, path |-> path]]
  /\ UNCHANGED <<draftVars, fileVars, answer, editVars, ordered, historyVars>>

ReadItems(c) ==
  /\ stage[c] = "read"
  /\ Move(c, "loaded")
  /\ seen' = [seen EXCEPT ![c] = [@ EXCEPT !.items = items]]
  /\ UNCHANGED <<draftVars, fileVars, answer, editVars, ordered, historyVars>>

\* The draft is completed: the call returns the order it led to.
ReturnCompleted(c) ==
  /\ stage[c] = "idle"
  /\ Found
  /\ completed # None
  /\ Move(c, "returned")
  /\ answer' = [answer EXCEPT ![c] = completed]
  /\ UNCHANGED <<draftVars, fileVars, seen, editVars, ordered, historyVars>>

\* The conditional update that claims the draft, and its commit.
Claim(c) ==
  /\ stage[c] = "loaded"
  /\ Updatable
  /\ claim' = "recent"
  /\ claimant' = c
  /\ Move(c, "claimed")
  /\ UNCHANGED <<exists, expired, completed, contents, items, path, fileVars,
                 seen, answer, editVars, ordered, raced, overruns>>

Conflict(c) ==
  /\ stage[c] = "loaded"
  /\ ~Updatable
  /\ Move(c, "failed")
  /\ UNCHANGED <<draftVars, fileVars, seen, answer, editVars, ordered,
                 historyVars>>

\* The cart's contents are accepted, and the prescription file is on disk.
CheckPrescription(c) ==
  /\ stage[c] = "claimed"
  /\ seen[c].path \in files \union {None}
  /\ Move(c, "checked")
  /\ UNCHANGED <<draftVars, fileVars, seen, answer, editVars, ordered,
                 historyVars>>

\* The cart is empty, a file is missing, the store is closed, the transaction
\* of the order fails...: whatever is thrown, the claim will be released.
Fail(c) ==
  /\ stage[c] \in {"claimed", "checked", "ordered"}
  /\ Move(c, "failing")
  /\ UNCHANGED <<draftVars, fileVars, seen, answer, editVars, ordered,
                 historyVars>>

\* The update of the draft that ends the transaction of the order (it throws,
\* and the transaction rolls back, when the draft has been deleted).
RowToCompleteIfAny == TRUE
RowToComplete      == exists

CreateOrder(c) ==
  /\ stage[c] = "checked"
  /\ RowToComplete
  /\ ordered' = ordered \union {c}
  /\ completed' = c
  /\ claim' = "none"
  /\ Move(c, "ordered")
  /\ UNCHANGED <<exists, expired, contents, items, path, fileVars, seen,
                 answer, editVars, historyVars>>

ReturnOrder(c) ==
  /\ stage[c] = "ordered"
  /\ Move(c, "returned")
  /\ answer' = [answer EXCEPT ![c] = c]
  /\ UNCHANGED <<draftVars, fileVars, seen, editVars, ordered, historyVars>>

\* The claim is released whoever holds it, unless the draft is completed.
AfterRelease == IF exists /\ completed = None THEN "none" ELSE claim

ReleaseClaim(c) ==
  /\ stage[c] = "failing"
  /\ claim' = AfterRelease
  /\ Move(c, "failed")
  /\ UNCHANGED <<exists, expired, completed, contents, items, path, fileVars,
                 seen, answer, editVars, ordered, historyVars>>

\* The process dies, or the release fails too.
Crash(c) ==
  /\ stage[c] \notin {"idle", "returned", "failed"}
  /\ Move(c, "failed")
  /\ UNCHANGED <<draftVars, fileVars, seen, answer, editVars, ordered,
                 historyVars>>

-----------------------------------------------------------------------------
(* Time                                                                    *)

\* CHECKOUT_LOCK_TIMEOUT_MS after it was taken, a claim no longer holds: freely
\* when its call is over, as an overrun when it is still at work.
ClaimTimesOut ==
  /\ claim = "recent"
  /\ claim' = "stale"
  /\ IF claimant \in Working
     THEN overruns < MaxOverruns /\ overruns' = overruns + 1
     ELSE UNCHANGED overruns
  /\ UNCHANGED <<exists, expired, completed, contents, items, path, fileVars,
                 checkoutVars, editVars, ordered, claimant, raced>>

Expire ==
  /\ exists
  /\ ~expired
  /\ expired' = TRUE
  /\ UNCHANGED <<exists, claim, completed, contents, items, path, fileVars,
                 checkoutVars, editVars, ordered, historyVars>>

\* The files that go with a deleted draft: an order keeps its own.
LeftFilesOfAny == {path} \ {None}
LeftFiles      == IF completed = None THEN {path} \ {None} ELSE {}

\* The cleanup worker deletes the expired row, even one that is claimed.
Cleanup ==
  /\ exists
  /\ expired
  /\ exists' = FALSE
  /\ claim' = "none"
  /\ doomed' = doomed \union LeftFiles
  /\ UNCHANGED <<expired, completed, contents, items, path, files,
                 checkoutVars, editVars, ordered, historyVars>>

-----------------------------------------------------------------------------

EditStep(e) ==
  \/ SaveDraft(e)
  \/ AttachPrescription(e)
  \/ RemovePrescription(e)
  \/ RefuseEdit(e)

CheckoutStep(c) ==
  \/ ReadItems(c)
  \/ Claim(c)
  \/ Conflict(c)
  \/ CheckPrescription(c)
  \/ Fail(c)
  \/ CreateOrder(c)
  \/ ReturnOrder(c)
  \/ ReleaseClaim(c)
  \/ Crash(c)

Next ==
  \/ \E c \in Checkout : ReadDraft(c) \/ ReturnCompleted(c) \/ CheckoutStep(c)
  \/ \E e \in Edit :
       \/ \E kind \in Kind : BeginEdit(e, kind)
       \/ EditStep(e)
       \/ DeleteFile(e)
       \/ ForgetFile(e)
  \/ ClaimTimesOut
  \/ Expire
  \/ Cleanup

Spec == Init /\ [][Next]_vars

\* A call that began ends, in an answer or a crash, and time passes for a claim
\* nobody works under.  Customers, expiry and overruns owe nothing.
Fairness ==
  /\ \A c \in Checkout : WF_vars(CheckoutStep(c))
  /\ \A e \in Edit : WF_vars(EditStep(e))
  /\ WF_vars(ClaimTimesOut)

FairSpec == Spec /\ Fairness

-----------------------------------------------------------------------------
(* Properties                                                              *)

\* Every order of a cart beyond its first is paid for by a checkout that
\* outlived its own claim: races, conflicts, failures, retries, releases and
\* edits alone never make checkout place two orders.
OrdersNeedOverruns == Cardinality(ordered) <= 1 + overruns

\* Unless an edit slipped in between what checkout reads and what it claims, or
\* a claim was overrun, the order is of the very cart the draft still shows.
OrderMatchesDraft ==
  \A c \in ordered :
    exists /\ ~raced[c] /\ overruns = 0 =>
      seen[c] = [contents |-> contents, items |-> items, path |-> path]

\* Under the same conditions the prescription of an order stays on disk, after
\* the draft it came from has been cleaned up too.
OrderKeepsItsFile ==
  \A c \in ordered :
    ~raced[c] /\ overruns = 0 =>
      seen[c].path \in (files \ doomed) \union {None}

\* The prescription a draft names is on disk and nobody is about to delete it,
\* whatever edits, refusals, deletions and crashes overlap.
DraftKeepsItsFile == exists => path \in (files \ doomed) \union {None}

\* A customer is answered with an order that was placed, and until a checkout
\* outlives its claim every call is answered with the same one, the only one:
\* to repeat a call is safe, whatever became of the call before.
AnswersAreOrders ==
  \A c \in Checkout : answer[c] # None =>
    /\ answer[c] \in ordered
    /\ overruns = 0 => ordered = {answer[c]}

\* Once completed a draft stays so, and no late edit, claim or release touches
\* what it holds; without overruns it stays completed by the same order.
CompletedIsFinal ==
  [][completed # None =>
       /\ completed' # None
       /\ overruns = 0 => completed' = completed
       /\ exists' => UNCHANGED <<claim, contents, items, path>>]_vars

\* A draft is never locked for good: whatever crashes, there comes a time when
\* it can be updated again, unless it is completed or deleted.
DraftStaysUsable == []<>(Updatable \/ completed # None \/ ~exists)

\* The promise of the contract, which the code keeps until a checkout outlives
\* its claim.
CheckoutPhase ==
  CASE ~exists                            -> "deleted"
    [] exists /\ completed # None         -> "ordered"
    [] exists /\ completed = None /\ claim = "none" -> "open"
    [] OTHER                              -> "claimed"

Contract == INSTANCE CheckoutContract
              WITH Call <- Checkout, phase <- CheckoutPhase, placed <- ordered,
                   excused <- (overruns > 0)

ImplementsContract == Contract!Spec

\* The service's comment: "Claims and finalizes a draft exactly once".
FinalizedOnce == Cardinality(ordered) <= 1

-----------------------------------------------------------------------------
(* The inductive invariant                                                 *)

\* The call the recent claim on the draft belongs to, if it has one.
Exempt == IF Updatable \/ completed # None \/ ~exists THEN {} ELSE {claimant}

\* Calls at work without a claim are paid for by overruns; once one of them
\* has placed the order of a draft, the others still may.
OrderBudget ==
  /\ exists /\ completed = None => Cardinality(Working \ Exempt) <= overruns
  /\ exists /\ completed # None =>
       Cardinality(Working \union ordered) <= 1 + overruns
  /\ Cardinality(ordered) <= 1 + overruns

OrdersComplete ==
  /\ completed = None => ordered = {}
  /\ completed # None => completed \in ordered
  /\ \A c \in Checkout :
       /\ c \in ordered =>
            stage[c] \in {"ordered", "failing", "returned", "failed"}
       /\ stage[c] = "ordered" => c \in ordered
  /\ exists /\ completed # None => claim = "none"
  /\ overruns <= MaxOverruns

\* What calls have read is what the draft holds, unless an edit raced them.
Fresh(c) ==
  /\ seen[c].contents = contents
  /\ seen[c].path = path
  /\ stage[c] = "read" \/ seen[c].items = items

ReadsAreFresh ==
  \A c \in Checkout :
    exists /\ ~raced[c] =>
      /\ stage[c] \in {"read", "loaded"} => Fresh(c)
      /\ overruns = 0 /\ (c \in Working \union ordered) => Fresh(c)

\* Paths are those of committed uploads.
PathsCommitted ==
  /\ path # None => editing[path] = "done"
  /\ \A c \in Checkout : seen[c].path # None => editing[seen[c].path] = "done"
  /\ \A e \in Edit : previous[e] # None => editing[previous[e]] = "done"
  /\ \A e \in Edit : editing[e] = "attach" => e \in files
  /\ doomed \subseteq {e \in Edit : editing[e] = "done"}

IInv ==
  /\ TypeOK
  /\ OrderBudget
  /\ OrdersComplete
  /\ ReadsAreFresh
  /\ PathsCommitted
  /\ DraftKeepsItsFile
  /\ OrderMatchesDraft
  /\ OrderKeepsItsFile
=============================================================================

---------------------------- MODULE DashboardCache ----------------------------
(***************************************************************************)
(* The figures of a merchant's dashboard, cached by a process of the       *)
(* server in its own memory.  A key holds a version, the time of the last  *)
(* change the process has announced: a change moves the version on instead *)
(* of deleting what is cached, and both expire.  A request on orders       *)
(* announces its change before the transaction it runs in commits; other   *)
(* changes are announced after they have committed.                        *)
(*                                                                         *)
(* Processes share the orders and nothing else, so one is modelled, and a  *)
(* change another serves is one nobody announces here.  The figures stand  *)
(* for the number of changes they count; those of a reader are as old as   *)
(* the first of its queries.  Left out: the period a reader asks for, and  *)
(* how long a version or what is cached takes to expire.                   *)
(***************************************************************************)
EXTENDS Integers, Sequences

CONSTANTS
  Writer,      \* requests that change orders
  Reader,      \* requests for the dashboard
  Unset,       \* no version, no figures, no time
  MaxTime,     \* bound on the clock
  MaxChanges   \* bound on changes of orders

Time    == 0 .. MaxTime
Figures == 0 .. MaxChanges

ASSUME CacheAssumption ==
  /\ Unset \notin Time \union Figures
  /\ MaxTime \in Nat
  /\ MaxChanges \in Nat

VARIABLES
  now,       \* Date.now()
  changes,   \* changes committed, and when they were announced here
  version,   \* the version of the store's dashboard
  cache,     \* the figures under each version
  writer,    \* of each request, its announcement
  reader     \* of each request, where getMeasurements is

cacheVars == <<now, changes, version, cache, writer, reader>>

NoChange == [step |-> "idle", change |-> 0, bumped |-> Unset]
NoAsk    == [step |-> "idle", version |-> Unset, figures |-> 0]

CacheTypeOK ==
  /\ now \in Time
  /\ changes \in Seq([bumped : Time \union {Unset}, committed : Time])
  /\ version \in Time \union {Unset}
  /\ cache \in [Time -> Figures \union {Unset}]
  /\ writer \in [Writer -> [step : {"idle", "bumped", "committed"},
                            change : Figures, bumped : Time \union {Unset}]]
  /\ reader \in [Reader -> [step : {"idle", "unversioned", "keyed", "missed", "read"},
                            version : Time \union {Unset}, figures : Figures]]
  /\ \A r \in Reader : reader[r].step \in {"keyed", "missed", "read"} =>
                         reader[r].version # Unset

CacheInit ==
  /\ now = 0
  /\ changes = <<>>
  /\ version = Unset
  /\ cache = [v \in Time |-> Unset]
  /\ writer = [w \in Writer |-> NoChange]
  /\ reader = [r \in Reader |-> NoAsk]

Tick ==
  /\ now < MaxTime
  /\ now' = now + 1
  /\ UNCHANGED <<changes, version, cache, writer, reader>>

-----------------------------------------------------------------------------
(* Changes                                                                 *)

BumpIfMissing(time) == IF version = Unset THEN time ELSE version
BumpTo(time)        == time

BumpDashboardCacheVersion == version' = BumpTo(now)

Commits(announced) ==
  /\ Len(changes) < MaxChanges
  /\ changes' = Append(changes, [bumped |-> announced, committed |-> now])

\* A request on orders announces its change, and then its transaction commits
\* or is rolled back.
BumpInRequest(w) ==
  /\ writer[w].step = "idle"
  /\ BumpDashboardCacheVersion
  /\ writer' = [writer EXCEPT ![w].step = "bumped", ![w].bumped = now]
  /\ UNCHANGED <<now, changes, cache, reader>>

CommitRequest(w) ==
  /\ writer[w].step = "bumped"
  /\ Commits(writer[w].bumped)
  /\ writer' = [writer EXCEPT ![w] = NoChange]
  /\ UNCHANGED <<now, version, cache, reader>>

RollBackChange(w) ==
  /\ writer[w].step = "bumped"
  /\ writer' = [writer EXCEPT ![w] = NoChange]
  /\ UNCHANGED <<now, changes, version, cache, reader>>

\* A checkout, or a change of the store's category, commits first.
CommitFirst(w) ==
  /\ writer[w].step = "idle"
  /\ Commits(Unset)
  /\ writer' = [writer EXCEPT ![w].step = "committed", ![w].change = Len(changes')]
  /\ UNCHANGED <<now, version, cache, reader>>

BumpAfterCommit(w) ==
  /\ writer[w].step = "committed"
  /\ BumpDashboardCacheVersion
  /\ changes' = [changes EXCEPT ![writer[w].change].bumped = now]
  /\ writer' = [writer EXCEPT ![w] = NoChange]
  /\ UNCHANGED <<now, cache, reader>>

\* The new order cannot be read back: its change is announced to nobody.
ReadBackFails(w) ==
  /\ writer[w].step = "committed"
  /\ writer' = [writer EXCEPT ![w] = NoChange]
  /\ UNCHANGED <<now, changes, version, cache, reader>>

\* Another process serves the change.
CommitElsewhere ==
  /\ Commits(Unset)
  /\ UNCHANGED <<now, version, cache, writer, reader>>

-----------------------------------------------------------------------------
(* The dashboard                                                           *)

StepWith(v) == IF v = Unset THEN "unversioned" ELSE "keyed"

\* resolveCacheKey; a store without a version gets one.
ResolveCacheKey(r) ==
  /\ reader[r].step = "idle"
  /\ reader' = [reader EXCEPT ![r].step = StepWith(version), ![r].version = version]
  /\ UNCHANGED <<now, changes, version, cache, writer>>

SetVersion(r) ==
  /\ reader[r].step = "unversioned"
  /\ version' = now
  /\ reader' = [reader EXCEPT ![r].step = "keyed", ![r].version = now]
  /\ UNCHANGED <<now, changes, cache, writer>>

Cached(r) == cache[reader[r].version]

AnswerFromCache(r) ==
  /\ reader[r].step = "keyed" /\ Cached(r) # Unset
  /\ reader' = [reader EXCEPT ![r] = NoAsk]
  /\ UNCHANGED <<now, changes, version, cache, writer>>

Miss(r) ==
  /\ reader[r].step = "keyed" /\ Cached(r) = Unset
  /\ reader' = [reader EXCEPT ![r].step = "missed"]
  /\ UNCHANGED <<now, changes, version, cache, writer>>

ReadFigures(r) ==
  /\ reader[r].step = "missed"
  /\ reader' = [reader EXCEPT ![r].step = "read", ![r].figures = Len(changes)]
  /\ UNCHANGED <<now, changes, version, cache, writer>>

StoreFigures(r) ==
  /\ reader[r].step = "read"
  /\ cache' = [cache EXCEPT ![reader[r].version] = reader[r].figures]
  /\ reader' = [reader EXCEPT ![r] = NoAsk]
  /\ UNCHANGED <<now, changes, version, writer>>

-----------------------------------------------------------------------------
(* Expiry and restarts                                                     *)

Stays(figures)   == FALSE
Expires(figures) == figures # Unset

ExpireFigures(v) ==
  /\ Expires(cache[v])
  /\ cache' = [cache EXCEPT ![v] = Unset]
  /\ UNCHANGED <<now, changes, version, writer, reader>>

\* A version outlives the millisecond it is from.
ExpireVersion ==
  /\ version # Unset /\ version < now
  /\ version' = Unset
  /\ UNCHANGED <<now, changes, cache, writer, reader>>

\* The cache and the requests of the process are lost; transactions are rolled
\* back, and a change that has committed is not announced any more.
Restart ==
  /\ version' = Unset
  /\ cache' = [v \in Time |-> Unset]
  /\ writer' = [w \in Writer |-> NoChange]
  /\ reader' = [r \in Reader |-> NoAsk]
  /\ UNCHANGED <<now, changes>>

-----------------------------------------------------------------------------

Change(w) ==
  \/ BumpInRequest(w)
  \/ CommitRequest(w)
  \/ RollBackChange(w)
  \/ CommitFirst(w)
  \/ BumpAfterCommit(w)
  \/ ReadBackFails(w)

\* What a reader does once it has asked.
GoOn(r) ==
  \/ SetVersion(r)
  \/ AnswerFromCache(r)
  \/ Miss(r)
  \/ ReadFigures(r)
  \/ StoreFigures(r)

CacheNext ==
  \/ Tick
  \/ CommitElsewhere
  \/ \E w \in Writer : Change(w)
  \/ \E r \in Reader : ResolveCacheKey(r) \/ GoOn(r)
  \/ \E v \in Time : ExpireFigures(v)
  \/ ExpireVersion
  \/ Restart

\* A request for the dashboard is answered and figures expire; nothing is
\* assumed of changes, of versions and of who asks.
CacheFairness ==
  /\ \A r \in Reader : WF_cacheVars(GoOn(r))
  /\ \A v \in Time : WF_cacheVars(ExpireFigures(v))

CacheSpec == CacheInit /\ [][CacheNext]_cacheVars /\ CacheFairness

-----------------------------------------------------------------------------
(* Properties                                                              *)

\* The changes that the figures the process would serve now do not count.
Missed ==
  IF version = Unset \/ cache[version] = Unset THEN {}
  ELSE cache[version] + 1 .. Len(changes)

\* The process serves figures without a change it has announced only if they
\* were asked for in between the announcement and the commit; for a change
\* that is announced after its commit, in the same millisecond.
StaleFromTheWindow ==
  \A k \in Missed : changes[k].bumped # Unset =>
    changes[k].bumped <= version /\ version <= changes[k].committed

\* Once changes cease, the process comes to serve figures that count them all,
\* whether they were announced to it, too early, or not at all.
FreshInTheEnd == <>[](Missed = {})

-----------------------------------------------------------------------------
(* The inductive invariant behind the window                               *)

\* Figures that count n changes and go by version v were asked for before the
\* others committed.
Dated(v, n) ==
  /\ v <= now
  /\ \A k \in n + 1 .. Len(changes) : v <= changes[k].committed

FiguresInv ==
  /\ \A v \in Time : cache[v] # Unset => Dated(v, cache[v])
  /\ \A r \in Reader :
       /\ reader[r].version # Unset => reader[r].version <= now
       /\ reader[r].step = "read" => Dated(reader[r].version, reader[r].figures)

\* What the process has announced is not ahead of its version.
Announced(time) == time # Unset =>
  time <= now /\ (version # Unset => time <= version)

AnnouncedInv ==
  /\ version # Unset => version <= now
  /\ \A k \in DOMAIN changes : Announced(changes[k].bumped)
  /\ \A w \in Writer : Announced(writer[w].bumped)

ChangesInv ==
  /\ Len(changes) <= MaxChanges
  /\ \A w \in Writer : writer[w].step = "committed" =>
                          writer[w].change \in DOMAIN changes

CacheInv ==
  /\ CacheTypeOK
  /\ FiguresInv
  /\ AnnouncedInv
  /\ ChangesInv
=============================================================================

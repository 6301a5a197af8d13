# Tijaratk: a TLA+ model of the backend

Tijaratk is a multi-tenant shop platform: a NestJS/Prisma/PostgreSQL API
(`backend/`), a Next.js storefront and merchant dashboard (`frontend/`) and an
Android wrapper (`mobile/`). The API keeps its state in PostgreSQL and runs as
several processes (`ecosystem.config.js`); every transaction runs at PostgreSQL's
default level, READ COMMITTED. What can go wrong, and what no unit test of the
repository reaches, is what concurrent requests, background workers, crashes and
failing calls do to the same rows. That is what the modules here are about.

Ten parts are modelled and checked with TLC: the outbox workers, the checkout of
storefront carts, the life of an order, its amounts, the closing of a day, the
cancellation policy, managed sessions, push subscriptions, catalog imports and
the dashboard's cache. All ten are also proved about with TLAPS, for every value
of their constants: every safety and every action property that a passing run
checks, and that each module with a contract implements it. Only liveness is
left to TLC.

## Inventory

The paths are under `backend/src/`.

| Component | State | Operations | What is hard | What makes it correct | Module |
|---|---|---|---|---|---|
| Outbox workers (`*/*.worker.ts`: push, Meta, GA4) | outbox rows; per process `isTickRunning` and the calls in flight | claim a batch, recover stale locks, deliver, mark sent / retry / dead letter, clean up | locks that time out under a slow delivery, crashes, writes that fail or lose their reply, overlapping ticks | sent only when it misses nobody it was enqueued for and who is still subscribed; at least once, with bounded duplicates and attempts; settled once and for good; eventually settled | `Outbox` |
| Storefront cart drafts | a draft with its items, its claim, its completed order; prescription files on disk | save, attach, remove, checkout, clean up expired drafts | three transactions per checkout, a claim that times out, deletes of files outside transactions | one order per cart; the order is of the cart shown and keeps its prescription; no draft locked for good | `CartCheckout` |
| Orders | orders, their items, replacement decisions, day closures | status changes, fee, out of stock, replacement, price, totals, closing of a day | reads without locks, writes by id alone; a message sent before the commit it speaks of | transitions, fee before confirmation, decisions locked, counted once, totals equal the items, a day told as stored | `OrderLifecycle`, `OrderTotals`, `DayClosure`; creation in `CartCheckout` |
| Tenant cancellation policy | per tenant: month window, count, warning, probation; the tenant's status | record a cancellation, roll the month over, suspend, reactivate | read-modify-write of the count, rollover from read paths, a month that ends meanwhile | counts every cancellation of the month, warns before it suspends, one probation per suspension | `CancellationPolicy` |
| Admin managed sessions | access grants, sessions, the activity log of their ends | grant, revoke, disable, start, resolve, refresh, end, lapse | access checked before the transaction that uses it; sessions looked up before the update that ends them | no session outlives its access; every end logged once, for one reason | `ManagedSessions` |
| Push subscriptions | browser endpoints, their owners, links to customers | register as merchant, admin or device; unregister; retention; the worker deletes endpoints that are gone | one browser changes roles or endpoints while a delivery is on its way | one owner per endpoint; a merchant's is never converted; deleted only when gone | `PushSubscriptions` |
| Catalog imports | import runs, catalog items, a per-process set of cancelled runs | start, process batches in parallel, cancel, replace a source | runs live in one process; cancellation looked at between batches; rows of a batch race | an item leaves the catalog only to a complete replacement, and keeps its external id but for rows that go by name; copies only as stated; a run ends as its rows deserve | `ImportRun` |
| Merchant dashboard | versioned cache of figures, per process | read through, bump the version | bumped before the change commits, or not at all | old figures come from a named window only, and not for ever | `DashboardCache` |
| Producers of events (push, Meta, GA services) | none | insert outbox rows | keys that make inserts idempotent | one row per event key | the insertion is `Enqueue` of `Outbox`, and `events` of `OrderLifecycle` |
| Customers | customers, codes, global identities | find or create, link identity | unique violations inside transactions | one customer per store and phone, codes unique | not modelled |
| Delivery configuration and scheduling | delivery areas, opening hours | replace areas, compute slots | boundaries of the day | slots lie inside the hours and after the lead time; updates serialized by the tenant's row lock | not modelled |
| Products; spreadsheet import | products, images | create, edit, search, upsert by name | unique names of active products | uniqueness in the database | not modelled |
| Authentication; tenants and users; admin; audit | single rows, audit rows | one-row updates | token versions, an audit row with each change | outdated tokens are refused | not modelled; a tenant's status is in `CancellationPolicy` |
| Store directory; availability requests | profiles, one request per visitor, product and day | one-row updates, listings | unique keys | uniqueness in the database | not modelled |
| Webhooks and WhatsApp | per-process table of recent event ids | log an event once, send messages | retries reach another process | nothing but the log depends on it | not modelled |
| Request infrastructure (tenant RLS, Prisma) | the request's transaction | begin, set the tenant, commit | post-commit effects that run before the commit | used by the models for where transactions begin and end | environment |
| Activity log; CLI, seeders, scripts; frontend; mobile | append-only rows; none | one-off programs; clients of the API | none across requests | none | not modelled |

How they interact. A request runs in a transaction, of the RLS interceptor or
its own. Checkout calls the order service, which places the order and, in the
same transaction, completes the draft and enqueues notifications and analytics
events; status changes enqueue more of them and call the cancellation policy,
which may suspend the tenant. The workers poll the outbox tables and share
nothing with the requests but the rows; the push worker deletes subscriptions
whose endpoint is gone. Post-commit effects (messages, cache versions) are best
effort.

The modules meet at these points rather than in one large state. `CartCheckout`
ends where `OrderLifecycle` and `OrderTotals` begin; `cancellations` of
`OrderLifecycle` counts the calls whose effect is `CommitCancel` of
`CancellationPolicy`; `subscribed` of `Outbox` are the rows of
`PushSubscriptions`, of which a delivery takes one; the writers of
`DashboardCache` and the orders that are placed and move in `DayClosure` are the
commits of the order modules. In each case the caller reads nothing back but
success or failure, and failure is the `RollBack` (or `Fail`) of its module.

The hazards this code is exposed to, each at its line, are in `PROJECT.json`
with the properties that cover them, or the reason none does.

## How the modules are built

- A component module declares its state, one action per handler step, the
  specification, the properties and the inductive invariant. `*Contract` states
  what the component promises its clients, as if every operation were atomic;
  the component instantiates it with a refinement mapping as `Contract` and
  checks `ImplementsContract`.
- `MC*` adds the symmetry sets and small inputs TLC needs; each `.cfg` gives the
  constants.
- `*Proofs` extends the component and `TLAPS` and holds the theorems.
  `StoreFiguresProofs` extends three: `OrderTotals`, the amounts of an order, and
  the two that are computed from orders, `DashboardCache` and `DayClosure`. Their
  variables and definitions have names of their own, hence `CacheSpec`,
  `DaySpec` and the like. `MCStoreFigures` runs the last two: they share no
  state, so one of them moves in each behaviour (`part`), and the run takes the
  sum of their states rather than the product.
- An operator that stands immediately before another and takes a plausible bug
  as its body (`AllowedNextReopening` before `AllowedNext`) is an alternative to
  it: substituted, it makes a run fail, which shows the property can.

Granularity. PostgreSQL at READ COMMITTED shows a statement what had committed
before it, hides what a transaction wrote until it commits, and makes a second
writer of a row wait and re-evaluate its condition. Hence: reads that the code
does before its write are steps of their own, and the conditional write and its
commit are one step, evaluated on what is then current. Where a transaction
writes a row early and works on under its lock (`OrderTotals`, and `LockStore`
of `CancellationPolicy`), taking the lock is a step too. Effects outside the
database (HTTP calls, files, in-process flags) are steps of their own.

Races and excuses. Most handlers read a row without a lock and write it by id
alone, so a commit may rest on what another has changed. The models allow that:
such a commit adds one to the history variable `races` (in `CartCheckout`, a
checkout that outlives its claim adds one to `overruns`), bounded by `MaxRaces`
(`MaxOverruns`). Properties then come in two kinds. Those that do not mention
`races`, or only as a budget, hold however requests overlap. The others, and
every such contract, hold until the first race: the contract's `excused` turns
true with it and nothing is promised after. What is left is not sequential
behaviour: calls still interleave, roll back and crash, and what a commit counts
as a race is precisely defined in the module.

History variables (`expiries`, `deliveries`, `missing`, `born`, `overruns`,
`raced`, `races`, `suspensions`, `probations`, `ended`, `event`) name the
circumstances the properties speak of. No code decision depends on them; only
their bounds appear in guards. Bounds on faults, races and counters restrict the
environment, never the code, and the theorems leave them arbitrary.

## Outbox

One module for the three workers. They share their control flow; the constant
`WebPush` says which copy it is. A push event is resolved to devices on every
attempt and its age is looked at after a failure only; a Meta or GA4 event has
endpoints that do not change and is refused when old.

| State | Code |
|---|---|
| `status`, `attempts`, `lockedBy` | the columns `status`, `attempt_count`, `locked_by` |
| `lockStale`, `due`, `tooOld` | the comparisons of `locked_at`, `next_attempt_at`, `created_at` with the clock |
| `ticking`, `awaits` | `isTickRunning`, and the `processEvent` calls the tick's `Promise.all` waits for |
| `jobs` | `processEvent` calls: claimed, resolved (to `targets`), accepted (delivered, to be marked), retry or dead (failed, to be marked) |
| `subscribed` | the subscriptions a row would be resolved to now: one set stands for that of any row |
| `missing` | history: the devices subscribed when the row was enqueued, and ever since, that have not received it |

`Tick` recovers stale locks and claims a batch in one transaction
(`FOR UPDATE SKIP LOCKED`); `TickLosesClaim` is the failure of that query, or of
its reply. `Resolve` is `resolveDeliveryTargets`, which reads the subscriptions
of the attempt, perhaps none; `ResolveFails` a row that cannot be read;
`DeliverAccepted` and `DeliverFails` the outcome of `Promise.allSettled`;
`RefuseOld` the age check of Meta and GA4. `Mark*` are the updates fenced by
`locked_by`, `MarkSentFails` and `MarkFailureFails` their failures, committed or
not; `Crash` ends a process. Retention, when it is due, is part of `EndTick`; that
of Web Push also deletes devices not seen for long. `Subscribe` and
`Unsubscribe` are what requests do to the devices meanwhile. A restarted process
is a new worker: its identifier holds a fresh UUID.

What "sent" means. The push worker takes a target that answers 404 or 410, or
whose keys cannot be read, for gone: it deletes the subscription and the
delivery has not failed. A row whose devices are all gone, or that has none, is
sent. And an attempt after a failure is resolved afresh, to all devices there are
by then: one that has received the row gets it again, one that has come since
gets it too. So "sent" does not say that anybody received the event.
`SentMissesNobody` says what it does: a device that was subscribed when the
event was enqueued, and has been ever since, has received it, whichever attempts,
recoveries and overlapping workers that took. A device that leaves is owed
nothing more, not even when it comes back.

What the code guarantees is subtler than "exactly once". A lock is not renewed,
so a slow delivery is delivered again; a failing write leaves a row to recovery.
`DuplicatesNeedExpiry` says that this is all: an attempt without a failed target
happens at most one time more than the lock was found stale. `AttemptsBounded`
says how far `attempt_count` may pass `MAX_ATTEMPTS`: by recoveries only
(recovery does not look at the counter). `TerminalIsFinal` holds without
conditions. `ImplementsContract` hides workers, locks and the targets of each
attempt: an event is queued, then sent when it misses nobody or given up, then
purged.

Fairness (`FairSpec`, for `EventuallySettled`): a live process polls, since
`setInterval` keeps firing; a call returns (Meta and GA4 abort after a timeout;
Web Push has none, so there the property rests on the network to fail the call);
delays elapse, and a lock nobody will release becomes stale. Enqueuing, faults
and the ageing of events are not fair.

The comment on `tick` promises a non-overlapping cycle. The model shows how that
fails: when the write in a `catch` block of `processEvent` fails, `Promise.all`
rejects at once, `finally` clears `isTickRunning`, and the next poll runs beside
the remaining calls (`MarkFailureFails`, then `Tick` while `jobs` is not empty).
The proofs show the harm is bounded as above.

## CartCheckout

One draft row, its items, its file, and calls on it.

| State | Code |
|---|---|
| `exists`, `expired`, `claim`, `completed` | the row, `expires_at`, `checkout_started_at` (NULL, recent or older than `CHECKOUT_LOCK_TIMEOUT_MS`), `completed_order_id` |
| `contents`, `items`, `path` | what the row, its items and `prescription_file_path` hold, named after the edit that wrote it |
| `files`, `doomed` | the upload directory, and files a process is about to delete after its commit |
| `stage`, `seen`, `answer` | a checkout call: where it is, the draft as it read it, the order it answered |
| `editing`, `previous` | a save, attach or remove call, and the path it read |
| `ordered` | the checkouts whose order transaction committed |

A checkout reads the draft (`ReadDraft`) and its items (`ReadItems`), claims it
by a conditional update (`Claim`, `Conflict`, `ReturnCompleted`), validates and
reads the file (`CheckPrescription`, `Fail`), places the order and completes the
draft (`CreateOrder`), answers (`ReturnOrder`), or releases its claim
(`ReleaseClaim`). `ClaimTimesOut` makes a claim old, while its holder is at work
(an overrun, bounded by `MaxOverruns`) or after it crashed. The cleanup worker
deletes expired drafts and then their files.

The code claims a draft conditionally but completes it by id alone, so it places
one order per cart as long as no checkout outlives its five-minute claim.
`ImplementsContract` is that promise, off once a checkout has overrun;
`OrdersNeedOverruns` is the guarantee with overruns: one order more for each of
them at most, although a failed checkout also clears the claim of a later one.
`OrderMatchesDraft` and `OrderKeepsItsFile` hold unless an edit commits between
what a checkout reads and what it claims (`raced`): the claim does not check
that the draft is still as read, so such an order is of the cart before the
edit, and the edit may delete the prescription it names.

`DraftKeepsItsFile` needs no such condition: a draft never names a prescription
that is gone or about to go. `AnswersAreOrders` is what a customer who calls
again relies on: every answer names an order that was placed, and without an
overrun it is the only one, also when the first call ended in an error after its
commit.

Fairness (for `DraftStaysUsable`): a call that began ends, in an answer or a
crash, and the clock passes a claim nobody works under. Customers, expiry and
overruns owe nothing.

Finding `FinalizedOnce`: the comment and the API summary promise that a draft is
finalized exactly once; one overrun and a retry place two orders.

## OrderLifecycle

One order and its lines, under calls of its store, an admin and its customer.

| State | Code |
|---|---|
| `status`, `feeSet` | `orders.status`, `delivery_fee_status = 'set'` |
| `outOfStock`, `decision` | `is_out_of_stock`, `replacement_decision_status` of the lines |
| `request`, `seen` | a call in progress and the order as it read it |
| `completions`, `cancellations`, `events` | `completed_order_count` of the customer, calls of the cancellation policy, rows of `ga4_event_outbox` (unique per order and event) |

Each handler is a `Begin*` step, its reads and every refusal that follows from
them, and a `Commit*` step, its write with the cancellation, count and events in
the same transaction. `CountDeliverable` is the separate count that
`markOrderItemOutOfStock` makes. `RollBack` is a failure.

What survives races: `FeeBeforePromise` (the fee is never unset and the status
is only advanced by a call that saw it set), `CountsNeedRaces`, and its
counterpart `EffectsAreComplete`: an effect may come twice, but none is missing.
An order that is promised was announced, a completed one counted for its
customer and a cancelled one against its store, each with its event, although
the effects rest on a status read earlier than the write. What holds only until
one: the contract; `CancelledWhenEmpty`, for two calls that mark the
last two items each count the other's as deliverable and the order stays open
with nothing to deliver; and `DecisionLocked`, for a proposal that overlaps the
customer's decision replaces it without the reset the refusal demands. No
property speaks of the window in which a customer may decide: it is a check at
the read, and a decision read inside the window is written after it. A late
status write by id may also leave a terminal status; each such step is a race,
which is why counts are bounded by races.

Left out: amounts (in `OrderTotals`), products, messages, activity log. The
order is one whose visitor Google Analytics knows; otherwise `events` stays
empty. Two rows that one Prisma call returns are read at once.

## OrderTotals

The amounts of one order while items are priced, run out of stock and the fee is
set, with the locks of the rows in between.

| State | Code |
|---|---|
| `open` | `orders.status` is draft or confirmed |
| `price`, `out` | `total_price` and `is_out_of_stock` of the items |
| `fee`, `feeSet`, `subtotal`, `total`, `mode` | the order's columns of those names; a total is kept as its summands, so that equal totals add up the same |
| `request` | a transaction: checked, its item or fee written (and that row locked), the lines added up |

`BeginReprice`, `BeginOutOfStock` and `BeginSetFee` are the reads and checks of
the three handlers; `Write` updates the item, or the fee on the order's row, and
takes its lock; `AddUp` is the read of the lines in `recalculateOrderTotals`;
`Commit` is its update of the order, which waits for that row, and the commit.
`Update` is `update` of an order, with a total by hand or a status. A request
sees what is committed and its own writes.

`AutoIsTheSum` holds however requests overlap, because every change of an item
sets the mode to manual. `TotalFollows` says a commit that is not overtaken puts
the total right whatever earlier ones left. `AmountsSettle`, a theorem, says a
fee that is set, and the amounts of an order that is no longer open, are moved
only by a race or by a total set by hand. The fee keeps its row locked while it
adds up, so it is items that miss each other. Something the model makes plain: a
fee set after a total by hand replaces that total, although the mode stays
manual.

## CancellationPolicy

The policy of one store over the months.

| State | Code |
|---|---|
| `month`, `status` | the month in Cairo; `tenants.status` |
| `row` | `tenant_cancellation_policy_states`: window, count, probation, warning, the flag of a suspension by policy |
| `storeLock` | the status change that holds the row of the tenant |
| `request`, `seen` | a request and the policy's row as it read it; its month, and for a change the status it read before its transaction |

`ReadRow` and `CommitCancel` are `recordMerchantCancellation`, `CommitView` the
rollover of `getSnapshot`, `BeginChange`, `LockStore` and `CommitChange` the
administrator's change with `recordAdminStatusChange`. A cancellation that
suspends and a status change lock the two rows in opposite orders; PostgreSQL
fails one of them, which is a `RollBack`.

A cancellation may come whatever the store's status. Its own users are refused
unless it is active, but an administrator in a managed session cancels orders of
a store that is suspended or pending as well, and the list of stores takes a
snapshot of each (`BeginCancel`, `BeginView`). Such cancellations count, and one
that reaches the threshold suspends the store, whether it was suspended already
or not: a store an administrator had suspended is then taken for one the policy
has, and begins a probation when it is lifted. The contract's `Cancel` says so.

However requests overlap, a store never begins more probations than it has been
suspended by the policy (`ProbationsArePaid`). Until a commit rests on a stale
read, a count past the warning threshold has had its warning (`WarnedInTime`;
the code warns at exactly the tenth cancellation, so a lost or skipped count
could miss it) and the count, suspensions and probations are those of the
sequential policy (`ImplementsContract`). The contract also states what the code
does rather than what a reader expects: a store suspended by the policy that
goes to pending and then to active begins no probation by that
(`Decide`), since only the step from suspended to active looks at the flag.

## ManagedSessions

The sessions of one administrator in the stores.

| State | Code |
|---|---|
| `isActive`, `access` | `admin_users.is_active`; `admin_tenant_access` of each store, expired when its time is past |
| `started`, `storeOf`, `open`, `lapse` | `admin_management_sessions`: how many, the store of the latest, the one without `ended_at` (a partial unique index admits one), and the deadline it has passed |
| `reason`, `logged`, `ended` | `end_reason`; entries of the activity log; the ends themselves |
| `request` | what a request found before it writes: session, store, reason |

`BeginStart` is the check before the transaction of `startSession`,
`FindPrevious` its lookup of open sessions, `StartSession` the update that ends
what is open by then and inserts the new one. Revocation and disabling look the
session up first in the same way. `BeginResolve` is the verdict of
`resolveActor` on a managed request, after which the session is refreshed
(`RefreshActor`) or ended (`EndCurrentSession`, by id).

`EndsAreLogged` is a budget: the log and the ends differ by one for each race at
most. `ReasonIsFinal`, a theorem: only a late write replaces a reason. The
contract: no session is open without an account and an access that stand, and
every end is on record, until a write rests on a stale read. After one, a
session may be open in a store whose access is withdrawn; every managed request
checks the access again, so it can do nothing while that is so, but once the
access is granted again it goes on. An access that has run out by its date
counts as standing here, for the code ends its session only at the next request.

## PushSubscriptions

The rows of `push_subscriptions` with their links to customers.

| State | Code |
|---|---|
| `issued`, `row` | the ids given out, and per id the owner (account or device), the hash of the endpoint (unique), the endpoint inside the encrypted payload, the linked customers |
| `gone` | endpoints the push service answers 404 or 410 for |
| `request` | a registration, a claim by an account or a delivery, with the rows it found |
| `event` | which call wrote the table in this step |

`BeginRegister` reads the row of the device and the row of the endpoint, and
`UpsertCustomerSubscription` moves, adopts or creates one (`MoveRow`,
`AdoptRow`, `CreateRow`). `BeginClaim` and `UpsertSubscription` are the upsert
of merchants and administrators, which clears the links it found first.
`BeginDeliver` and `DeleteSubscriptionById` are the worker's; `Cleanup` is
retention. What unique indexes and the check constraint refuse is a `RollBack`.

The comment on `upsertCustomerSubscription` says existing merchant and
administrator subscriptions can never be converted; `AccountsKeepTheirs` states
it and holds but for a registration that another write has overtaken: a merchant
who claims an endpoint between the reads and the writes of a customer's call
loses the row. `SweptWhenGone`, a theorem: a delivery deletes only a
subscription whose address is gone, unless the row moved to a new endpoint while
the message was on its way. The contract says what each call does to the set of
subscriptions.

## ImportRun

Catalog imports on several processes.

| State | Code |
|---|---|
| `mode`, `file`, `status` | the columns of `import_runs` and the uploaded file |
| `home`, `step` | the process that runs it, and where `processCatalogImport` is |
| `rows`, `found` | of each row read, whether it is to be looked up, created, updated, or what became of it; and the item it has found |
| `cancelled` | `cancelledImports` of each process |
| `items` | `catalog_items` of one source, oldest first: name and category, external id or none, and whether it is offered |
| `born` | history: the external id each item was created with |

`StartBatch` starts up to `BatchSize` rows, each of which looks its item up
(`FindExistingCatalogItem`) and then writes what it decided (`CreateItem`,
`UpdateItem`, `RowFails`) in an order of its own. `EndBatch` and
`EndBatchCancelled` are the check after a full batch, `FinishImport` and
`FailImport` the ends of a run, `DeactivateMissingSourceItems` the replacement.
`Crash` ends a process; nobody takes its runs over.

What the model makes plain is that rows go by two identities. A row with an
external id looks for that alone, whatever the name; a row without looks for the
oldest item of its name, whatever external id that has (`Matches`). And a row is
written whole, so that the latter erases the external id it finds (`AsItem`).
After the rows "a with k1", "a", "a with k1", one after the other, there are two
items, and a replacement that lists k1 takes the first out of the catalog. The
properties are stated so that they say this:

- `IdsYieldToNames`: an item gets no external id but the one it was created
  with, and loses that only to a row without one that found it by its name.
- `CopiesNeedRaces`: a name has a second item created without an external id
  only from a row that missed what another was about to create; of the items
  created with one external id no two still have it (so the copies above are the
  only ones).
- `RemovedByReplacement`, the one that protects a shop: however runs,
  cancellations, failures and crashes overlap, an item leaves the catalog only to
  a run in replacing mode that has all its rows behind it, none of which failed,
  and that does not list the external id the item has; it lists the one the item
  was created with only if that was erased.
- `EndsAsDeserved` holds through stale reads, cancellations and crashes as well: a
  run that reports success has every row of its file behind it, one that reports
  part of it has some and has failed some and left none open, and a cancelled one
  has no row at work, now or later.

The contract takes both identities as they are: until a write rests on a stale
read (or comes after its run has ended) every row takes effect at once and a run
ends as its rows deserve. Left out are files of more than one source, which a
replacing run refuses, images, and edits of the catalog by administrators, which
have a service of their own.

What the contract does not promise, because the code does not keep it: a
cancellation is lost when another process served it or when the last batch is
not full; a run whose process dies stays "processing" for good; when saving an
error fails the run is "failed" while rows of its batch go on writing.

## DashboardCache

The figures of one store in the cache of one process.

| State | Code |
|---|---|
| `now` | `Date.now()`, which is also a version |
| `changes` | the changes of orders, with when they committed and were announced here |
| `version`, `cache` | the two kinds of keys of the cache |
| `writer`, `reader` | a request that changes orders; `getMeasurements` |

A change of an order is announced in the request, before its transaction
commits (`BumpInRequest`, then `CommitRequest` or
`RollBackChange`); a new order and a
store's category after (`CommitFirst`, `BumpAfterCommit`), unless the order
cannot be read back (`ReadBackFails`); another process's changes are never
announced here (`CommitElsewhere`). A reader resolves its key, asks the cache
and otherwise reads the figures and stores them under the version it began with.

`StaleFromTheWindow`: figures that lack an announced change carry a version
from between its announcement and its commit. So the only figures that an
announced change leaves standing are those asked for too early. `FreshInTheEnd`:
once changes cease the process comes to serve figures that count them all.
Fairness: a reader that has asked is answered, and cached figures expire;
nothing is assumed of changes, versions and of who asks.

Met while modelling, and outside the model, which leaves durations out: the
cache library takes milliseconds, so `DASHBOARD_CACHE_TTL_SECONDS = 30` keeps
figures for 30 ms and the module's "Default TTL is 1 hour" is 3.6 s. Figures are
therefore hardly cached at all, which hides the staleness described here; it
would appear with the durations the names announce. `invalidateOrderCaches` of
the order service has no caller.

## DayClosure

The closing of a store's day by requests that overlap, beside its orders.

| State | Code |
|---|---|
| `hour` | the clock; a day has `DayLength` hours and Cairo is `Ahead` of +02:00, by an hour in summer |
| `orders` | `created_at` and `status`; "placing" until the order's transaction commits |
| `closures` | `day_closures`, one row for a date (a unique key), as the orders it adds up with their status; and the orders that were there when it was asked for (history) |
| `closer` | a call of `closeDay`: where it is, its date, its summary |
| `messages`, `told`, `unkept` | history: how often and what the merchant was told of each date, and the messages whose closing was rolled back |

A closing is one transaction. `Look` takes Cairo's date and looks for its
closure, `SumUp` is `computeDayCloseSummary`, `Insert` waits for another insert
of the date that has not ended, `Tell` is the WhatsApp message, sent before
`CommitClosing` makes the closure last. `FailClosing` is a transaction that
takes too long or a process that dies; a transaction that takes too long is
rolled back under its handler, which runs on and may still tell (`TellLate`).
Orders are placed (`Place`, `EndPlacing`) and move meanwhile; `OrderLifecycle`
says how far, so here they may go anywhere.

`MessagesAreKept`: the merchant is told of a day once, and once more for each
closing that told and was rolled back, before or after; the unique key makes it
so, not the look beforehand. `ToldAsStored`: unless that happened, the message
and the closure agree, whatever orders do between the summary and the commit.
`FoundAreCounted`: a closure counts each order of its day that was there when it
was asked for, but for those of an hour that is on another day in +02:00.

Finding `ClosingIsIdempotent`: the comment and the API summary promise
idempotent behaviour. `isUniqueViolation` waits for PostgreSQL's `23505` where
Prisma reports `P2002`, so of two requests that close the day at once the second
is refused (`Refuse`). A request that comes after the commit is answered with
the closure.

Two more things the model makes plain. `getCairoDateKey` follows Cairo's summer
time and the window of the summary does not: what is ordered in the first hour
of a summer day falls into the window of the day before, which can no longer be
closed by then, and so into no closure. And what is ordered after a day was
closed is in no closure either; no property speaks of it, since the code
promises nothing there.

## Runs

| Run | Instance | Question |
|---|---|---|
| `outbox_safety` | 2 events, 2 workers, Web Push with 2 devices that come and go, 2 attempts, batch of two, 1 fault | sent misses nobody; duplicates and attempts need expiry; settled for good; contract |
| `outbox_liveness` | 2 events, 2 workers, Meta or GA4 with 1 endpoint, 2 attempts, batch of one, 1 fault, no symmetry | every event is settled |
| `cart` | 2 checkouts, 2 edits, 1 overrun, no symmetry | orders bounded by overruns; faithful orders, files kept by orders and drafts; answers; completion final; contract; no draft locked for good |
| `cart_FinalizedOnce` | 2 checkouts, 1 edit, 1 overrun | the finding above: expected to be violated |
| `order_lifecycle` | 2 sessions, 2 items, 1 race | fee before promise, counts, no effect lost; until a race the contract, cancellation when empty, decisions locked |
| `order_totals` | 2 requests, 2 items, prices 1 and 2, fees 0 and 3, 1 race | automatic totals, totals that follow; contract |
| `cancellation_policy` | 2 requests, thresholds 2, 3 and 1, 2 months, 1 race, 2 suspensions | probations paid for, warnings in time; contract |
| `managed_sessions` | 2 requests, 2 stores, 2 sessions, 1 race | ends logged; contract |
| `push_subscriptions` | 2 calls, 2 devices, 1 account, 2 endpoints, 1 customer, 2 rows, 1 race | accounts keep theirs; contract |
| `imports` | 2 runs, 2 processes, 7 requests, 2 names, 2 external ids, 1 catalog, batch of two, 5 items, 1 race, 1 cancellation | removal by replacement, external ids and copies, reports deserved; contract |
| `figures` | dashboard: 1 writer, 2 readers, 2 changes, 3 instants; closing: 2 requests, 1 order, days of 2 hours, hours 0 to 2, Cairo 1 hour ahead, 1 message unkept | old figures from the window only, fresh in the end; told once, as stored, of what was there |
| `closing_idempotent` | 2 requests, 1 order, one day, no message unkept | the finding above: expected to be violated |

No run checks types or an inductive invariant: both are theorems of every module
(`TypeCorrect` and `InductiveInvariant`, or `DashboardInvariant` and
`DayInvariant`), so the runs are left to the properties a reader of the code
would argue about. `AmountsSettle`, `ReasonIsFinal` and
`SweptWhenGone` are theorems as well and no run repeats them. Each `IInv`,
`CacheInv` or `DayInv` is defined in its module, under the heading that says so,
and any of them can be added to the INVARIANTS of its run; each was checked so
before it was proved.

Why the bounds are enough. Two workers are the claimant and the one that
recovers it, and one fault of any kind lets a row be claimed, recovered and
settled late; two events make a batch with a failing member and rows that wait
for each other. Two checkouts with one overrun are the holder and its successor
(a third, let in by a wrong release, is left to the theorem); two edits are the
racing edit and the one whose file it replaces. Two calls on an order, a policy,
a session or a table make every read-write race; calls are reused, so a third
follows in the same run. Two items are needed for "last two at once", two stores
and two sessions for a switch, two devices and two endpoints for a move beside
another, two months for a rollover between a read and a write. One race is
enough to excuse a contract and leave the properties that survive it something
to survive; more only repeat it, and the theorems cover any number. The
thresholds of the policy (10, 16 and 5) are shrunk in their order. The seven
import files are a product by its external id and by its name in one batch and
the next, a name twice, two external ids of one name and an item that changes
its name, replacements with and without rows, and rows that are passed over or
fail; the catalog holds one item, under another name. Two devices that come and
go let one receive a row while another fails, leaves or joins before the retry.
Two readers and two changes let one reader store what the other has outdated;
three instants separate announcement, reading and commit. Two closings meet at
the key in every order of their steps and are called again; three hours reach
the second day, with one hour whose orders belong to another day in +02:00.

Where deadlock is not checked, the system may stop: events purged and processes
dead (`Outbox`), calls over (`CartCheckout`), no process left to serve or a
bound reached (the others). An order never stops: a session can always ask for
something or its call fails.

## Proofs

Everything below holds for all values of the constants (any number of events,
workers, calls, items, runs, faults, races, thresholds), under the assumptions
each module names (`ConstantsAssumption`). Each `*Proofs` module proves
`TypeCorrect`, `InductiveInvariant` and `Implementation`, that the module
implements its contract through the mapping given at `Contract`, each step being
a step of the contract or a stutter (`DashboardCache` and `DayClosure` have
none). The rest, and why an invariant had to be strengthened:

- `OutboxProofs`. `IInv` is `TypeOK` and, for each row, the ownership of its
  lock (`LockInv`), what its jobs can be (`JobInv`), that what it misses is
  still subscribed, and two budgets. `SentMissesNobody` is part of it next to
  `JobInv`: what a row misses is among the targets each of its resolved jobs
  took, since a device that has not left since was there to be resolved, so that
  a job none of whose targets failed leaves nothing missing.
  `DeliveryBudget`: the jobs that may still deliver, plus the deliveries made,
  plus one if the row is free to be claimed, are at most one plus the expired
  locks. `DuplicatesNeedExpiry` alone is not inductive, since it does not see
  the deliveries still to come; each claim takes what a recovery has given.
  `ClaimBudget` does the same for `AttemptsBounded`, counting only the jobs that
  may still give the row back. `TerminalIsFinal` follows from the fence: a
  settled row has no lock owner, so no late write finds it.
  `OneWorkerUntilExpiry` reads `DeliveryBudget` the other way: until the lock of
  a row is found stale, one job at most may deliver it or give it back, none
  while it is free and none once it was delivered.
- `CartCheckoutProofs`. `OrderBudget`: of an uncompleted draft, the calls at
  work other than the holder of a current claim (`Exempt`) are at most
  `overruns`; of a completed one, they and those that have ordered are at most
  one more. A call joins them only when its claim times out or is released by
  another, which only an overrun makes possible. `ReadsAreFresh` ties what a
  call has read to what the draft holds; `PathsCommitted` and
  `DraftKeepsItsFile` say whose files the names are, hence that deletes after a
  commit never hit a file in use: `OrderMatchesDraft` and `OrderKeepsItsFile`.
  `AnswersAreOrders` needs that answers have been placed (`Answered`), which
  holds because a completed draft names an order; that there is one follows from
  the budget. `FinalizedUnlessOverrun` is the other half of the finding: what the
  comment promises is true as long as no checkout outlives its claim.
- `OrderLifecycleProofs`. `ReadsWereChecked` records the checks behind each call
  in progress, `CountBudget` allows one count for a terminal order and one per
  race. `FeeBeforePromise` follows because a call reads the fee before it asks
  for confirmation and nothing unsets it. `CancelledWhenEmpty` is inductive next
  to `IInv`: a commit that is not overtaken counted the items as they are, so
  the one that takes the last item saw one left. `DecisionLocked` also needs
  `DecisionReads`, the checks each call made on the decision it writes.
  `EffectsAreComplete` is not inductive: a call that read "confirmed" and writes
  it again adds no event. `EffectsInv` adds that the effects of the status each
  call has read are there as well, and effects only grow.
- `StoreFiguresProofs`. `AutoIsTheSum` needs `LockInv` (a row is held by one
  request) and `FeeInv`: while the fee holds the order's row, nothing it has
  added up changes, for an item's commit must wait for that row.
  `TotalFollows` and `AmountsSettle` follow from the staleness a commit is
  checked for. In its second part, on the dashboard
  (`DashboardInvariant`, `StaleOnlyInTheWindow`): `FiguresInv` dates figures,
  those cached under a version and those in a reader's hands, as older than every
  change they leave out (`Dated`), which lasts because a change commits now and
  versions are from the past; `AnnouncedInv` keeps what was announced behind the
  version, which only ever moves to now. Together they are
  `StaleFromTheWindow`, across expiry and restarts. (`BumpIfMissing`, that
  leaves a version there is alone, breaks the second.) In its third part, on the
  closing of the day (`DayInvariant`): `KeyInv` says one request at a time has
  inserted a date, and none once it is closed. `MessagesAreKept` alone does not
  see the message whose closing may still fail; `MessageInv` is the budget that
  does: the messages of a date are at most those unkept, plus one if a closure
  is there or the request that has inserted it has told (`Kept`). It also says
  that this request, unless a message of the date is unkept, told what it has
  added up, hence `ToldAsStored`. `FoundInv`
  and `CountedInv` say that an order found stays (it only moves between statuses
  that count), so that what is added up later includes it: `FoundAreCounted`.
- `CancellationPolicyProofs`. `ProbationBudget`: the probations begun, plus one
  if the flag of a suspension is up, are at most the suspensions.
  `ProbationsArePaid` alone does not see the one that may begin. The step from
  the lock to the commit needs `LockInv`: the flag a change has read under the
  tenant's lock is still the flag, for a cancellation that suspends would have
  to take the same lock. `ProbationWindow` and `OpeningInv` say that a
  probation outlives every rollover. `WarnedInTime` is inductive next to them:
  without a race counts grow by one, and resets start below the threshold.
- `ManagedSessionsProofs`. `EndsAreLogged` is inductive as it stands, once
  `SessionInv` and `RequestInv` say that the open session is the latest and that
  requests name sessions that were started.
- `PushSubscriptionsProofs`. `UniqueInv` (one row for an endpoint and for a
  device) holds always; `SoundInv`, that a row is sent to where it is looked up
  and an account's links to nobody, only until a race: the one that adopts a row
  whose endpoint has changed breaks it.
- `ImportRunProofs`. `RunInv` ties the step of a run to its status and its rows:
  when a run replaces, all its rows are behind it and none failed; with it
  `RemovedByReplacement` is a property of the one action that takes items away.
  `ItemsInv` says that an item has the external id it had at first, or none, and
  shares it with no other; `FoundInv` that what a row has found is there and had
  the external id of the row at first, if the row has one. The second makes
  `IdsYieldToNames` hold of an update that comes late: the id it writes may have
  been erased meanwhile, but it was the item's. It also says that an item that
  never had an id has the name of every row that is to write it, so that no
  update gives a name its second item and `CopiesNeedRaces` counts creations
  alone; that property is inductive next to `IInv`. `EndsAsDeserved` holds
  at the end of a run because all rows are then settled (`Finished`), and later
  because a row still at work belongs to no run with such a report
  (`FlightHasNoVerdict`).

Only model-checked are the liveness properties (`EventuallySettled`,
`DraftStaysUsable`, `FreshInTheEnd`), which are beyond the prover. Every other
property a passing run checks is a theorem.

## Not modelled

- Customers: rows and global identities under unique keys and random codes. The
  question is whether a retry inside an aborted transaction can succeed, which
  is a property of PostgreSQL's transactions, not of an interleaving.
- Delivery configuration and scheduling: updates take the tenant's row lock
  first, so they are serial; the slots are a pure computation on time zones and
  clock times, whose detail is all there is to it.
- The read paths of orders: queries and nothing else.
- Products, the store directory, availability requests, the spreadsheet import:
  listings, searches, parsing, and writes whose only conflict a unique index
  decides. They make up most of the source by lines.
- Authentication, tenants and users, admin and audit: one-row updates, with
  their audit row in the same transaction.
- The producers' payloads: hashing, encryption and wording.
- Webhooks and WhatsApp: calls whose failure is swallowed, and a table of recent
  event ids that only keeps a repeated webhook out of the log.
- The activity log, the command line, seeders and scripts: append-only rows and
  one-off programs.
- The frontend and the Android wrapper: clients of the API with no state the
  server relies on; their retries appear as repeated calls.

In the parts that are modelled, payloads, prices as numbers, wording and logging
are left out, as the header of each module says. A push message to an endpoint
that never answers keeps its process from polling again: Web Push is called
without a timeout, and `EventuallySettled` assumes the call ends.

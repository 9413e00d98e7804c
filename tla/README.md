# Formal models of the Odoo e-commerce microservice

TLA+ modules that model the service's core, the TLC configurations that check
them on small instances, and TLAPS proofs of what matters most for every
instance. Paths such as `src/services/outbox_service.py` are relative to the
Python project (`src/src/...` in `PROJECT.json`, where the repository itself is
`src/`). `PROJECT.json` maps every definition that models code to its lines and
lists the runs, the mutants, the findings, the hazards and the theorems.

## 1. The system

The service takes the changes of orders from Shopee and keeps Odoo in step:

    Shopee --webhook--> API --commit--> webhook_outbox --send_task--> Celery (Redis) --> order worker --> Odoo
                         ^                    ^                            ^                 |
    Shopee <--poll-- beat (10 min) -----------+        admin UI: retry ----+        order_mapping (Postgres)
                     beat (30 s): relay_outbox, (daily): cleanup, reconciliation

| Part | State it keeps | Operations | Talks to |
|---|---|---|---|
| Webhook receiver (`api/routers/webhooks.py`) | nonces in Redis, `webhook_event_log` | replay check, one commit of event and outbox row, mark, answer, background publish | platform, Redis, Postgres, outbox |
| Polling fallback (`workers/scheduled.py`) | one Redis set of seen orders with one expiry | list, SADD, commit, EXPIRE | Shopee, Redis, outbox |
| Transactional outbox (`services/outbox_service.py`) | `webhook_outbox` rows: status, retry_count, process_after | immediate publish, relay, record, manual retry, cleanup | broker, beat, admin |
| Order worker (`workers/order_worker.py`, `_async_helper.py`, `_retry_policy.py`, `app.py`) | Celery messages, one event loop per process, soft and hard limits | process, retry, mark as dead letter | broker, order sync, outbox |
| Order sync (`services/order_service.py`) | `order_mapping` row, advisory lock | claim, create in Odoo, record | Postgres, Odoo client |
| Odoo client (`odoo/client.py`) | sale orders in Odoo | check, create, confirm; partners, bundles, stock | Odoo, breaker |
| Admin retry (`api/routers/admin.py`) | - | reset a failed order and send its task | Postgres, broker |
| Reconciliation (`services/reconciliation_service.py`) | what it has fetched and found, reports | nightly: fetch by pages, snapshot, auto-fix, comparison, report, alert | Shopee, Postgres, order sync, Odoo, Slack |
| Circuit breaker (`core/circuit_breaker.py`) | state, failures, passes of one process | admit, record success or failure | Odoo and Shopee clients |
| Shopee tokens (`connectors/shopee/auth.py`, `client.py`, `oauth.py`) | access and refresh keys and a lock in Redis, a backup in Postgres | get, refresh, store, retry a rejected request, OAuth callback | Redis, Shopee, Postgres |
| Product mapping cache (`services/mapping_service.py`, `config_admin.py`) | mappings and components of bundles in Postgres, copies of both in Redis | cache-aside read; save and delete, each followed by invalidations | Redis, Postgres, Odoo client |
| Stock and prices (`services/stock_service.py`, `workers/stock_worker.py`, `price_worker.py`) | `stock_allocation_config`; otherwise none, everything is read again | every 15 minutes a task per SKU: allocation, scarcest component of a bundle, push | Odoo, Postgres, mapping cache, Shopee |
| Transformation, shipment, monitoring, configuration UI, plumbing | - | pure or single-transaction | - |

What is hard in it:

- **Everything is at least once.** Webhooks are delivered again, rows are claimed
  again after a lease, messages are delivered again after a lost worker
  (`acks_late`, `reject_on_worker_lost`), calls are retried, an operator retries by
  hand, polls overlap.
- **Transactions end before the work they protect.** The claim of an outbox row
  ends before its send, the advisory lock of an order before the calls to Odoo, the
  SADD of a poll before its commit; what protects the work afterwards is a lease, a
  status with an age, an expiry.
- **Load, think, commit without a lock.** `_record_published`, `_record_failure`,
  `_mark_dead_letter`, the outcome of a sync and the admin retry load a row and commit
  it later. SQLAlchemy writes only the columns whose value changed against the loaded
  one, so two such transactions mix column by column.
- **Coroutines outlive tasks.** A worker process keeps one event loop
  (`_async_helper.py`). The soft time limit ends the task, not its coroutine, which
  goes on during the process' next task.
- **Two systems, no common transaction**: a create in Odoo whose caller timed out, a
  token pair that Shopee rotated and nobody stored, a stock update that Shopee carries out
  after its sender has gone on.
- **Long jobs over moving data**: the reconciliation and the stock tasks read a page, a
  row, a product at a time while workers, operators and both systems go on, and may stop
  anywhere.

What makes each part correct, in one line each (section 4 has the properties):
no row of the outbox is lost, none counts as sent that was not, none is given up
without a reason; one sync of an order at a time reaches Odoo, it creates one order,
and "success" is true and stays; a breaker closes and trips only for the calls that
count; one coroutine refreshes, and the stored refresh token is never a used one; an
answered webhook is stored, once, and polls do not duplicate it; the lines of a bundle
add up to its price; what the cache says of a mapping is what the database says, or is
about to be deleted, or goes within its lifetime; what Shopee offers was covered by
stock and comes to what the stock allows; the nightly report overlooks no order, and an
order that stays unsynced is told to somebody.

## 2. The plan

Most important behaviour first. Done:

1. `Outbox` + `OutboxProofs` - the outbox with its dispatchers, the consumer's marks,
   the operator's reset and the cleanup.
2. `OrderSync` + `OrderSyncProofs` - the sync of one order as workers, admin and the
   reconciliation run it.
3. `CircuitBreaker` + `OdooClientProofs` - concurrent calls through one breaker.
4. `TokenRefresh` + `TokenRefreshProofs` - tokens, lock, retry after a rejection, OAuth.
5. `EventIngest` + `EventIngestProofs` - webhooks, replays, and the poll.
6. `BundlePricing` + `OdooClientProofs` - the lines of a bundle in an Odoo order and
   the rounding of their prices.
7. `MappingCache` + `MappingCacheProofs` - product mappings, their copies in Redis, and
   the configuration UI that changes them.
8. `Delivery` - what the outbox promises, without its machinery; `Outbox` implements it
   (`Promise`, `DeliversEvents`), checked and proved.
9. `StockSync` + `StockSyncProofs` - the number to offer and the tasks that push it.
10. `Reconciliation` + `ReconciliationProofs` - a night's run against the rest of the
    system.

11. `OrderRecord` - what the order sync promises of one order; `OrderSync` implements it
    (`Promise`, `KeepsRecord`), checked and proved.

To come:

12. The partner lookup of the Odoo client (two orders of one new buyer), the logistics
    branch of the order worker.
13. Abstract specifications of the token store and of the mapping cache, with refinements.

Every module takes its parameters as CONSTANTS with a named assumption, has one
action per operation, and declares no RECURSIVE operator. `MC<Module>` extends it
with what TLC alone needs (symmetry, concrete functions); `<Module>_<run>.cfg` gives
values and properties; `<Module>Proofs` holds theorems.

## 3. Modules and code

Conventions. One action is one step that other processes see whole: a database
transaction that locks its rows, one command to Redis, one call to another system,
one commit. A transaction that reads without a lock is two steps, the read and the
commit, and `Written(was, new, current)` says what its UPDATE does: a column whose
value it did not change against what it loaded keeps what others wrote meanwhile.
Sets of at most one element stand for optional values. History variables record
what happened, for the properties only; no guard of an action reads one, but for a bound on
`failures` in `Outbox`. Operators
whose comment starts with "A bug" are plausible mistakes for mutation runs and no part
of `Next`.

### Outbox

Rows with `status`, `retry` (retry_count) and `due` (process_after has passed).
A dispatcher is a process that runs `try_publish_immediately` (`TryPublish`),
`relay_pending` (`Relay`) or `manual_retry` (`ManualRetry`). A claim takes a batch
(`Claim`), each row is sent (`SendReturns`, `SendRaises`, which may have been accepted
by the broker all the same) and its outcome recorded in two steps (`Get`, then
`PutPublished`, `PutFailed`, `PutReset`, or `PutGone` when the row was deleted). Workers
take messages, may meet a missing product and mark the row (`NotFound`, `MarkGet`,
`MarkPut`, `MarkLost`), end (`Finish`) or have the message delivered again
(`Redeliver`). The cleanup selects and later deletes (`CleanupSelect`,
`CleanupDelete`). `TimePasses` is the clock: a retry delay, or a lease that ends
while its dispatcher may only be slow. `Crash` loses a dispatcher, `LoseKick` the
background task.

`Delivery` is the abstract specification: accepted, delivered, processed, refused and
forgotten events, with no retries, leases or processes. `Promise` maps the rows to it
(accepted: inserted; delivered: taken by the broker; refused: "dead_letter"; forgotten:
deleted), and `DeliversEvents` says that every step of the outbox is one of its steps or
none. What it excludes: a row that is deleted unsent, a message for a row that was never
committed, a dead letter that appears after the row is gone. It lets a refused event
become live again, which an operator's reset and an overwritten mark (section 7) both do.

Left out: alerts after a commit, error texts, the length of delays (a due row may
be picked at once or much later), Postgres refusing connections (a crash of the
dispatcher has the same effect).

### OrderSync

One platform order. A worker runs one task; its process has two slots for
coroutines, since one may be left over from an earlier task. `Look`/`Claim` are Phase A under the
advisory lock (`pg_advisory_xact_lock`), `Skip` its early return, `Check`, `Create`,
`CreateOutlives`, `Confirm`, `OdooFails` Phase B, `Load`/`Store` the recording of the
outcome and of a dead letter (`Marks`). `Requeue` is `self.retry`, `SoftLimitFires`,
`HardLimitKills` and `Crash` are the three ways a task ends from outside, `LateCreate`
is a create that Odoo carries out for a caller that gave up. `AdminLoad`, `AdminStore`,
`AdminSend` are the retry button; `Arrive("nightly")` and the free choice of `run` in
`Take` are a reconciliation that comes to this order after any time spent on others.
The assumption `SoftLimit < HardLimit <= StaleAfter` is the configuration: 240 s, 300 s
(`workers/app.py`) and 5 minutes (`order_service.py`).

`OrderRecord` is the abstract specification: a record of the order and its sale orders, with
no workers, messages, locks or clocks. `Promise` maps the row and Odoo to it. Until something
outlives its caller, or an operator's reset or a dead-letter mark is written over a running
sync (`overlapped`, `unsure`), the order is created only while its row is "syncing", and
once, "success" and "failed" follow only "syncing", success with exactly one order in Odoo, a
request of an operator follows only a failure, and a success is final. After that, what is
left is that sale orders stay and that a success has one. `KeepsRecord` says that each step
of the sync is one of these or invisible. It says nothing of a row that stays "syncing", or
"pending" after an operator's request, with nobody left to bring it on (`Stranded`): that is
`StrandedByLoss`, by which only a lost process, a failed transaction, a refused send or a task
without another try leaves one (the finding of section 7 is such a process).

Left out: the update of an order that already exists in Odoo beyond the outcome it
records, tracking numbers, payloads.

### CircuitBreaker

State, the failures as a set of entries with their ages (the code filters, extends and counts
its list, and its order plays no part; a slot tells entries of one age apart), the passes while half-open, and for every
coroutine the state that admitted its call. The lock is held before and after a call
and free during it: `Admit`, then `Fail`, `Succeed` or `Cancel` in whatever state the
breaker has by then.

### TokenRefresh

The keys in Redis, the lock and its expiry, what Shopee accepts, and coroutines that
send a request (first attempt, then a second one after a rejection), refresh for beat, or
complete an authorisation. Tokens are the number of the pair they were issued in.
Shopee may or may not accept a traded refresh token again; an authorisation may end
any older one. `store_tokens` writes two keys in two commands (`StoreAccess`,
`StoreRefresh`), and before them the callback its backup (`Backup`).

Left out: the OAuth state (one atomic GETDEL), signing, the read-only status page.

### EventIngest

Events in order, each about an order, with their webhooks; `Check`, `Insert`, `Mark`,
`Reply` are the handler, with Redis up or down in each; `List`, `Add` (SADD), `AllAdded`,
`Commit`, `Expire` the poll. The clock moves nonces, the set's expiry and the age of
events. The configuration's 5, 15 and 30 minutes enter as `NonceTTL`, `Window`,
`SeenTTL` with `Window < SeenTTL`.

Left out: requests with a bad signature or body (they only write a log line), the
pages of one listing (one step), the thirty days after which event logs are deleted.

### BundlePricing

The loop of `_build_order_lines` over the components of a bundle, as a sequential
program. Amounts are integers in the smallest fraction that prices have here, and `Unit`
is CURRENCY_ROUNDING in it; `Quantized` is decimal's rounding, written as a half-up
division. `Count` sums the units, `Spread` gives every component but the last the base
price, `SpreadLast` gives the last one what remains, at one price or, when that would be
off by more than a unit, at two (`SpreadLastTwice`). `Missing` is a component without a
product in Odoo. `Components` has the fallback to one unit of the mapping itself when
nothing is stored, and the total of units is at least 1.

Left out: items that are no bundle, the lookup of partners and taxes, the 28 digits of
decimal and the float the price becomes in the call (exact for amounts of an order).

### MappingCache

A slot of the cache is the key of a mapping (platform and SKU) or the id of one, for the
components of the bundle. A reader misses, queries and fills in three steps (`Get`,
`Select`, `Fill`); the answer may be old by the time it is stored, and a coroutine that
outlived its task may store it after any time (`age`, `MaxRead`). A request is its form
(`BeginSave`, `BeginCreate`, `BeginDelete`), the flush, which locks the row if a column
changed (`Flush`), the commit (`SaveCommit`, `DeleteCommit`) and one DEL per slot
(`Invalidate`), any of which may fail and ends the rest (`InvalidateFails`). The flush and
the query of the components are one step: what can commit in between is a save without a
lock, and that can be taken to have come first. Components are the set of the saves that
inserted them: a set of two is a bundle with the components of both. `ver` stands for all
columns but the key; 0 says "not active". Every mapping counts as a bundle, since a
simple one has the same slot with no components in it.

Left out: `list_active_for_platform` and `find_mappings_using_component` (one query each,
nothing stored; they are in `StockSync`), the audit line in the request's transaction.

### StockSync

`SafetyNet` queues a task per SKU, or only some when it dies. A task (`Take`) looks up the
listings of its SKU, and for one after the other (`Open`) reads product and setting of
each component (`ReadProduct`, `ReadConfig`) and pushes (`Push`, `PushSkipped` in a flash
sale, `PushRefused`). `Retry` is `self.retry`, `Crash` a lost process, `Fail` any other
end; `LateArrives` an update that Shopee carries out after its sender gave up. `Allocated`,
`Enough` and `Quantity` are the arithmetic: percentages are integers in the smallest
fraction that is stored, `Cut` cuts off towards zero, and `FallsShort` names the whole
products that come out just below themselves as floats and so lose a unit. `product`
carries a version; an offer carries what it was computed from. `OdooChange`,
`ConfigSave`, `ConfigDelete`, `MappingToggle` and `FlashStart` are the world.

A coroutine that the soft limit leaves on the loop is a slow one: any coroutine may wait
for any time here. Retries are not counted (a task whose retries are used up fails, as
any may). The mapping of an update is looked up through the cache, so one that is not
active any more may succeed or be refused. Components are constant: saves that change
them are the subject of `MappingCache`. MIDDLEWARE_DRY_RUN is off and ENABLE_STOCK_SYNC
on; with the first, nothing is pushed at all. Left out: the price worker, which nothing
in the repository calls.

### Reconciliation

`Trigger`, `Take`; `ListPage` and `FetchDetails` are the two requests of a page,
`Snapshot` the REPEATABLE READ transaction, `FixNothing`, `FixClaim` and then `FixDone` or
`FixFails` one turn of the loop over missing orders, `Compare` and `CompareFails` one of
the loop over synced ones, then `Persist` and `Alert` (or `AlertLost`). `RunFails` is an
exception outside of the loops, which `run_all_platforms` turns into an alert; `SoftLimit`
leaves the coroutine on the loop; `Crash` delivers the message again. Order workers claim,
sync and fail (`WorkerClaims`, `WorkerSyncs`, `WorkerFails`), orders change on both sides,
and `RowReset` takes a success back, as `OrderSync` shows to be possible. A claim can be
taken over when its task is over; how long that takes is `OrderSync`'s subject. `still`
holds the orders that nobody but the run itself has touched since it began, about which
alone its report can promise anything.

A row is "open" when there is none or it is pending, failed or dead-lettered. Left out:
orders_extra and the other counts (no decision depends on them); the switches
ENABLE_RECONCILIATION and MIDDLEWARE_DRY_RUN, taken as live.

## 4. What the runs check

| Run | Instance | What it shows |
|---|---|---|
| `outbox_race` | 1 row, 2 dispatchers, 1 worker, 1 crash, 2 failures | `SingleSender`: one send of a row between claim and record while no lease lapses; `RetryBudgetKept`: no retry is lost or counted twice and no live row is stranded above the limit; `EventuallyHandled`: every row reaches a worker or the dead letters |
| `outbox_reset` | 2 rows (1 without a queue), batches of 2, 2 dispatchers, 1 reset | `PublishedWasSent`, `DeadLetterEarned`: whatever interleaves, published rows were accepted and dead-lettered ones had a reason; `DeliversEvents`: the outbox implements `Delivery` |
| `order_crash` | 2 workers, 1 webhook, 1 reconciliation, 1 lost worker, 1 rollback, hard limit at 2 ticks, Odoo accepts duplicates | `ExclusiveSync`, `OneOrder`: also with a sync that starts late in a long task; `Drains`: every message is consumed and every task ends, also those that wait for a lock an abandoned coroutine never gives back; when the loops go on to run, no coroutine is left |
| `order_operator` | 2 workers, 1 webhook, 1 admin retry, 1 fault, 1 rollback, Odoo refuses duplicates | `SuccessIsBacked`, `SuccessKept` with an operator in between; `KeepsRecord`: the sync implements `OrderRecord`; `StrandedByLoss`: only a loss leaves the row to nobody |
| `order_lost` | 2 workers, 1 delivery | finding |
| `breaker_calls` | 3 coroutines, threshold 2, 2 passes | `TripIsRecent`, `CloseIsEarned`: late results neither trip nor close it; `Recovers` |
| `token_lock` | 2 coroutines, 3 beginnings, 2 pairs, 1 fault | `SingleRefresher`, `RefreshTokenKept`, `FreshRetry`; `Ends` |
| `ingest_replay` | 2 events, 2 handlers, 2 pollers, 2 deliveries, 2 polls, 2 faults | `AckedIsStored`, `InsertedOnce`, `SeededOnce` |
| `bundle_items` | every bundle of up to 3 components of up to 4 units, every price up to 12 units of the currency in halves, up to 3 bundles | `TotalKept`: the lines add up to the item's price within one unit; `UnitsKept`: no unit is lost in a group that becomes no line; `PricesNonNegative`: unless the bundle is too cheap for its units |
| `mapping_saves` | 2 requests, 1 reader, 2 keys, 2 ids, 3 saves, 1 failed DEL, lifetime and task of 1 tick | `CacheCoherent`: an outdated slot is about to be deleted or has one of three causes; `FreshAfterTTL`: even then it ends with its lifetime; `ComponentsOfOneSave`: requests that overlap do not mix their components |
| `stock_sync` | 2 SKUs, a simple listing and a bundle (2 units of its product and one more), 2 tasks, 1 edit, 1 fault, stock of 10 or -3, a float that falls short | `Covered`: every offer was covered by each component; `NoRollback`: no push goes back to older stock, unless tasks overlapped on the listing; `Settles`: the safety net repairs the rest |
| `recon_night` | 2 orders on 2 pages, 1 run, order workers, 1 edit, 1 fault, totals on both sides of the tolerance | `NothingOverlooked`: the report names every untouched order that is not synced or does not agree; `MissedIsTold`: an order that stays unsynced is in a report and an alert, or the failure of the run is |

Most passing runs also check their module's `TypeOK` (that of `OrderSync`, `CircuitBreaker`
and `BundlePricing` is proved instead), and every property has a
mutant: a plausible bug in one definition under which TLC finds the property violated.

### Bounds

Two processes of a kind are what a race needs, and three where the third finds what
the first two left (calls of a breaker). One order and one or two rows suffice
because rows and orders share nothing but dispatchers and workers; the second row
is there for batches and for a row without a queue. Limits of the code (retries,
threshold, expiries) are as small as they can be while their order is that of the
configuration, so that the case beyond the limit is reached. Constants whose comment
says "bound" cap what is unbounded in reality: crashes, failed transactions, deliveries,
resets, ticks. A run without the fault it is about would be empty; each has at least one.
`bundle_items` has no bound that the code has not, but for the sizes of its inputs: three
components reach a first, a middle and a last one, and four units the split of the last
line; the theorems cover the rest. Three saves are the first one, one that moves the
mapping and one that had loaded it before; the lifetime of a slot and a task are one tick
each, because only whether a fill comes within the task matters.
`stock_sync` needs two tasks, because the safety net queues one for each component of a
bundle; one edit makes stock old, and one fault lets the older number arrive late, be
retried or never be sent. Negative stock and a float product that falls short are in it. No
listing is broken for good (`Broken` is empty): with the product's own listing broken no task
of it would reach the bundle, which is the race the run is for, and a third listing is more
than TLC finishes. A task that ends before the bundle comes of a mapping that is gone.
`recon_night` has one order per page, so that something can happen between two pages, and
one run: a second one at the same time (a redelivery whose first run still goes on, or one
started by hand, docs/14_RUNBOOK.md:416) was checked once for its safety properties with
two coroutines and no edits (11 million states), and the theorems cover any number.
The weakest bound is two polls in `ingest_replay` (three of the window's length are
needed to see the set renewed): the theorem about `SeededOnce` covers every number.

`MaxQueued` bounds messages of a row in the broker and `MaxFailures` (breaker) the
list of failures; a step that would exceed them waits. `CHECK_DEADLOCK FALSE` is set
because every system here may stop: the bounds are used up and nothing is left to do.

### Fairness

- `Outbox`: beat goes on starting relays, a started dispatcher and a worker go on,
  time passes. Nothing is assumed of the background task, of the broker accepting
  sends or of the cleanup; retries are bounded by the code, and faults by a bound (a
  system that crashes for ever promises nothing).
- `OrderSync`: Celery hands out messages and enforces the hard limit; time passes; an admin
  request ends. Nothing is assumed of a coroutine: one that waits for the advisory lock has
  no timeout, and a left-over one goes on only while its process runs another task
  (`_async_helper.py:36`), which may never come. That tasks end all the same is the hard
  limit's doing. The second part of `Drains` has what is not assumed as its hypothesis: if
  every coroutine that can go on does (`LoopsRun`), none is left in the end. The steps
  themselves do not ask whether the process is busy: it may be so with another order, and a
  commit or a create may have been on its way.
- `CircuitBreaker`: the process keeps calling, calls end, the service recovers, and not
  every probe is cancelled (strong fairness of `Succeed`: a call that can return again
  and again is not cancelled or failed for ever).
- `TokenRefresh`: calls end, expiries happen. A coroutine that is left on an idle process
  and never goes on is one that crashed, as far as the tokens and the lock can tell.
- `StockSync`: beat goes on starting the safety net, messages are taken, a coroutine goes on
  or fails, flash sales end. Nothing is assumed of late updates. `Settles` is about listings
  of which no task meets a broken one first (`Served`).
- `Reconciliation`: beat starts the night's run, a worker takes it, and a coroutine goes on
  as long as its task does; after the soft limit nothing is assumed. Nothing is assumed of
  order workers, which may leave an order unsynced for ever.

Liveness is checked on these instances only.

## 5. What is proved

For any sets of processes, rows, events and any values of the constants that satisfy
the named assumptions. Each theorem has the shape: `Init` gives an inductive
invariant, every action keeps it, it implies the property. The invariants say what the
property needs to know of a step that has begun and not ended.

**OutboxProofs.** `TInv` is type correctness with the shape of dispatchers (idle iff no
batch; nothing to record before a send).
`SentInv` adds to `PublishedWasSent` that a dispatcher about to record "published" has
sent its row, and that a row a cleanup has selected was sent: without them the late
commit and the late delete look like a violation. `EarnedInv` bounds `retry` and every
loaded retry by the failures recorded. `ClaimInv` is the long one: a held row is
"processing" and not due, a row not inserted yet is held by nobody, and the value a
dispatcher has loaded is still the row's, as long as no lease lapsed; `SingleSender` and
`RetryBudgetKept` are parts of it. Assumption: `MaxRetries > 0`. `DeliveryImplemented` is the
refinement: initial states map to the initial state of `Delivery`, and each action, under
`TInv` and `SentInv`, to one of its steps (an insert to `Accept`, a send to `Deliver`, a mark to
`Process` or `Refuse`, a reset or a late "published" to `Reopen`, a delete to `Forget`) or to
none; `SentInv` is needed for the delete.

**OrderSyncProofs.** `BackedInv`: a sync past its create, or about to record that the
order exists, has an order in Odoo, and no step takes one out. It needs no
assumption about locks, limits or crashes. `LockInv`: who is between `Look` and `Claim` holds
the lock, alone, and only who records an outcome has one. `Undisturbed` is what exclusion
rests on once the lock is gone, as long as nothing overlapped: only the coroutine of a
running task is at work (`Owned`); while one syncs, the row is "syncing" and not older than
its task has run, so that `HardLimit <= StaleAfter` keeps others out (`RowHeld`); who
is about to claim meets nobody who syncs, and no success (`ClaimSafe`); two do not sync (`OneSync`).
`ExclusiveSync` is its last part, and `SuccessKept` follows because a write that is not a
claim finds the row "syncing". `CreatedOnce` adds that whoever has passed the check sees an
empty Odoo until it creates, and that no create is late. `RowInv`: before the
row exists nobody is past a claim, and an operator's reset is of a row that was past "pending". `RecordImplemented`
maps each step, under all of these, to one of `OrderRecord` or to none; `unsure` and
`overlapped` are never reset, which is proved first. `StrandedByLoss` needs types only: of
those that will bring the row on (`Called`, `Records`) a step takes away at most its own, by
recording an outcome, claiming the order or sending a message. `EverySyncGetsOn` bounds a
sync: `Ahead` counts the steps before it by its place and what it has still to write, each step
of its own lowers it, and nothing but a `Take` raises it.

**TokenRefreshProofs.** `Shape` says what a coroutine can be doing at each place;
`LockInv` that whoever is between SET NX and DELETE has set the lock, until it ended
under somebody; `IssuedInv` and `HolderInv` that a pair that was issued is new and has one
holder; `KeptInv` that a pair on its way to Redis is good, differs from the one there and
is not the one being traded; `FreshInv` that a pair nobody has published is nobody's
access token and that a rejected token never comes back to Redis. `RefreshTokenKept` and
`FreshRetry` do not use the lock: they hold although it may lapse. `EverythingGetsOn` is the
bound on retries: `Ahead` is a stretch for the goal (a first request has the refresh and the
second request before it) plus the place in it, and every step of a user's own lowers it.

**EventIngestProofs.** `StoredInv`: a nonce, an answer and a handler past its commit all
imply the line in the log. `OnceInv`: an event without an excuse is in one handler, and once
stored is covered by its nonce or by the handler about to set it. `SeedInv`: ages are ordered
like events (`AgeInv`), the orders of an uncommitted session are in the set and in one session
(`AddingInv`), and a seeded event stays in the set, by a renewal still to come or long
enough, until it is older than the window (`RenewInv`); that is where `Window < SeenTTL` is
needed.

**OdooClientProofs.** The bundles first. `LoopInv`: what the lines have so far and what
remains add up to price times quantity, and the units of the components passed are on the
lines. The lemmas say what half-up rounding does (within half a unit, exact on multiples),
and that splitting the last component over two neighbouring prices leaves less than a unit.
`PriceInv` gives the loop's sums as a function of the component, so that what the components
so far have cost too much by rounding is at most half a unit each, and a bundle that is not
too cheap keeps a price of zero or more for the last one (`PricesNonNegative`).
They hold for every `Unit`, price and quantity; the division is Z3's. Then the circuit
breaker its calls go through, as an instance: its theorems have the assumption on its
constants as a hypothesis (a module that is instantiated does not export it as a fact).
`Breaker!TypeOK` is inductive; `TripIsRecent` needs only that a failure leaves recent entries
in the list; for `CloseIsEarned` the passes counted are never more than the calls that
returned since the breaker last became half-open.

**MappingCacheProofs.** `Shape` ties the list of slots to invalidate to a request's place.
`CacheCoherent` is inductive with it, because a commit changes the content of three slots at
most, and each is in `Outdated` or in `Moved`. `FreshInv`: an outdated entry has at most the time
left that the clock still allows, and a reader that holds an old answer has held it since the
last change. `CompInv`: a new id is nobody else's (`NewIds`), and a row has one request that
locks it, which has seen the components it will replace (`LocksKept`). The first part of the
module is about the elements of sequences.

**StockSyncProofs.** The arithmetic first: a product cut off towards zero, with or without the
unit a float loses, is at most the share of the whole it should be (`Division`,
`ShareOfWhole`, `CutBound`), so an allocation is at most the stock (`AllocatedBound`), the
units of a component in the bundles it is enough for at most its allocation (`EnoughBound`),
and the minimum at most each (`QuantityBound`). `CInv`: what a coroutine has read and
what it has still to read make up the rows of its listing (`Progress`), so the offer it
pushes, and a late one, is covered. `RInv`: two coroutines on one listing are both `beside`
it (`Apart`), and the versions Shopee was told of, or one coroutine has read, are no newer
than the product's (`ToldVersions`, `VersionsOf`).

**ReconciliationProofs.** `RunInv(r)`, for every coroutine: it goes on to the snapshot only with
every order of the day (`Complete`), its copy of an untouched order is Shopee's (`Fresh`),
and each untouched order is, while it syncs, done, to be done, or in the report (`Sorted`),
and while it compares, in the report, to be compared, or in no need of it (`Compared`).
Every step of the world and of another coroutine leaves the untouched orders alone
(`Frame`), which is proved once for each and used through one lemma. That a page is empty
only when nothing is left rests on the finite set of orders and its cardinality.

Every safety property of section 4 is a theorem. Only model-checked: liveness
(`EventuallyHandled`, `Drains`, `Recovers`, `Ends`, `Settles`, `MissedIsTold`: TLAPS has no
ENABLED, so a step from fairness cannot be proved), and `NoEventLost`, which does not hold.
Of `Ends` and `Drains` the variant is proved: in `EverythingGetsOn` each step of a coroutine
brings it nearer to its end, at most 23 steps away, and in `EverySyncGetsOn` at most 11; what
the runs add is that fair steps are enabled until then (of `Drains`, its second part).

## 6. What is not modelled

Shipment confirmation (one call, nothing stored), the price worker (nothing calls it),
order transformation (pure), monitoring, health and alerts beyond the nightly one (no
state that another part reads), the platform page of the configuration UI (saves of a row
that no cache holds), configuration, logging, encryption and middleware. Of the Odoo
client: the lookup of partners and items that are no bundle. Of the order worker: the
logistics branch. The broker keeps what it
accepted; one that loses messages would refute every delivery property without saying
anything about this code.

## 7. Findings

One run ends in a counterexample, `order_lost`. docs/OUTBOX_PATTERN.md:2 promises that no
event is lost though a worker goes down. The message of a worker that died after Phase A
is delivered again, finds the row "syncing" and younger than five minutes, is skipped and
acknowledged; the row stays "syncing" with nothing left to finish it, until another event,
a poll or the nightly auto-fix comes along.

Met while modelling, without a run of their own:

- `order_worker.py:117-119` says the dead-letter mark makes dashboards and alerts see a
  failure. A worker can consume the message and commit "dead_letter" before the publisher's
  `_record_published` commits; "published" then wins (`outbox_service.py:206`), and the
  cleanup deletes the row later. Send, consumption, dead-letter commit, publisher's commit:
  four steps of `Outbox`.
- docs/04_SHOPEE_API.md:300 says the poll catches missed webhooks. An order that is in the
  set of seen orders is skipped, whatever changed; every poll that is not empty renews the
  whole set (`scheduled.py:158`), and an order enters it before the commit that seeds it.
- A sync that the soft time limit cuts off between its lock and its claim keeps the advisory
  lock, in a transaction of its own, until its process runs another task
  (`_async_helper.py:36`, `order_service.py:41`). The lock has no timeout: until then every
  other sync of the order waits for its own time limit and ends without an outcome.
- A reset (`outbox_service.py:123`) that loaded retry_count 0 before two failures were
  recorded leaves the column out of its UPDATE: the row is "pending" with its retries used
  up, and if the publish that follows is lost, the relay never selects it.
- `get_orders_by_date` sends up to 100 order_sn in one get_order_detail
  (`connectors/shopee/client.py:149-163`); docs/04_SHOPEE_API.md:167 and :176 give a maximum
  of 50. If Shopee enforces it, a day with more than 50 orders on a page fails as a whole,
  every night, with an alert that names no order.
- docs/13_GAP_PATCHES.md:499 expects a run of 15 to 30 minutes; the soft limit of its
  task is 240 s (`workers/app.py:32`), after which there is no log line, report or alert.
  `excused` names that case in `MissedIsTold`.
- docs/13_GAP_PATCHES.md section 7 compares the status as well; `_check_field_drift`
  compares the total and the tracking number. Sale orders that are gone or cannot be read
  are passed over without a trace in the report, and an order synced by this run is not
  compared. The alert carries a count; the orders are in the report.
- orders_extra counts by the time the mapping was created, so an order of the day that was
  synced after midnight is no match for it, and one of the day before is extra.
- A stock update that is refused during a flash sale, or behind a listing that ends the task,
  is repaired by the next safety net, or by none (`Served`). Two listings of one SKU each
  offer its full share, and so do two components with the same SKU in one bundle.
- A buffer given in Odoo is used as it is: one below zero offers more than there is.
  `Covered` holds for percentages.

- `admin.py:133-137` says that after a refused send the admin can trigger the retry again.
  The committed status is "pending", which the retry's own guard refuses.
- After the last retry of a task the row says "failed"; docs/02_ARCHITECTURE.md:145 promises
  a dead letter and an alert, which only `ProductNotFoundError` leads to
  (`order_worker.py:187`).
- `_mark_dead_letter` looks at no status: it can replace a success that another sync
  recorded meanwhile (`order_worker.py:148`; PROGRESS.md:148 takes success to be final).
  `overtaken`/`overlapped` exclude it from `SuccessKept`.
- A half-open breaker admits every call that arrives before the first probe ends;
  docs/diagrams/circuit-breaker.md:33,255 speak of one. The breaker is one per process, so the
  health endpoint of the API knows only its own.
- A refresh does not update the backup in `platform_config.credentials`, which
  docs/07_BUSINESS_RULES.md:196 expects (`auth.py:106`).
- docs/10_SECURITY.md:97 describes the nonce as a SETNX; the code reads it first and sets
  it after the commit (which is what `AckedIsStored` rests on, as its mutant shows).
- create succeeds, confirm fails: the retry finds the order, records success, and the order
  stays unconfirmed (`odoo/client.py:353`).
- A poll that dies between commit and EXPIRE leaves a set that may expire under the next
  poll, or never; `lapsed` excludes it from `SeededOnce`.
- A form of a bundle that is submitted twice at a time without a change of the mapping itself
  stores its components twice (`config_admin.py:393`): no column changes, so the flush locks
  nothing. `doubled` excludes it from `ComponentsOfOneSave`.
- Two saves that overlap and of which one moves the mapping leave the key it was moved from, or
  to, in the cache for its lifetime (`config_admin.py:431`), and so does a reader whose query is
  older than the commit it races (`mapping_service.py:63`); `excused` names these.
- In a bundle of many units at a very low price the components before the last, rounded up, can
  cost more than the bundle, and the last one gets a negative price (`odoo/client.py:405`): two
  units of the currency for 3 + 1 pieces. `PricesNonNegative` holds from n(n-1)/2 units of the
  currency on, for n pieces.

## 8. Running it

    tlc -workers 2 -config Outbox_race.cfg MCOutbox.tla      # any cfg with its MC module
    tlapm OutboxProofs.tla                                    # any *Proofs module

The runs take between a second and about two and a half minutes each, the proofs a few
minutes each.

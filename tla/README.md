# pg_monitor in TLA+

pg_monitor collects statistics of PostgreSQL clusters, stores them in a
PostgreSQL database of its own, and serves them to Prometheus (`/metrics`) and
as query analytics over chosen periods. This directory holds TLA+ models of its
collector, its storage with the migrations, its analytics, its API process and
the alerts on it, TLC runs that check them on small instances, and proofs by
TLAPS that every safety property of those runs holds for all values of the
constants: any number of clusters, workers, statements and requests, any delays,
thresholds and columns.

Paths below are relative to `src/pg_monitor/` unless they start elsewhere.

## 1. Inventory

| Component | State it keeps | Operations | Talks to |
|---|---|---|---|
| Collector worker, scheduler (`collector/worker.py`, `scheduler.py`, `providers/collector.py`) | phase of the process, retry attempt and delay, asyncpg pool, storage engine, APScheduler's state, two jobs, stop event | start with retries, two periodic jobs with timeouts, shutdown on a signal | monitored cluster (pool), storage (unit of work) |
| Collection (`collector/service.py`, `repository.py`, `queries.py`, `models.py`) | none between cycles | `collect_runtime_once`, `collect_queries_once`: stamp, read, convert | monitored cluster |
| Runtime storage (`storage/repositories.py` `RuntimeSnapshotRepository`, `uow.py`, `orm.py`, `session.py`) | `runtime_snapshots`, `runtime_database_snapshots` (history), `runtime_current`, `runtime_database_current` (latest) | `write_runtime_snapshot`, `list_runtime_current`, `get_runtime_current`, commit or rollback | storage database |
| Query storage (`QuerySnapshotRepository`) | `query_metric_snapshots` | `write_query_snapshot`, `get_latest_snapshots_at_or_before` | storage database |
| Query analytics (`query_analytics/`) | none | weekly top, week over week: windows, deltas, ranking | query storage |
| Runtime metrics (`metrics/`) | service counters of the API process | load the latest state, render it | runtime storage |
| HTTP API, application (`api/`, `app.py`, `providers/api.py`) | engine and pool, one `ServiceMetrics`, its cached reference, each request's place | middleware, routes, error mapping, lifespan | analytics, metrics, storage |
| Alerts (`src/docker/prometheus/`) | how long each rule has held | scrape, evaluate | `/metrics` |
| Migrations (`src/alembic/`) | `alembic_version`, the tables' columns | upgrade, downgrade | storage database |
| Settings, logging (`config/`, `logging/`) | none shared | validation, formatting | |
| Other deployment files, tools (`src/docker`, `src/tools`) | configuration | run once | |

How they interact: a job of the collector stamps a snapshot, reads the cluster,
and hands the snapshot to the storage in one transaction (the unit of work). The
API process never talks to the collector: it reads the tables. So the tables are
where the processes meet, and where most of the difficulty is.

What is hard, with the line of each case in `PROJECT.json` under `hazards`:

* writers of one cluster overlap when workers do (a rolling restart, two
  collectors), commits come in any order, and the latest state is maintained in
  two tables by four statements, one of which decides whether the others run;
* a reader takes two statements for its answer;
* a write can fail or be cancelled anywhere, and COMMIT's answer can be lost;
* counters of `pg_stat_statements` are evicted and reset between snapshots,
  stamps are taken before the reads, and boundaries of windows may fall on,
  before or between snapshots;
* the startup can fail half way through and be asked to stop while it waits;
  the shutdown cancels jobs that use what is being closed; some waits have no
  timeout;
* requests share a pool that may run dry, and build the objects they share
  while others ask for them;
* the age of a snapshot is a difference of two hosts' clocks, the rule that
  orders snapshots compares stamps of a clock that may be set, and what a scrape
  cannot show no alert can see;
* migrations are interrupted, and run beside the writers whose tables they
  change.

What makes each component correct:

* runtime storage: the history is whole, the latest state is the latest
  snapshot of the history with exactly its databases, nothing goes back in time,
  success is reported only for what is stored, every write ends;
* query analytics: no delta exceeds what was executed, a statement that was not
  reset is reported exactly, what adjacent windows report adds up to what was
  executed, a limited list is the top;
* worker: no attempt and no exit leaves connections or half-done jobs, the
  retries are bounded and backed off, a stop request always ends the process,
  jobs are never lost from the schedule;
* API: each answer is counted once and where `/metrics` shows it, connections
  come back on every path, requests do not wait for each other;
* ages and alerts: neither early nor late by more than the clocks disagree, a
  stopped collector is noticed, values are those of the present;
* migrations: the tables are those of the recorded revision, nothing is lost,
  and what is refused is too wide.

## 2. Modules

| Module | Models |
|---|---|
| `RuntimeSnapshots` | snapshots, the row sets of the tables, the rule "captured no later" of both upserts |
| `RuntimeLedger` | the abstract storage: record a snapshot, show the latest, one step each |
| `RuntimeStore` | the runtime storage, statement by statement, and its readers |
| `QueryDeltas` | `delta.py` and the ranking of `service.py`, as operators |
| `QueryAnalytics` | the monitored server's counters, the query jobs, the query storage and the requests |
| `CollectorWorker` | one collector process |
| `ApiService` | the API process: middleware, routes, units of work, lifespan |
| `SnapshotAlerts` | the age of what is shown, under clocks that are set, and the alert rules |
| `StorageSchema` | the migrations, the columns' widths and the ids, beside writers |
| `RuntimeStoreProofs`, `QueryDeltasProofs`, `QueryAnalyticsProofs`, `CollectorWorkerProofs`, `ApiServiceProofs`, `SnapshotAlertsProofs`, `StorageSchemaProofs` | the theorems about each, section 6 |
| `MC...` | instances for TLC (`SnapshotAlerts` needs none) |

The modules meet at the tables: `RuntimeStore` and `QueryAnalytics` say what a
reader of `ApiService` gets, and what a job of `CollectorWorker` in the stage
`writing` does; `StorageSchema` treats a write as one step and says when the
tables refuse it; `SnapshotAlerts` abstracts the store to the upsert's rule,
whose atomicity `RuntimeStore` shows.

Definitions named after a "Fault" in their comment are plausible mistakes. No
specification uses them; each replaces a definition in a mutant of
`PROJECT.json`, to show that the property it is paired with notices.

### RuntimeStore

One action is one statement of the code. `Begin` is a job entering its unit of
work with a snapshot (`scheduler.py:96`); `InsertSnapshot`, `UpsertCurrent`,
`CheckLatest`, `DeleteStale`, `UpsertRows`, `FlushRows` are the statements of
`write_runtime_snapshot` in order, with the early return of
`_upsert_runtime_database_current` as the branch of `CheckLatest` and the return
for a snapshot without databases as the branch of `DeleteStale`. `Commit`,
`CommitUnconfirmed`, `Fail` and `Rollback` are the exits of
`StorageUnitOfWork.__aexit__`, a cancelled job or a dead worker included.
`LoadCurrent`, `LoadDatabases`, `LoadFails` are `_load_runtime_states`, for all
clusters or for one; either of its SELECTs may fail. The history rows are added
before the upserts and written by the last flush, because `storage/session.py`
turns autoflush off; a path without that flush would still write them, because
COMMIT flushes first.

PostgreSQL is external and modelled from how the code uses it: read committed,
a statement sees what was committed before it and its own transaction's work; an
`INSERT ... ON CONFLICT DO UPDATE` waits for the transaction that holds the row
or has inserted the key, then evaluates its `WHERE` on the committed row, and
keeps the row locked to the end of the transaction even when the `WHERE` is
false. `lockedBy` is that lock; a transaction's own work is `tx`, published by
COMMIT.

A snapshot's counters are abstracted to the identity of the collection that
read them (`of`): the code copies them and never compares them.

### QueryDeltas, QueryAnalytics

The server side (`Execute`, `Evict`, `Reset`, `Tick`) is external.
`StartCycle`, `ReadStatements`, `StoreSnapshot`, `AbandonCycle` are a query
cycle: the stamp of `collector/service.py:126`, the SELECT, the transaction of
`write_query_snapshot` with the unique constraint of `storage/orm.py:23`, and
every way to end with nothing stored. `StoreSnapshot` is one step because its
rows become visible in one COMMIT and no other statement decides anything.
`Ask` and `LoadPoints` are the two SELECTs of the bulk load, with snapshots
stored in between; the result is computed from the loaded points by
`BuildQueryDeltas` and `TopQueries`. `executed`, `readings` and `known` are not
the code's: they record the truth the answers are compared with. Of the seven
counters the code treats alike, the two a result can be sorted by are kept. The
ranking is stated by places (the i-th of the sorted list is the one with i - 1
others ahead of it) and not by a sort, so that it can be proved about.
`lastRun` serves one property of section 5.

`WeeksAddUp` compares what the two windows of an answer report together with
what was executed between their outer snapshots, not with a third result of the
same points: so it notices windows that overlap or leave a gap, and a boundary
that is resolved twice while snapshots are stored.

### CollectorWorker

The process is one event loop, so an action is what runs between two awaits.
`phase` is where `run_worker` is; `jobs` where the coroutine of each job is:
`checking extension` (query jobs only) and `loading`, which use a connection of
the pool under `wait_for`, `writing` (in the unit of work, no timeout), and after
a cancellation `releasing` or `rolling back`. `CollectionFails`, `TimesOut` and
`WriteEnds` are the ways a cycle ends; `CollectionFails` also stands for the
missing extension, which ends a query cycle with an error before anything is
read. APScheduler's `shutdown(wait=True)` runs as a callback of the loop's next
turn (`StopScheduler`), cancels the running jobs and does not wait for them, so
the container's closing interleaves with their unwinding; `pool.close()` waits
for its connections, and `asyncio.run` for the tasks that are left.

### ApiService

Again one event loop; `req[r].stage` is where a request's task is. `Arrive`,
`ResolveMetrics`, `Complete` and `Fail` are `request_context_middleware`:
`app.state.service_metrics` is `cached`, an instance the container has built is a
number up to `provided`, and two requests may both find no cached instance and
ask for one. `AnswerDirectly` stands for the answers that need no storage (200 of
the health check, 404, 422), `WindowOverflows` for the `OverflowError` of
`query_analytics/service.py:93`, which no handler knows. `EnterUnitOfWork`,
`CheckOut`, `ConnectFails`, `ReadAnswered`, `ReadFails`, `Commit`, `CommitFails`
and `Rollback` are a storage route inside its unit of work; `Handle` is what
`api/exceptions.py` makes of an error. `counters` is a bag of (instance, route,
status), so that a count in a registry `/metrics` does not show can be told
apart. `Observe` counts in the instance that is cached, where the middleware uses
its own reference: the container provides one instance, so they are the same
object. `Commit` contains the rendering of `/metrics`, which has no await after
the states are loaded. `Drain` and `CloseContainer` are the shutdown. `before`
and `shown` are not the code's: what had been answered when a scrape came, and
what it showed. The request id is left out.

### SnapshotAlerts

Time passes in `Tick`s of one scrape and one evaluation of the rules. The row of
`runtime_current` is kept relative to now: `data`, how long ago it was read, and
`stamp`, how far its `captured_at` was ahead of real time then; so "captured no
later" (`Upsert`) compares `stamp + data`, and `Age` is what the exporter
computes with the API's clock. `Collect` merges stamp, read and store: the
collection has a timeout, but a write may wait (`scheduler.py:96`), so a first
row that is stored long after its stamp is outside the model. `StepClock` sets either clock, up to `MaxStep`
off. A scrape that finds the storage down leaves no series (`ScrapeAnswered`):
`get_metrics` loads before it renders. `Stale`, `Blocked`, `ErrorsSeen` are the
expressions of `alerts.yml`, `Hold` is its `for`. Rates are abstracted in favour
of the alert: any 5xx that is seen counts as above the ratio.

### StorageSchema

`Upgrade` and `Downgrade` are the three revisions, operation by operation;
`Migrate`, `Operate`, `OperationFails`, `CommitMigration`, `Crash` are one run of
alembic in the single transaction of `env.py`. A migration has its own place
(`at`, the revision it has reached, and `done`, the operations of the current
script behind it) and its own version of the tables it has `touched`; of the
others it sees what is stored (`InMigration`). COMMIT publishes both. Types and
values are `int4` or `int8`; a serial id is a counter up to `MaxId`. DDL locks
its table to the end of its transaction (`Locked`), so a write waits for a
migration that has touched its table and runs beside one that has not. A write is one step here, stored or
refused as a whole. Left out are the gaps in the ids that failed writes leave,
the unique constraint (`QueryAnalytics` has it), the lengths of strings, indexes,
and columns that are not integers.

## 3. Runs

| Run | Instance | Shows |
|---|---|---|
| `runtime_store` | 2 clusters, 2 databases, 3 snapshots, 2 times, 2 writers, 1 reader, symmetry | the eight safety properties of the storage; 620 thousand states |
| `runtime_ledger` | 1 cluster, 1 database, 3 snapshots, 2 writers | `WriteEnds` under fairness, and the refinement; 75 thousand states |
| `query_analytics` | 2 statements of different cost with 4 and 1 executions, 1 drop each, times 0..2, 2 windows, 1 collector | exactness and bounds of the answers, and that a limited list is the top, with ties and different orders by calls and by time; 2.2 million states |
| `two_collectors` | 1 statement, 3 executions, no drops, 2 collectors | `NeverOvercounts` when cycles overlap |
| `collector_worker` | the 2 jobs, 4 attempts, delays 1, 2, 3 (capped) | startup, shutdown, jobs, with liveness; 478 states |
| `api_service` | 3 requests of any route, a pool of 1 | one count per answer, connections, no request waits for another, shutdown; 388 thousand states |
| `snapshot_alerts` | threshold 3 ticks, `for` 2, clocks at most 1 off | how early and how late the stale alert can be, that it comes, that newer snapshots are shown again; 94 thousand states |
| `storage_schema` | all revisions, 5 columns that may be wide, 3 ids | schema, data and refusals under migrations beside writers; 564 thousand states |
| `missing_baseline`, `overlapping_reads` | 1 statement | violations, see section 5 |
| `outage_unnoticed`, `stale_blocked_alert` | the instance of `snapshot_alerts` | violations, see section 5 |

Bounds, and why they are enough:

* two writers suffice for any conflict over one row; three snapshots let two of
  them commit in either order and a third run beside or after them; two times
  give earlier, equal and later stamps; two databases give added, kept and
  dropped ones in one transition, and snapshots with none. `Collections` bounds
  the number of writes: once all are begun only readers act.
* two clusters are needed for a reader that mixes them; the ledger run has one,
  for clusters share no row, and the proof covers any number;
* times 0..2 put boundaries before, on and between snapshots, and
  `<<1, 2>>` has a window before it for week over week, `<<0, 2>>` one that
  spans a middle snapshot; four executions and a drop let a counter stay below,
  meet and pass its earlier value after a reset, also over two windows; the
  second statement keeps a snapshot stored when the first one's entry is gone;
* four attempts reach the capped delay and stay there;
* three requests and one connection: one holds it on a database that does not
  answer, one waits for it, one scrapes; three are also the fewest in which two
  resolve the metrics together while a third is counted. Any route may be asked
  by each, and more connections only make waiting rarer;
* a threshold of 3 and a `for` of 2 ticks let clocks that are 1 off, twice that
  between each other, move the age to both sides of the threshold within the
  `for`. `Horizon` caps the age of old data above
  `Threshold + For + 2 * MaxStep`, where no rule tells ages apart any more;
* the five columns are the first and the last counter the migration widens, an
  oid of each store, and a counter of the databases; each other column is
  declared like one of them. Two ids would do for "used up", the third lets a
  migration run between the last writes.

`CHECK_DEADLOCK FALSE` is set where the system may stop: in `runtime_ledger`,
which without readers stops once `Collections` is used up, and in
`collector_worker` and `api_service`, where a process that has ended takes no
step. Symmetry is used only in `runtime_store`, which has no liveness property.

## 4. Fairness

* `RuntimeStore!FairSpec`: weak fairness of the next statement of each writer's
  transaction. It says that the database answers, that it rolls back
  transactions whose client is gone, and that it wakes a statement waiting for a
  row nobody holds. The code sets no timeout of its own on storage statements,
  so nothing weaker would do, and `Fail` and `Begin` are not fair: a write need
  neither fail nor start. Weak fairness is enough for a waiting upsert because
  the number of writes is bounded; with an endless stream of writers it stands
  on PostgreSQL's queue for the row.
* `CollectorWorker!FairSpec`: the loop runs what is ready; the connects and the
  ping of the startup end, by the driver's timeouts at the latest; a collection
  ends at the latest by `wait_for`'s timeout (which outcome is not fair);
  intervals elapse; a cancelled job unwinds. That the storage answers is not
  assumed, because no timeout covers it: `WriteEnds` is not fair, and the
  preflight's read of the storage (`scheduler.py:195`) is a premise,
  `PreflightAnswered`, of `StartupSettles` and `StopEnds`. Without that premise
  both are false: a storage that accepts the connection and never answers keeps
  the process from starting and from stopping. `Signal` is not fair.
* `ApiService!FairSpec`: the loop runs what is ready, the container answers, and
  a wait for a connection ends at the latest by the pool's timeout (30 s by
  SQLAlchemy's default; `storage/session.py` sets none). That the database
  answers is not assumed; `DrainEnds` has it as its premise. `Arrive` and `Drain`
  are not fair.
* `SnapshotAlerts!FairSpec`: time passes, and a collector that is up with a
  storage that is up collects. Clocks, stops and outages are not fair; `CatchesUp`
  and `StaleFires` say for which of them they hold.
* `QueryAnalytics` and `StorageSchema` state no liveness.

## 5. Disagreements found

* `missing_baseline`: README.md:17 of the repository says metrics are calculated
  for the chosen period. `delta.py:18` takes a missing snapshot at the window's
  start for an empty one, so a window that starts before the first stored
  snapshot reports cumulative counters, also of statements that ran only before
  the window.
* `overlapping_reads`: `delta.py:43` says a negative delta means that counters
  were reset. Stamps are taken before reads, so when two workers' jobs overlap,
  the snapshot stamped later can hold older counters, and the statement is left
  out although nothing was reset. This is also why `query_analytics` has one
  collector: `ExactBetweenResets` and `WeeksAddUp` fail with two, and
  `NeverOvercounts` holds with two only as long as no entry is dropped (`NoOvercountUndropped`, section 6).
* `outage_unnoticed`: `alerts.yml:54` promises an alert when the 5xx ratio is
  above 5% for five minutes. `api/metrics.py:22` loads the snapshots before it
  renders anything, so while the storage is down `/metrics` is itself a 503: the
  counter of 5xx and the age never reach Prometheus, and neither
  `ApiHighErrorRate` nor `RuntimeSnapshotStale` fires.
* `stale_blocked_alert`: `alerts.yml:20` says a blocked session is present. The
  rule does not ask for the age, and the exporter shows the last snapshot however
  old, so after a collector has stopped the alert goes on firing on data that
  the same file calls stale.

## 6. Proofs

Every invariant that a passing run checks, the action properties
`CurrentNeverRegresses`, `ScrapeMovesForward`, `NeverEarly` and `NothingLost`, and
the refinement of `RuntimeLedger` are theorems. They hold for all values of the
constants that satisfy the assumptions named in the modules, which say no more
than what the values are: times and delays are numbers, marks such as `NoTime` or
`NoWriter` are no values of another kind, a pool has a connection, requests and
statements are finitely many. The assumptions that carry more are
`RetryAssumption` (the delays and the number of attempts are positive, as the
settings' validators demand), `TicksAssumption` (`Horizon`, a bound of the model,
lies above every age the rules tell apart) and `QueriesAssumption` (statements
are numbered in the order the storage returns them, which decides ties).

In each module the inductive invariant is the type invariant, the parts below and
what they imply. `PTL` only combines its three facts; the work is one lemma for
each action or group of actions.

**RuntimeStoreProofs.** None of the safety properties is inductive alone. What
holds them up is what a writer knows at each statement, because of the row it
holds: after its upsert no one else changes the cluster's two tables, so what it
saw remains true to its commit. The invariant `Inv` is

* `TypeOK`, and `Carrying`: a transaction that is under way has a snapshot;
* `WriterInv` = `RowHeld` (from its upsert on, until it commits or fails, the
  writer holds the row of its cluster, and `wrote` still follows from the
  committed row) and `RowWork` (what `wrote`, `deleted`, `upserted` and `rows`
  must be at each stage, in terms of the committed rows);
* the properties `HistoryWhole`, `CurrentIsLatest`, `CurrentInStep`,
  `AcknowledgedIsStored`, `ScrapeIsWhole`;
* `SeenCommitted`: what a reader's first statement returned is in the history,
  for the cluster it stands for. With `CurrentIsLatest` it is no later than what
  is shown now, which gives `ScrapeIsWhole` after the second statement and the
  two action properties.

The refinement needs in addition `Fresh`: no snapshot under way is in the history
already, which follows from `begun`, so that a commit is a `Record` of a snapshot
not in the ledger.

**QueryAnalyticsProofs.** Readings of the server are ordered by `Precedes`:
nothing done is undone, what the counters have forgotten (`Lost`) stays
forgotten, and only a drop makes them forget. `NowGrows` shows that every step
moves the server forward in this order. `Sound` says what any collectors keep:
types, at most one reading for each stored time, rows that are exactly those of
the stored readings, and a request that has resolved and loaded what there was
when it began (`RequestInStep`). From there the proof splits, as the code does:

* `NoOvercount`, `ExactUnlessDropped`, `WeeksSum`: under `OneCollector` readings are stored
  in the order of their stamps (`ReadInOrder`, `CyclesInOrder`), so the reading
  behind a window's start precedes the one behind its end, and `DeltaBound`
  compares them. `ShareOfWindow` gathers what follows for one window; two of them
  give the sum of `WeeksSum`. The hypothesis is what one worker for each cluster gives: its
  scheduler runs a job once at a time (`max_instances=1`, `scheduler.py:56`); run `overlapping_reads` shows what happens otherwise.
* `NoOvercountUndropped`: any number of collectors under `MaxDrops = 0`. Two
  readings are then in some order whatever their stamps (`InSomeOrder`), and what
  is read is all that was done, so a delta is exact or negative, and a negative
  one is left out. That two readings of one time are not both stored is not
  obvious: of two readings in order the later lists what the earlier does
  (`ListedStays`), so they share a statement and the unique constraint refuses
  the second (`UniqueStep`).
* `TypeCorrect` and `TopRanked` need neither hypothesis. `TopRanked`
  rests on `QueryDeltasProofs`: the order of a result is a strict linear order
  (`AheadLinear`), in a finite set each place of such an order is taken once
  (`Places`), hence `TopIsAhead`.

**CollectorWorkerProofs.** `Opened` says what is open in each phase, `Outcomes`
with which results a process ends, `SchedulerInStep` and `JobsInStep` that jobs
run only while the scheduler does and only unwind afterwards, `Waited` that the
n-th delay is the smaller of `BaseDelay * 2^(n - 1)` and the cap. The prover does
not know powers; `2^n` is proved to double by counting subsets.

**ApiServiceProofs.** `RequestsInStep` relates the stage of each request to what it
holds and to the instances that exist; `PhaseInStep` puts the end of the process
after the last answer; the connections in use are the requests `Holding` one;
`CountersInStep` says that the count of a route and status is the number of
requests answered so; `ScrapesInStep` bounds what each scrape has shown. Counts
are cardinalities, so most lemmas say which one request enters or leaves a set.

**SnapshotAlertsProofs.** `HeldSince`: data that have been older than any clocks
can hide for n ticks, all of whose scrapes were answered, were found stale by each
of these n + 1 evaluations. `NotEarly` needs only types: the age shown and the true age
differ by no more than the clocks do.

**StorageSchemaProofs.** `Tables`, `Wide` and `Types` say what the schema is `done`
operations after a revision on the way to another; `Position` and `Towards` where
a migration can be. The invariant is that the stored tables are those of the
stored revision (`HasSchema`), that their rows and ids fit (`TablesTyped`), and
that a migration sees the schema of its place with all the rows of the tables it
has not dropped (`MigrationInStep`), although writers add rows to the tables it
has not touched.

Only model-checked:

* liveness, `WriteEnds`, `StartupSettles`, `StopEnds`, `JobsGoOn`,
  `NoneWaitsForAnother`, `DrainEnds`, `CatchesUp`, `StaleFires`: fairness and
  ENABLED are out of the prover's reach;
* the four violations of section 5, which are counterexamples.

## 7. Not modelled

* Values: conversion of columns (`collector/models.py`), the SQL's expressions,
  the mean execution time, the text of the exposition.
* `get_latest_snapshot_at_or_before`: reached only through a repository without
  the bulk load, which the application does not have. `_render_fallback` of the
  exporter likewise: without `prometheus_client`, which `api_service_metrics.py`
  imports at its head, the application does not start.
* The counters of runtime snapshots. Two workers' cycles on one cluster may read
  in the other order than they stamp, as in `overlapping_reads`; the snapshot
  stamped later is then shown with the older counters, and a gauge goes back that
  `alerts.yml:32` reads with `increase()`. `ScrapeMovesForward` is about the order
  of the stamps only; the case is listed as a hazard.
* The windows `QueryAnalytics` is asked for satisfy `PeriodWindow`'s condition by
  assumption; that the others are answered with 422 is in `ApiService`.
* The exit of a startup that fails with an error other than
  `CollectorConnectionError`: modelled (`StartupBreaks`), but left out of
  `EndsClean`, since the code does not close the container there.
* Settings: pure functions of files and variables, read once. Both ways to load
  merge the same two mappings in the same order, so a model would state what it
  is to show. `RetryAssumption` is what the validators promise; NaN and infinity,
  which they let through, are listed as a hazard.
* Logging: formatting, and context variables no other component reads.
* The rest of the deployment (images, compose, dashboards, log shipping) and the
  scripts that simulate load: no state of the program.
* Waits and deadlocks between DDL and writers' transactions: a write is one step
  in `StorageSchema`.
* Traffic: the rules on latency, and the ratio of `ApiHighErrorRate` below one
  request per second (`alerts.yml:47`).

## 8. Plan

Every component that keeps state is modelled, and every safety property that is
checked is proved. What is left:

1. A composition of `CollectorWorker` with `RuntimeStore`, whose writers are then
   jobs of processes that are stopped and restarted, and the proof that its
   processes implement both.
2. An abstract specification of the analytics, "a window's answer is what was
   executed between two readings", as a refinement of `QueryAnalytics` with one
   collector.
3. Lemmas that bring the liveness properties closer to the prover: that each of
   their steps decreases a measure, which leaves only the fairness to TLC.

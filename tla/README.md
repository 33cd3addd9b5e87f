# Verification of the Metrics Collector pipeline

TLA+ models of the task pipeline of this repository (a FastAPI application, Celery
workers, a Celery Beat scheduler, PostgreSQL and a Redis broker), TLC configurations
that check them on small instances, and TLAPS proofs for every size of instance.

## 1. The system

| component | state it keeps | operations | what makes it correct |
|---|---|---|---|
| application metrics-sync dispatcher (`usecases/applications.py`) | `applications.sync_at`, `sync_scheduled_at` | one run per Beat tick: size a batch, lock due rows, reserve, commit, publish, release on failure | overlapping dispatchers never reserve the same row; a reservation is never orphaned; a due application is eventually synced |
| application sync task (same file) | the same row | load, fan out to machine/provider tasks, stamp or release | gives back exactly the reservation it serves |
| application projection (same file) | the set of rows | rebuild from machines, purge | whatever overlaps a rebuild, it keeps what is there all the time and ends up exact |
| provisioner cron dispatcher (`usecases/scheduler.py`) | `machine_provisioners.last_scheduled_at` | lock enabled rows, `is_due`, reserve, commit, publish, restore on failure | a cron slot is dispatched at most once and is not lost |
| Celery task tracking (`infra/queue/task_tracking.py`) | one `celery_task_executions` row per task | signal handlers in the publishing and in the running process | a row ends in the state its task ended in; late handlers never undo a terminal status |
| machine inventory (`usecases/inventory.py`) | machines, flavor history | one run per provisioner: match by external id or host name, upsert, snapshot | one row per machine; history follows changes; a run fails only for a cause |
| metric collection (`usecases/metrics.py`) | one metric row per provider, machine and day | fan out to (provider, machine) tasks, daily upsert, refresh of the optimization | overlapping collections keep one row per day |
| machine optimization (`usecases/optimizations.py`) | one recommendation row per machine | evaluate the scopes, replace if it changed | bounded targets; the stored row reflects the newest data |
| connector topology (`routes/machines/*.py`, `models.py`) | providers, provisioners, their links | create, patch, enable, attach, detach, delete | at most one provider per scope on a provisioner |
| retention (`usecases/maintenance.py`) | the same tables | purge old executions, stale machines, stale applications | what races a purge neither revives nor half-deletes a row |
| OIDC authentication (`infra/auth/oidc.py`, `api/main.py`) | cached discovery document, cached signing keys, the OpenAPI document of the process | fetch, cache, verify, answer | how old what decides a request can be |
| read routes (`api/routes/*.py`) | none | summaries, stats and pages, several statements each | what an answer can be trusted for while others commit |
| MCP gateway, connectors, encryption, settings, observability, migrations, launchers | see PROJECT.json | | not modelled, see the end |

How they interact.  Beat publishes a dispatcher task on every tick.  Dispatchers and
workers are separate processes, each can be scaled out, and they share state only
through PostgreSQL (READ COMMITTED) and through messages in the broker.  A Celery
worker acknowledges a message when it takes it, and no task is retried: a message may
be delivered twice (visibility timeout) and a task may die half way.  The API writes
the same rows concurrently.

The hard behaviours, each at its source line, are the "hazards" of PROJECT.json.

## 2. Modules

| module | what it models |
|---|---|
| `SyncBatch` | the batch-size arithmetic of the application dispatcher |
| `ReservationLease` | abstract: the reservation column as a lease |
| `ApplicationSync` | dispatchers, workers, broker queue, projection changes and time around `applications` |
| `MCApplicationSync` | symmetry for TLC |
| `ProvisionerDispatch` | the cron dispatcher |
| `TaskTracking` | publishing process, broker and workers around the execution rows |
| `ApplicationProjection` | overlapping rebuilds of the applications from the machines |
| `MachineInventory` | overlapping inventory runs, with their sessions, flushes, locks and constraints |
| `ConnectorTopology` | overlapping requests and inventory runs on providers, provisioners and machines |
| `OptimizationRules` | the rules from the evidence on a scope to a decision, and from decisions to a status |
| `MachineOptimization` | how the evidence on one scope evolves, and the row that the rules make of it |
| `MetricCollection` | overlapping transactions that refresh one machine's row |
| `ApplicationReads` | what the read routes answer while others commit between their statements |
| `OidcAuthentication` | the caches of the token validation, overlapping fetches, a provider that rotates and fails |
| `MC...` | the instances for TLC: symmetry, sets that a .cfg cannot write |
| `...Proofs` | the theorems of the module they extend; `OptimizationProofs` those of `MachineOptimization` (whose specification is `RowSpec`), `MetricCollection` and `ApplicationReads` (`ReadSpec`), since all three rest on the rules |

Three modules extend `OptimizationRules`: `MachineOptimization` varies the numbers and lets
no two refreshes overlap, `MetricCollection` keeps few numbers and lets all of them
overlap, `ApplicationReads` reads what refreshes have stored.  `ApplicationSync` is shown to implement `ReservationLease`.

### ApplicationSync

* `sync_at` and `sync_scheduled_at` are the two columns.  The code compares them only
  with `now - window` and `now - retry`, so a timestamp is kept as its *age* in ticks,
  saturating where no comparison can tell ages apart.  The order that `ORDER BY sync_at`
  needs is kept in `syncedBefore`.
* `dispatcher[d]` is one execution of the task: `started` has read the clock and sized
  the batch, `selected` is inside the transaction and holds row locks, `publishing` has
  committed.  `rows` is what it has locked, later what it has still to publish.
* `worker[w]` is one execution of `run_application_metrics_sync`.  `reserved` remembers
  whether the loaded row was reserved, because SQLAlchemy writes `sync_scheduled_at =
  None` only if the loaded value was something else.
* `SKIP LOCKED` is `Candidates`, which leaves out `Locked`; every other statement that
  writes a locked row has the guard that the row is not locked, since it would wait.
* `EnqueueSingle`, `Redeliver` and `Rebuild` are the API route, the broker and the
  rebuild and purge tasks.

### ProvisionerDispatch

* Time is a clock of ticks and a cron expression is a period (croniter is external).
* `published[p][t]` counts the runs of `p` published by a reservation made at `t`, and
  `lost` names the reservations that a crash or a failed restoration left behind: history
  variables that the properties read and no action does.
* `locked` are all the enabled rows the query locked, `todo` the due ones, `previous`
  the column values that a failed publish restores.
* After a failed publish the rows still to be published are read again one by one
  (`RestoreGet`, `db.get`), changed in memory (`restore`), and written in one transaction.
  A row deleted between its read and the commit makes that commit raise
  (`RestoreFails`), and the restoration of all the others is rolled back with it.
* `SKIP LOCKED` passes over the rows that other dispatchers hold and over any set that
  other writers, the API or an inventory run, hold at that moment (`SelectFrom`).

### TaskTracking

* A signal handler is a transaction of its own, two steps: it loads the row (or finds
  none) and it commits.  The ORM writes only the columns whose value differs from the
  loaded one; `Written` is that rule, and why two handlers may interleave into a row that
  neither of them wrote.
* `publish` is the publishing process: it inserts the PENDING row, or fails to, and then
  sends the message all the same; the row may be missing when a worker starts the task,
  and sending may fail after the row was inserted.  A worker acknowledges a message when
  it takes it; the broker may deliver an unacknowledged one again; a crash loses an
  execution.
* `outcomes` and `lost` are history: how executions ended, how many handlers the database
  failed.
* The retry handler is left out, since no task of the program is retried.

### ConnectorTopology

* `seen[r]` is the view a request has loaded, all at one instant.  Checks read `seen`,
  effects change `db` at the commit, and `raced` remembers the provisioners that a request
  changed after their rows had changed under it.
* Ids are never reused: `Unborn`, then a platform, then `Deleted`.

### OptimizationRules, MachineOptimization

* The evidence on a scope is the number of providers that see the machine, its capacity,
  and the window as (total, count): the average is compared multiplied out.  The code
  computes in doubles, so where an exact target is a whole number it may be one unit
  larger; the models and the proofs are exact.  Capacities are natural numbers.
* `CapacityStep` is 1024 MB in the code and 4 in the runs; the theorems hold for any.
* Which samples leave the window is abstracted: a window may hold any total.

### MetricCollection

* A run loads the machine and keeps that object, asks the connector, changes today's row
  in memory (`Upsert`), flushes (which locks its provider's row until the commit, and
  fails on the unique constraint if a row was inserted meanwhile), reads the snapshot, and
  only then locks the optimization's row, compares, overwrites and commits.
* `overlapped` marks a run that another commit overlapped, `stale` that the last writer
  was such a run or that a provider was switched since.  Both are history.
* The queue is abstracted: a collection may start at any time, since several may wait for
  a pair and `enabled` is not read again.  The row always exists, because the transaction
  that creates a machine creates it.  One provider per scope; machines and providers are
  not deleted.

### ApplicationProjection

* A rebuild reads the machines, reads the applications, and commits the difference, in
  three steps; inventory runs, deletions, purges and another rebuild commit in between.
  A row carries the number of its insertion, so that a row deleted and created again is
  another row: the code deletes by id, and a row that is gone is passed over.
* The unique constraint on name, environment and region fails a rebuild that inserts what
  another has inserted; nothing of it remains.
* `Coalesce` is the rule that readers and the rebuild share.  A machine without an
  application code has no key.
* `always`, `sometime` and `disturbed` are history: the keys that machines had all the
  time or at some time since a rebuild began, and whether it was alone.

### MachineInventory

* `run[w]` is a session.  `obj` is its identity map, `base` what the objects held when they
  were loaded or last flushed, `written` the rows it has flushed and so locked.  Autoflush
  is off: a lookup sees committed rows and those that this run has flushed, not what it
  only holds in memory.  A flush writes the columns that differ (`Write`).
* A new machine is flushed at once; a duplicate of a committed row fails the run, one of a
  row that an open session holds makes it wait (`Blocked`).  Updates are flushed with the
  next insertion or the commit, and host names one row at a time, against an immediate
  unique constraint.
* `Updated` are the rows that a commit changes, `Touched` the machines it has written
  about.  They differ when a report names a machine twice and the flavor changes there and
  back: the history grows, the row stays as it was.
* A run starts in two steps: it loads the provisioner and reads the clock (`Start`), and
  commits `last_run_at` (`Enter`), or finds that the provisioner is gone (`StartFails`).
  Other runs begin and commit in between.  The commit and the refresh of the row after it
  are one step.
* A failed run is rolled back as a whole and leaves its error on the provisioner.  The
  ORM clears `last_error` only if the run has loaded one, so that an error written
  meanwhile by an overlapping run stays.
* Purges and deletions wait for a row that a session has locked.  Which machines are stale
  is free, except that a written row is not.

### OidcAuthentication

* One process; the gateway runs the same code with caches of its own.  A request goes from
  one await to the next in one step: the lock around a cache is never held across an await,
  so that fetches overlap and a late one overwrites a newer entry.
* What a token says is reduced to its key, its roles and one flag for everything that is
  checked besides.  A header that cannot be read, or names no algorithm or no key, counts as
  no key: it is turned away before the keys are fetched.  Two exceptions are not caught by
  the code and fail the request (`failed`, a status of 500): PyJWKError, of a strange
  algorithm or key, and InvalidURL, of a discovery document with a nonsensical address.  An answer of the provider is usable, lacks endpoints or keys, is the
  empty object, or is no object at all.
* `Latency` bounds a fetch.  The time-out of the HTTP client is one of each read, not of a
  whole answer: the bound is an assumption about the provider, and what the properties
  promise depends on it.
* `seen` and `missing` are history: when a fetch would last have shown, or not shown, a key.

### ApplicationReads

* One request at a time, since requests write nothing.  Each statement is a step, and
  whole transactions of others, taken from the modules above, commit between them.
* A summary reads the ids of the machines, then their optimizations.  Stats read the
  machines, the last date in three tables, and the figures from three tables.  A page is a
  count and a query by offset; a client asks for page after page.
* `Orders` are all the orders in which the database may return a listing, given what it is
  sorted by: more than one if the criteria leave ties.
* Text filters are left out; `platform_id` and the application are kept, also together.
  The metrics are filtered by what stays in a row, provider, machine and dates (`within`);
  the filters by platform and by provisioner, which may change, are left out.

## 3. Runs

| run | question | bounds |
|---|---|---|
| `application_sync` | are selections exclusive and still due at the commit, is every reservation carried by someone, is the column a lease | 2 dispatchers, 1 worker, 2 applications of which one is born later, 1 failure, 1 message that is duplicated or enqueued by hand, clock readings up to 1 tick old |
| `application_sync_liveness` | is a due application eventually synced in spite of a failure and a crash | 1 dispatcher, 1 worker, batch of 1, window of 2 ticks |
| `provisioner_dispatch` | is a slot dispatched once while publishes succeed, and at most once more for each failure; is a slot that is marked as taken published, in hand or lost; is a due provisioner published | 2 dispatchers, 2 provisioners with periods 1 and 2, 2 clock readings, 1 failure, 1 crash, deletions at any time |
| `task_tracking` | does a settled task's row tell an outcome, are PENDING rows waiting, are terminal rows final, is a sent task recorded | 1 task, 3 workers, 2 redeliveries, 1 failed handler, 1 crash, 1 purge |
| `connector_topology` | one provider per scope and one platform, unless decided on stale rows | 2 requests, 2 providers, 1 provisioner, 1 machine, 2 platforms, 2 scopes |
| `machine_optimization` | do proposals carry the load, settle, and grow with it | a window of 2; capacities and totals around every threshold and margin |
| `machine_inventory` | do history, optimization and machine agree; does a run fail only for a cause; what has an undisturbed run done | 2 workers, 2 provisioners, 3 runs, 3 machines, reports that rename, resize, repeat, hand over and reuse a host name |
| `application_projection` | what may a rebuild add, delete or replace; does the projection become exact | 2 rebuilds, 2 machines, 2 applications and machines without one, 1 change of the machines, 1 purge, 1 lost rebuild |
| `oidc_authentication` | how old is the key that accepts, or its absence that rejects | 2 requests with sound and unsound tokens, 1 page, 1 key, lifetime 1, latency 1, 3 ticks, 1 change at the provider |
| `application_reads` | whose capacities are the totals; of which window are the stats; do pages cover each row once | 1 request of 10 kinds, 2 machines of equal host names, pages of 1 row, 2 commits of others |
| `metric_collection` | does the row reflect the data unless its writer was overlapped; is "ready" complete | 2 workers, 2 collected scopes, 1 provider that is switched, 2 utilizations, 2 flavors |
| `metric_race` | are stored samples always reflected: **violated** | the same |

Why the bounds are enough.  Overlap needs two dispatchers, requests or collections; a
batch that fails in the middle needs two rows; an insertion needs a row born later;
takeover of a stale reservation needs clock readings older than the retry delay, so ages
run to `RetryAfter + MaxDelay`.  A task needs three executions to have two of them overlap
and one come after.  The rules are homogeneous in the average, so two samples reach every
ratio that matters; the catalog has room below, within and above.  Two runs over two host
names reach every conflict between an insertion and another, a rename or a purge, and the
third run comes after an overlap; one report names a machine twice, with two flavors.  With a lifetime and a latency of one tick a fetch can
outlive an entry.  Pages of one row make every listing of two rows two pages, and of the
two commits one can prepare the tables and the other fall between statements.  The safety results that
matter are proved without the bounds.

The violated property is what docs/optimizations.md says of the refresh, and is recorded
as a finding: the snapshot is read before the lock on the row it overwrites, so that of two
collections the last to commit drops the other's sample.

Other limits met while modelling, of which no run is kept; the properties that are checked
are stated so as to hold beside them:

* a failing run releases its application at once and leaves `sync_at` alone, so it sorts
  first at every tick; with a batch of one nobody else is served (`DueIsSynced` has a run
  that fails once);
* after a failed publish the application dispatcher writes the column by id, without
  checking that it still holds its own reservation.  The cron dispatcher does the same
  with the value it read before, and may so rewind a slot that was published:
  `OneDispatchUnlessPublishFails` says unless, and `ExtraDispatchesAreFailures` bounds it by
  one more publication for each failure;
* the restoration of the cron dispatcher is all or nothing: one provisioner deleted during
  it leaves all the others marked as taken and unpublished until their next slot, without
  any crash (`lost`).  The release of the application dispatcher is one UPDATE of all rows
  and has no such case;
* the scope check of a connector reads rows without a lock and no constraint backs it
  (`raced` in `ConnectorTopology`);
* an idle machine has no target at all, and a machine below the minimum is raised to it
  whatever its target is;
* the OpenAPI document is built once: a page built while discovery failed says "currently
  unavailable" as long as the process lives;
* `GET /machines/optimizations?environment=UNKNOWN` does not find the machines without an
  environment, which the application routes count under that name;
* the summary of an application whose recommendations are incomplete compares totals of
  different machines (`SummaryIsSound` speaks of high confidence);
* who pages through optimizations while one is recalculated sees a row twice.

**Fairness.**  Beat starts dispatchers periodically and a process that runs goes on
(weak fairness of each dispatcher's and worker's steps); time passes (weak fairness of
`Tick`); a commit that waits for a row lock gets it, since PostgreSQL queues lock
requests (strong fairness of a run's end).  In `ProvisionerDispatch` the query of a
dispatcher is strongly fair for the case that no other writer holds a row (`SelectFrom(d,
{})`): writers hold a row for a statement or two, and not at every tick; so is the commit of
a restoration, which may have to wait for a lock.  In `TaskTracking` workers take messages, run
them and finish their handlers (weak fairness), since a worker that is up does nothing
else.  In `ApplicationProjection` Beat publishes a rebuild every
`APPLICATION_INVENTORY_SYNC_TICK_SECONDS` and workers take and finish them (weak fairness of
a worker's rebuild as a whole); commits of others are bounded, which is what "once machines
stop changing" means.  The other modules check safety only.  Nothing is assumed of failures, crashes,
rebuilds or messages sent by hand.

## 4. Proofs

From the assumptions on the constants only (natural bounds, application ids natural
and finite in number, positive cron periods, None different from every row, identifier
and flavor; of the read routes: finitely many machines with natural ids, natural sizes,
days and windows, keys ordered by a rank of their own, and requests of the four listings
that the routes can be asked):

* `ApplicationSyncProofs!BatchCoversWindow`: ticks per window times batch size reach every
  application.
* `ApplicationSyncProofs`: `TypeCorrect`, then `InductiveInvariant` for `IInv`.  The
  safety invariants are not inductive alone: `SelectionStillValid` needs that clock
  readings are used within `MaxDelay` (`ClocksAreFresh`), and `ReservationCarried`
  needs that only present rows are reserved (`ReservedArePresent`).  From `IInv`
  follow `SelectionsStayValid`, `ReservationsAreCarried` and the refinement
  `ReservationsImplementLease`.  That a batch is never larger than the configured one, or
  than what there is (`BatchSizeBound`), is part of its type correctness.
* `ProvisionerDispatchProofs`: `NoSlotIsDispatchedTwice`.  The argument: while no
  publish fails, every claim on a slot (a publication, or a reservation waiting to be
  published) is covered by the column (`ClaimsAreOnRecord`), so a new reservation,
  which requires the column's next slot to have begun, is a slot later than every
  claim (`ClaimsAreApart`); `NextRunIsMonotone` is the arithmetic.  `NoSlotIsLost`
  (`ReservedIsPublished`) allows any number of failures, crashes and restorations that roll
  back, and names exactly what they lose.  It is inductive with `PutBackIsDue`: what a
  dispatcher puts back was due when it was read, and time only makes it more so; whatever
  it overwrites, it therefore leaves a row that is due and of which nothing is claimed.
  That a slot is published at most once more for each failure
  (`ExtraDispatchesAreFailures`) is model-checked only.
* `TaskTrackingProofs`: `SettledRowsTellAnOutcome`, `PendingRowsWait`,
  `TerminalRowsAreFinal`.  The strengthening says who is responsible for a row that tells
  no outcome yet: the publisher, a message, or a worker (`UnsettledIsInHand`); for
  finality, that without redelivery a task is executed once (`ExecutedOnce`).
* `ConnectorTopologyProofs`: `ScopesStayUnique` and `PlatformsStayTogether`.  A provisioner is either untouched by the requests
  that are open or raced; on an untouched one the checks on the view are checks on the
  database, and a machine never changes its platform.
* `OptimizationProofs`, of the row: `ProposalsAlwaysCarryTheLoad`, `ProposalsAlwaysSettle`,
  `MoreLoadIsNeverLess`, for every catalog, window and step.  The rules are state free, so
  the induction is only that the row is what the rules make of its evidence
  (`RowTypeCorrect`); the work is
  in the arithmetic: `CeilDiv` rounds up, is monotone and cancels a common factor, hence a
  rounded target carries the load, and the same load on the resized machine has the same
  target.
* `OptimizationProofs`, of the collections: `OptimizationIsCurrent`, `ReadyMachinesAreMeasured`.  The
  strengthening is `ViewsAreFresh`: what a run that no commit overlapped has read, found
  and built is what it would read, find and build now.  Its commit then stores what its
  snapshot has seen, and makes every other open run an overlapped one.
* `OptimizationProofs`, of the requests: `ReadsTypeCorrect`, `SummariesAreSound`,
  `StatsOfOneWindow` and `PagesCoverRows`, for every set of machines, samples and requests,
  every window and page size, and any number of commits between the statements.
  `NextIsStep` reduces `ReadNext` to a step of the request, which leaves the tables, and a
  commit, which leaves the request but for what it remembers of it (`ObserveKeepsType`);
  `ReadsTyped` is what they keep.
  - `SummariesAreSound`.  Interleaving matters only to the undisturbed half (`SummaryInv`);
    the totals are a matter of the rows that were read.  A row is what a refresh stored
    (`StoredRows`), so a status of "ready" means evidence in every scope (`ReadyIsAllOk`,
    `DecidedType`), high confidence means "ready" in every row (`HighIsDecided`), no value
    is unknown, and the difference of the totals is the total of the differences
    (`SumOfDifferences`).  The sum is the fold of the library; what it does is proved
    without induction on the operator, from a minimal counterexample among the subsets of
    the finite set that is summed (`MinimalSubset`, `SumIsStep`).
  - `StatsOfOneWindow`.  `HistoryInv` puts the tables between the samples stored all the
    time and those stored at some time; `StatsInv` says that the latest day found so far
    bounds the former in the scopes that were read, and then that those of the window are
    in the figures, scope by scope.
  - `PagesCoverRows`.  `BeforeIsTotal`, case by case over the listings, makes the order
    unique (`SortedIsUnique`: two enumerations cannot differ at a first place), so each page
    continues the one sequence of which the earlier ones are a prefix (`PagesInv`).  It
    fails as soon as an order leaves a tie: `OrderIsUnique` is what the last criterion of
    every query is for.
* `MachineInventoryProofs`, for reports of any length and any number of runs.  `Steps`
  reduces `Next` to ten kinds of step; `TInv` is what a session holds together, and
  `OwnInv` that row locks exclude each other and ids are new.  On these rest:
  `NoCapacityUnrecorded` (what a session may still write shows in the history or in its own
  snapshots: `ObjectsAreShown`); `AuditTrailIsExact` (`SessionAudit`: as long as no other
  session has committed to a machine, the object was loaded from the row as it still is and
  its newest snapshot has its flavor; `HistoryIsOlder`: what is committed was found before
  what a session will commit); `MachinesAreUnique` (also of the rows as each session sees
  them, and of what two sessions have locked); `ConflictsHaveCause` and `RunsAreExact`.
  For the last two, `ExactIn` says of a run that nothing disturbs that its objects and the
  records before the next one correspond, each the machine that the record was about or a
  new one, and that no two of them collide; so whatever a lookup finds, a flush or an
  insertion meets is the machine of the record itself.  `OnlyTheCommitSucceeds` uses that a
  time of start belongs to one run.

  The first proof attempt of `AuditTrailIsExact` failed at a commit: a run that finds a
  flavor and, in a second record of the machine, the old one again adds two snapshots but
  does not update the row, so that a run which overlapped it was not counted as one that
  wrote the machine.  The model and its reports were extended (`Touched`), and TLC finds
  the violation when it is taken out.

* `ApplicationProjectionProofs`: `BracketedRebuild`.  The strengthening is `Brackets`: what
  a rebuild has read lies between the keys that machines had all the time and those they
  had at some time, and is the tables as they are while nothing disturbs it.
* `OidcAuthenticationProofs`: `RecentAcceptance`, `CausedRejection`, for every lifetime and
  latency.  The strengthening is `Backing`: an entry holds what the provider gave at most
  one fetch before it was made, and an open fetch brings what it gave since it began;
  every step of the world only moves the histories forward, and what is answered follows
  from the document that decided it.

Only model-checked: the liveness properties `DueIsSynced`, `DueIsPublished`,
`SentIsRecorded` and `Converges` (the prover has no support for fairness here), and the
invariant `ExtraDispatchesAreFailures`.  Every other invariant and every action property of
the runs that pass is a theorem.

## 5. Plan

In this order:

1. The inventory as an implementation of the table of machines that `MetricCollection` and
   `ApplicationProjection` take for granted.
2. Composition: `MetricCollection` over the providers of `ConnectorTopology`, with
   deletions and ambiguous scopes; the fan-out of a metric sync to its tasks.
3. `ApplicationSync` over `ApplicationProjection`, in place of its abstract `Rebuild`.

## Not modelled

* Reads of one statement and the shapes of responses (`contracts/http/resources.py`): they
  keep no state and relate no two.
* Text filters, the filters of metrics by platform and provisioner, and the routes of
  platforms.
* The PATCH of a cron expression: a period is a constant of `ProvisionerDispatch`.
* The retry handler of the task tracking: no task of the program is retried.
* The MCP gateway: it keeps no state but the caches of `OidcAuthentication`, and forwards
  reads to the API.
* Connectors: only mocks exist; they are the environment of the inventory and the
  collection.
* Encryption and sanitization: pure conversions of texts.
* Settings, sessions and readiness: they appear as constants and transactions.
* Migrations run once; logging and counters have no control; the launchers start processes.

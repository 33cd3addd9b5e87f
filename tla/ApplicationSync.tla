--------------------------- MODULE ApplicationSync ---------------------------
(***************************************************************************)
(* The metrics-sync pipeline of applications: dispatcher tasks reserve due *)
(* application rows and publish one task each, workers run those tasks.    *)
(* Source: internal/usecases/applications.py, its two worker tasks, and    *)
(* the API route that enqueues one application by hand.                    *)
(*                                                                         *)
(* Time.  The code compares timestamps with `now - window' and `now -      *)
(* retry' only, so a timestamp column is modelled by its age in ticks,     *)
(* saturating where no comparison can tell two ages apart.  NULL is SQL's  *)
(* NULL.  The order of the sync_at column is kept apart, in syncedBefore.  *)
(*                                                                         *)
(* Database.  PostgreSQL READ COMMITTED: SELECT ... FOR UPDATE SKIP LOCKED *)
(* locks the rows it returns until the transaction ends, and re-evaluates  *)
(* its WHERE on the newest committed version; an UPDATE or DELETE of a     *)
(* locked row waits for the lock.                                          *)
(***************************************************************************)
EXTENDS SyncBatch, FiniteSets, Sequences

CONSTANTS
  App,              \* ids of application rows, in the order they are assigned
  InitialApps,      \* rows that exist at the start
  Dispatcher,       \* concurrent executions of the dispatcher task
  Worker,           \* concurrent executions of the sync task
  Window,           \* application_metrics_sync_window_days, in ticks
  RetryAfter,       \* application_metrics_sync_retry_after_seconds, in ticks
  TickSeconds,      \* application_metrics_sync_tick_seconds, in ticks
  ConfiguredBatch,  \* application_metrics_sync_batch_size
  MaxDelay,         \* bound: ticks from reading the clock to the reservation
  MaxQueue,         \* bound: messages waiting in the broker
  MaxExtra,         \* bound: messages the dispatcher did not publish
  MaxFailures,      \* bound: publishes and runs that raise
  MaxCrashes        \* bound: processes that die

ASSUME ConstantsAssumption ==
  /\ App \subseteq Nat /\ IsFiniteSet(App)
  /\ InitialApps \subseteq App
  /\ \A a \in InitialApps, b \in App \ InitialApps : a < b
  /\ {Window, RetryAfter, TickSeconds, ConfiguredBatch, MaxDelay,
      MaxQueue, MaxExtra, MaxFailures, MaxCrashes} \subseteq Nat

VARIABLES
  row,                \* is the row of the application unborn, present, deleted
  sync_at,            \* age of the last successful sync, or NULL
  sync_scheduled_at,  \* age of the reservation, or NULL
  syncedBefore,       \* pairs <<a, b>>: sync_at of a is before that of b
  dispatcher,         \* local state of every dispatcher execution
  worker,             \* local state of every sync execution
  queue,              \* the broker's queue of sync messages
  extra,              \* messages published by hand or redelivered so far
  failures,           \* publishes and runs that raised so far
  crashes             \* processes that died so far

columns == <<sync_at, sync_scheduled_at, syncedBefore>>
faults  == <<extra, failures, crashes>>
vars    == <<row, columns, dispatcher, worker, queue, faults>>

NULL == -1

MaxSyncAge  == Window + MaxDelay
MaxLeaseAge == RetryAfter + MaxDelay

(* One tick older, up to the largest age that is told apart. *)
Older(age, cap) == IF age = NULL \/ age >= cap THEN age ELSE age + 1

IdleDispatcher == [pc |-> "idle", age |-> 0, batch |-> 0, rows |-> {}]
IdleWorker     == [pc |-> "idle", app |-> NULL, reserved |-> FALSE]

Present == {a \in App : row[a] = "present"}
Unborn  == {a \in App : row[a] = "unborn"}

(* Rows some dispatcher holds FOR UPDATE. *)
Locked == UNION {dispatcher[d].rows : d \in {e \in Dispatcher : dispatcher[e].pc = "selected"}}

Init ==
  /\ row = [a \in App |-> IF a \in InitialApps THEN "present" ELSE "unborn"]
  /\ sync_at = [a \in App |-> NULL]
  /\ sync_scheduled_at = [a \in App |-> NULL]
  /\ syncedBefore = {}
  /\ dispatcher = [d \in Dispatcher |-> IdleDispatcher]
  /\ worker = [w \in Worker |-> IdleWorker]
  /\ queue = << >>
  /\ extra = 0 /\ failures = 0 /\ crashes = 0

-----------------------------------------------------------------------------
(* Dispatcher: dispatch_due_application_metrics_syncs *)

(* Read the clock, count the rows, size the batch; no rows, no dispatch. *)
StartDispatch(d) ==
  LET batch == BatchSize(Cardinality(Present), Window, TickSeconds, ConfiguredBatch) IN
  /\ dispatcher[d].pc = "idle"
  /\ batch # 0
  /\ dispatcher' = [dispatcher EXCEPT ![d] =
       [pc |-> "started", age |-> 0, batch |-> batch, rows |-> {}]]
  /\ UNCHANGED <<row, columns, worker, queue, faults>>

(* Mutant: a reservation never expires. *)
FreeOnlyIfNull(a, age) == sync_scheduled_at[a] = NULL

(* Due, and not reserved, as of a clock reading that is `age' old. *)
Due(a, age) == sync_at[a] = NULL \/ sync_at[a] >= Window + age
Free(a, age) == sync_scheduled_at[a] = NULL \/ sync_scheduled_at[a] >= RetryAfter + age

(* ORDER BY sync_at NULLS FIRST, id *)
SortsBefore(a, b) ==
  \/ sync_at[a] = NULL /\ sync_at[b] # NULL
  \/ sync_at[a] = NULL /\ sync_at[b] = NULL /\ a < b
  \/ sync_at[a] # NULL /\ sync_at[b] # NULL /\ <<a, b>> \in syncedBefore

(* Mutant: a plain SELECT, without SKIP LOCKED. *)
CandidatesWithoutLocks(age) == {a \in Present : Due(a, age) /\ Free(a, age)}

(* Mutant: the query forgets the reservation column. *)
CandidatesWithoutRetry(age) == {a \in Present \ Locked : Due(a, age)}

Candidates(age) == {a \in Present \ Locked : Due(a, age) /\ Free(a, age)}

(* SELECT ... ORDER BY ... LIMIT batch FOR UPDATE SKIP LOCKED *)
SelectDue(d) ==
  LET found == Candidates(dispatcher[d].age) IN
  /\ dispatcher[d].pc = "started"
  /\ \E S \in SUBSET found :
       /\ Cardinality(S) <= dispatcher[d].batch
       /\ S # found => Cardinality(S) = dispatcher[d].batch
       /\ \A a \in S, b \in found \ S : SortsBefore(a, b)
       /\ dispatcher' = [dispatcher EXCEPT ![d].pc = "selected", ![d].rows = S]
  /\ UNCHANGED <<row, columns, worker, queue, faults>>

(* Stamp the selected rows with the clock reading and commit, which unlocks them. *)
CommitReservation(d) ==
  /\ dispatcher[d].pc = "selected"
  /\ sync_scheduled_at' = [a \in App |->
       IF a \in dispatcher[d].rows THEN dispatcher[d].age ELSE sync_scheduled_at[a]]
  /\ dispatcher' = [dispatcher EXCEPT ![d].pc = "publishing", ![d].batch = 0]
  /\ UNCHANGED <<row, sync_at, syncedBefore, worker, queue, faults>>

(* enqueue_application: the broker accepts one message.  rows keeps what is *)
(* still to be published; the order within a batch is left open.            *)
PublishOne(d) ==
  /\ dispatcher[d].pc = "publishing"
  /\ Len(queue) < MaxQueue
  /\ \E a \in dispatcher[d].rows :
       /\ queue' = Append(queue, a)
       /\ dispatcher' = [dispatcher EXCEPT ![d].rows = @ \ {a}]
  /\ UNCHANGED <<row, columns, worker, faults>>

(* Mutant: the slice of remaining ids starts one too late, so the row whose *)
(* publish raised keeps its reservation.                                    *)
ReleasedExceptFirst(d) ==
  LET r == dispatcher[d].rows IN {a \in r : \E b \in r : b < a}

(* application_ids[len(enqueued_ids):] *)
Released(d) == dispatcher[d].rows

(* enqueue_application raises: every row not yet published is released by one *)
(* bulk UPDATE, and the task ends.                                             *)
PublishFails(d) ==
  /\ dispatcher[d].pc = "publishing"
  /\ dispatcher[d].rows # {}
  /\ Released(d) \cap Locked = {}
  /\ failures < MaxFailures
  /\ failures' = failures + 1
  /\ sync_scheduled_at' = [a \in App |->
       IF a \in Released(d) THEN NULL ELSE sync_scheduled_at[a]]
  /\ dispatcher' = [dispatcher EXCEPT ![d] = IdleDispatcher]
  /\ UNCHANGED <<row, sync_at, syncedBefore, worker, queue, extra, crashes>>

FinishDispatch(d) ==
  /\ dispatcher[d].pc = "publishing"
  /\ dispatcher[d].rows = {}
  /\ dispatcher' = [dispatcher EXCEPT ![d] = IdleDispatcher]
  /\ UNCHANGED <<row, columns, worker, queue, faults>>

(* The process dies: an open transaction is rolled back, locks are dropped, *)
(* a committed reservation stays.                                           *)
DispatcherCrash(d) ==
  /\ dispatcher[d].pc # "idle"
  /\ crashes < MaxCrashes
  /\ crashes' = crashes + 1
  /\ dispatcher' = [dispatcher EXCEPT ![d] = IdleDispatcher]
  /\ UNCHANGED <<row, columns, worker, queue, extra, failures>>

-----------------------------------------------------------------------------
(* Worker: run_application_metrics_sync *)

(* Take the next message (acknowledged at once) and load the row.  A row    *)
(* that is gone ends the task.  The ORM later writes sync_scheduled_at only *)
(* if it was not NULL when the row was loaded: `reserved' remembers that.   *)
StartRun(w) ==
  /\ worker[w].pc = "idle"
  /\ queue # << >>
  /\ queue' = Tail(queue)
  /\ worker' = [worker EXCEPT ![w] =
       IF Head(queue) \in Present
       THEN [pc |-> "running", app |-> Head(queue),
             reserved |-> sync_scheduled_at[Head(queue)] # NULL]
       ELSE IdleWorker]
  /\ UNCHANGED <<row, columns, dispatcher, faults>>

(* Mutant: the run ends without touching the reservation. *)
ReservationKept(a) == sync_scheduled_at

(* application.sync_scheduled_at = None *)
ReservationGivenBack(a) == [sync_scheduled_at EXCEPT ![a] = NULL]

(* Every machine/provider pair is published; the row is stamped and the     *)
(* reservation given back in one commit.                                    *)
RunSucceeds(w) ==
  LET a == worker[w].app IN
  /\ worker[w].pc = "running"
  /\ a \in Present \ Locked
  /\ sync_at' = [sync_at EXCEPT ![a] = 0]
  /\ syncedBefore' = {p \in syncedBefore : p[1] # a} \cup {<<b, a>> : b \in App \ {a}}
  /\ sync_scheduled_at' =
       IF worker[w].reserved THEN ReservationGivenBack(a) ELSE sync_scheduled_at
  /\ worker' = [worker EXCEPT ![w] = IdleWorker]
  /\ UNCHANGED <<row, dispatcher, queue, faults>>

(* Something raises before the commit, or the commit finds the row deleted: *)
(* roll back, reload the row, and give the reservation back if it exists.   *)
RunFails(w) ==
  LET a == worker[w].app IN
  /\ worker[w].pc = "running"
  /\ a \notin Locked
  /\ IF a \in Present
       THEN failures < MaxFailures /\ failures' = failures + 1
       ELSE failures' = failures
  /\ sync_scheduled_at' =
       IF a \in Present THEN ReservationGivenBack(a) ELSE sync_scheduled_at
  /\ worker' = [worker EXCEPT ![w] = IdleWorker]
  /\ UNCHANGED <<row, sync_at, syncedBefore, dispatcher, queue, extra, crashes>>

WorkerCrash(w) ==
  /\ worker[w].pc = "running"
  /\ crashes < MaxCrashes
  /\ crashes' = crashes + 1
  /\ worker' = [worker EXCEPT ![w] = IdleWorker]
  /\ UNCHANGED <<row, columns, dispatcher, queue, extra, failures>>

-----------------------------------------------------------------------------
(* Environment *)

(* POST /applications/{id}/metrics/sync: publish without a reservation. *)
EnqueueSingle(a) ==
  /\ a \in Present
  /\ extra < MaxExtra /\ Len(queue) < MaxQueue
  /\ extra' = extra + 1
  /\ queue' = Append(queue, a)
  /\ UNCHANGED <<row, columns, dispatcher, worker, failures, crashes>>

(* The broker delivers a message again (its visibility timeout expired). *)
Redeliver ==
  /\ extra < MaxExtra /\ Len(queue) < MaxQueue
  /\ extra' = extra + 1
  /\ \E i \in 1..Len(queue) : queue' = Append(queue, queue[i])
  /\ UNCHANGED <<row, columns, dispatcher, worker, failures, crashes>>

(* rebuild_applications_from_machines and purge_stale_applications: rows are *)
(* inserted with fresh ids and deleted in one commit.                        *)
Rebuild ==
  \E born \in SUBSET Unborn, gone \in SUBSET (Present \ Locked) :
    /\ born \cup gone # {}
    /\ \A a \in born, b \in Unborn \ born : a < b
    /\ row' = [a \in App |-> IF a \in born THEN "present"
                             ELSE IF a \in gone THEN "deleted" ELSE row[a]]
    /\ sync_at' = [a \in App |-> IF a \in gone THEN NULL ELSE sync_at[a]]
    /\ sync_scheduled_at' = [a \in App |-> IF a \in gone THEN NULL ELSE sync_scheduled_at[a]]
    /\ syncedBefore' = {p \in syncedBefore : p[1] \notin gone /\ p[2] \notin gone}
    /\ UNCHANGED <<dispatcher, worker, queue, faults>>

(* Dispatchers that hold a clock reading they have not used yet. *)
HoldsClock(d) == dispatcher[d].pc \in {"started", "selected"}

Tick ==
  /\ \A d \in Dispatcher : HoldsClock(d) => dispatcher[d].age < MaxDelay
  /\ sync_at' = [a \in App |-> Older(sync_at[a], MaxSyncAge)]
  /\ sync_scheduled_at' = [a \in App |-> Older(sync_scheduled_at[a], MaxLeaseAge)]
  /\ dispatcher' = [d \in Dispatcher |->
       IF dispatcher[d].pc = "idle" THEN dispatcher[d]
       ELSE [dispatcher[d] EXCEPT !.age = Older(@, MaxLeaseAge)]]
  /\ UNCHANGED <<row, syncedBefore, worker, queue, faults>>

-----------------------------------------------------------------------------
DispatcherNext(d) ==
  \/ StartDispatch(d) \/ SelectDue(d) \/ CommitReservation(d)
  \/ PublishOne(d) \/ PublishFails(d) \/ FinishDispatch(d) \/ DispatcherCrash(d)

WorkerNext(w) == StartRun(w) \/ RunSucceeds(w) \/ RunFails(w) \/ WorkerCrash(w)

Next ==
  \/ \E d \in Dispatcher : DispatcherNext(d)
  \/ \E w \in Worker : WorkerNext(w)
  \/ \E a \in App : EnqueueSingle(a)
  \/ Redeliver
  \/ Rebuild
  \/ Tick

Spec == Init /\ [][Next]_vars

(* Beat keeps starting dispatchers and every process that runs keeps running; *)
(* time passes.  A worker's commit may have to wait for a row lock, which     *)
(* PostgreSQL grants in order: strong fairness.                               *)
FairDispatcher(d) ==
  WF_vars(StartDispatch(d) \/ SelectDue(d) \/ CommitReservation(d)
          \/ PublishOne(d) \/ FinishDispatch(d))

FairWorker(w) ==
  /\ WF_vars(StartRun(w))
  /\ SF_vars(RunSucceeds(w) \/ (worker[w].app \notin Present /\ RunFails(w)))

FairSpec ==
  /\ Spec
  /\ \A d \in Dispatcher : FairDispatcher(d)
  /\ \A w \in Worker : FairWorker(w)
  /\ WF_vars(Tick)

-----------------------------------------------------------------------------
(* Properties *)

(* An automatic batch never asks for more than the table can hold. *)
MaxBatch == IF ConfiguredBatch > 0 THEN ConfiguredBatch ELSE Cardinality(App)

DispatcherState ==
  [pc : {"idle", "started", "selected", "publishing"},
   age : 0..MaxLeaseAge, batch : 0..MaxBatch, rows : SUBSET App]

WorkerState == [pc : {"idle", "running"}, app : App \cup {NULL}, reserved : BOOLEAN]

(* Every variable stays within its type. *)
TypeOK ==
  /\ row \in [App -> {"unborn", "present", "deleted"}]
  /\ sync_at \in [App -> {NULL} \cup 0..MaxSyncAge]
  /\ sync_scheduled_at \in [App -> {NULL} \cup 0..MaxLeaseAge]
  /\ syncedBefore \subseteq App \X App
  /\ dispatcher \in [Dispatcher -> DispatcherState]
  /\ worker \in [Worker -> WorkerState]
  /\ queue \in Seq(App)
  /\ extra \in 0..MaxExtra /\ failures \in 0..MaxFailures /\ crashes \in 0..MaxCrashes

(* Between the locking SELECT and the commit of a dispatcher, each selected    *)
(* row still exists, is still due and still free as of the clock the           *)
(* dispatcher read, and no other dispatcher has selected it: the check and the *)
(* reservation are one step, whatever workers, rebuilds and other dispatchers  *)
(* do in between ("Reserve rows first so concurrent schedulers do not enqueue  *)
(* the same application twice").                                               *)
SelectionStillValid ==
  \A d \in Dispatcher : dispatcher[d].pc = "selected" =>
    \A a \in dispatcher[d].rows :
      /\ a \in Present
      /\ Due(a, dispatcher[d].age)
      /\ Free(a, dispatcher[d].age)
      /\ \A e \in Dispatcher \ {d} :
           ~(dispatcher[e].pc = "selected" /\ a \in dispatcher[e].rows)

(* Someone is still going to give the reservation of a back: a dispatcher that *)
(* has yet to publish it, a message, or a run that loaded the row reserved.    *)
Carried(a) ==
  \/ \E d \in Dispatcher : dispatcher[d].pc = "publishing" /\ a \in dispatcher[d].rows
  \/ \E i \in 1..Len(queue) : queue[i] = a
  \/ \E w \in Worker : worker[w].pc = "running" /\ worker[w].app = a /\ worker[w].reserved

(* As long as no process has died, a reservation is never orphaned: whatever   *)
(* publishes and runs fail, are duplicated or overlap, someone will give it    *)
(* back, and an application waits for RetryAfter only after a crash.           *)
ReservationCarried ==
  crashes = 0 => \A a \in App : sync_scheduled_at[a] # NULL => Carried(a)

(* What keeps the three invariants above inductive: only existing rows are      *)
(* reserved, and a clock reading is used within MaxDelay.                        *)
ReservedArePresent == \A a \in App : sync_scheduled_at[a] # NULL => a \in Present
ClocksAreFresh == \A d \in Dispatcher : HoldsClock(d) => dispatcher[d].age <= MaxDelay

IInv == TypeOK /\ SelectionStillValid /\ ReservationCarried /\ ReservedArePresent /\ ClocksAreFresh

(* sync_scheduled_at is a lease: a reservation younger than RetryAfter is never *)
(* taken over by another dispatcher, it only grows older or is given back.      *)
Lease == INSTANCE ReservationLease WITH lease <- sync_scheduled_at, MaxAge <- MaxLeaseAge
ReservationsAreLeases == Lease!LeaseSpec

(* An application that is due is eventually synced, or its row goes away, in   *)
(* spite of failed publishes, failed runs and crashes, finitely many ("Max     *)
(* target delay between two metrics syncs for one application").               *)
DueIsSynced ==
  \A a \in App :
    (row[a] = "present" /\ Due(a, 0)) ~> (sync_at[a] = 0 \/ row[a] = "deleted")
=============================================================================

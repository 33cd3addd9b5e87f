---------------------------- MODULE TaskTracking ----------------------------
(***************************************************************************)
(* The history of Celery tasks: signal handlers in the publishing process  *)
(* and in the workers write one celery_task_executions row per task id,    *)
(* and a nightly task purges old rows.                                     *)
(* Source: internal/infra/queue/task_tracking.py and                       *)
(* purge_old_task_executions.                                              *)
(*                                                                         *)
(* A handler is a transaction of its own: it loads the row (or finds       *)
(* none), changes the loaded object, and commits.  The ORM writes only the *)
(* columns whose value differs from the one loaded, to the row with the    *)
(* loaded primary key.  Celery swallows what a handler raises.             *)
(*                                                                         *)
(* Of the columns, status, finished_at (set or not) and error (set or not) *)
(* are kept.  No task of the program is retried, so the task_retry handler *)
(* never runs and a task ends in SUCCESS or FAILURE.                       *)
(***************************************************************************)
EXTENDS Integers

CONSTANTS
  Task,             \* task ids
  Worker,           \* worker processes (pool solo: one task at a time)
  MaxRedeliveries,  \* bound: messages the broker delivers again
  MaxFaults,        \* bound: worker handlers the database fails
  MaxCrashes,       \* bound: workers that die
  MaxPurges         \* bound: purges that find an old row

ASSUME ConstantsAssumption ==
  {MaxRedeliveries, MaxFaults, MaxCrashes, MaxPurges} \subseteq Nat

VARIABLES
  row,        \* the row of every task id, or NoRow
  inserted,   \* rows inserted so far, by task id: the primary keys
  publish,    \* how far the publishing process has come
  copies,     \* messages in the broker, by task id
  worker,     \* what every worker is doing
  outcomes,   \* history: how the executions of a task ended
  lost,       \* history: worker handlers that did not commit
  redelivered, faults, crashes, purges

history == <<outcomes, lost>>
bounds  == <<redelivered, faults, crashes, purges>>
vars    == <<row, inserted, publish, copies, worker, history, bounds>>

Terminal == {"SUCCESS", "FAILURE"}
Handlers == {"prerun", "failure", "postrun"}

NoRow    == [id |-> 0, status |-> "none", finished |-> FALSE, error |-> FALSE]
Fresh(k) == [id |-> k, status |-> "PENDING", finished |-> FALSE, error |-> FALSE]
Unread   == [NoRow EXCEPT !.id = -1]   \* the handler has not loaded the row yet
Conflict == [NoRow EXCEPT !.id = -2]   \* its INSERT raised IntegrityError

Idle == [pc |-> "idle", task |-> "none", loaded |-> Unread, outcome |-> "none"]

Init ==
  /\ row = [t \in Task |-> NoRow]
  /\ inserted = [t \in Task |-> 0]
  /\ publish = [t \in Task |-> "unborn"]
  /\ copies = [t \in Task |-> 0]
  /\ worker = [w \in Worker |-> Idle]
  /\ outcomes = [t \in Task |-> {}]
  /\ lost = 0
  /\ redelivered = 0 /\ faults = 0 /\ crashes = 0 /\ purges = 0

-----------------------------------------------------------------------------
(* The publishing process *)

(* before_task_publish: insert a PENDING row.  A task id is new when it is *)
(* published, so the handler never finds a row.                            *)
RecordPublish(t) ==
  /\ publish[t] = "unborn"
  /\ publish' = [publish EXCEPT ![t] = "recorded"]
  /\ row' = [row EXCEPT ![t] = Fresh(1)]
  /\ inserted' = [inserted EXCEPT ![t] = 1]
  /\ UNCHANGED <<copies, worker, history, bounds>>

(* The handler raises; the task is published all the same. *)
RecordPublishFails(t) ==
  /\ publish[t] = "unborn"
  /\ publish' = [publish EXCEPT ![t] = "recorded"]
  /\ UNCHANGED <<row, inserted, copies, worker, history, bounds>>

Send(t) ==
  /\ publish[t] = "recorded"
  /\ publish' = [publish EXCEPT ![t] = "sent"]
  /\ copies' = [copies EXCEPT ![t] = @ + 1]
  /\ UNCHANGED <<row, inserted, worker, history, bounds>>

(* The broker refuses the message, or the publishing process dies. *)
SendFails(t) ==
  /\ publish[t] = "recorded"
  /\ publish' = [publish EXCEPT ![t] = "failed"]
  /\ UNCHANGED <<row, inserted, copies, worker, history, bounds>>

(* The broker delivers a message again that no worker has acknowledged yet. *)
Redeliver(t) ==
  /\ copies[t] > 0
  /\ redelivered < MaxRedeliveries
  /\ redelivered' = redelivered + 1
  /\ copies' = [copies EXCEPT ![t] = @ + 1]
  /\ UNCHANGED <<row, inserted, publish, worker, history, faults, crashes, purges>>

-----------------------------------------------------------------------------
(* A worker *)

Busy(w) == worker[w].pc # "idle"

Executing(t) == {w \in Worker : Busy(w) /\ worker[w].task = t}

(* The message is acknowledged when it is taken, before the task runs. *)
Take(w, t) ==
  /\ ~Busy(w)
  /\ copies[t] > 0
  /\ copies' = [copies EXCEPT ![t] = @ - 1]
  /\ worker' = [worker EXCEPT ![w] =
       [pc |-> "prerun", task |-> t, loaded |-> Unread, outcome |-> "none"]]
  /\ UNCHANGED <<row, inserted, publish, outcomes, lost, bounds>>

(* The task function returns, or raises and task_failure is sent first. *)
RunEnds(w, outcome) ==
  /\ worker[w].pc = "running"
  /\ worker' = [worker EXCEPT
       ![w].pc = IF outcome = "FAILURE" THEN "failure" ELSE "postrun",
       ![w].outcome = outcome,
       ![w].loaded = Unread]
  /\ outcomes' = [outcomes EXCEPT ![worker[w].task] = @ \cup {outcome}]
  /\ UNCHANGED <<row, inserted, publish, copies, lost, bounds>>

(* Where a worker goes when a handler has returned or raised. *)
AfterHandler(w) ==
  CASE worker[w].pc = "prerun"  -> [worker[w] EXCEPT !.pc = "running", !.loaded = Unread]
    [] worker[w].pc = "failure" -> [worker[w] EXCEPT !.pc = "postrun", !.loaded = Unread]
    [] worker[w].pc = "postrun" -> Idle

(* SELECT ... one_or_none() *)
LoadRow(w) ==
  /\ worker[w].pc \in Handlers
  /\ worker[w].loaded = Unread
  /\ worker' = [worker EXCEPT ![w].loaded = row[worker[w].task]]
  /\ UNCHANGED <<row, inserted, publish, copies, history, bounds>>

(* Mutants: the start of a run keeps the status or writes one the API does    *)
(* not know; its end ignores `state'.                                          *)
StartedKeepingStatus(r) == [r EXCEPT !.finished = FALSE, !.error = FALSE]
StartedAsRunning(r) == [r EXCEPT !.status = "RUNNING", !.finished = FALSE, !.error = FALSE]
FinishedKeepingStatus(outcome, r) == [r EXCEPT !.finished = TRUE]
FinishedAsSuccess(outcome, r) == [r EXCEPT !.status = "SUCCESS", !.finished = TRUE, !.error = FALSE]

(* The `mutate' functions of the three handlers, on the row they loaded. *)
Started(r) == [r EXCEPT !.status = "STARTED", !.finished = FALSE, !.error = FALSE]
Failed(r) == [r EXCEPT !.status = "FAILURE", !.error = TRUE]
Finished(outcome, r) ==
  [r EXCEPT !.status = outcome, !.finished = TRUE, !.error = @ /\ outcome # "SUCCESS"]

Mutated(w, r) ==
  CASE worker[w].pc = "prerun"  -> Started(r)
    [] worker[w].pc = "failure" -> Failed(r)
    [] worker[w].pc = "postrun" -> Finished(worker[w].outcome, r)

(* The UPDATE of the columns that were changed from `old' to `new', on the   *)
(* row as it is now.  finished_at of a finished run is a new timestamp.      *)
Written(now, old, new) ==
  [id       |-> now.id,
   status   |-> IF new.status # old.status THEN new.status ELSE now.status,
   finished |-> IF new.finished \/ old.finished THEN new.finished ELSE now.finished,
   error    |-> IF new.error # old.error THEN new.error ELSE now.error]

(* No row was found and there is still none: the INSERT succeeds. *)
CommitInsert(w) ==
  LET t == worker[w].task IN
  /\ worker[w].pc \in Handlers
  /\ worker[w].loaded = NoRow /\ row[t] = NoRow
  /\ inserted' = [inserted EXCEPT ![t] = @ + 1]
  /\ row' = [row EXCEPT ![t] = Mutated(w, Fresh(inserted[t] + 1))]
  /\ worker' = [worker EXCEPT ![w] = AfterHandler(w)]
  /\ UNCHANGED <<publish, copies, history, bounds>>

(* Another worker inserted the row between load and commit: roll back ... *)
CommitConflicts(w) ==
  /\ worker[w].pc \in Handlers
  /\ worker[w].loaded = NoRow /\ row[worker[w].task] # NoRow
  /\ worker' = [worker EXCEPT ![w].loaded = Conflict]
  /\ UNCHANGED <<row, inserted, publish, copies, history, bounds>>

(* ... and load its row; one() raises if that row is gone by now. *)
ReloadRow(w) ==
  LET now == row[worker[w].task] IN
  /\ worker[w].pc \in Handlers
  /\ worker[w].loaded = Conflict
  /\ IF now = NoRow
       THEN lost' = lost + 1 /\ worker' = [worker EXCEPT ![w] = AfterHandler(w)]
       ELSE lost' = lost /\ worker' = [worker EXCEPT ![w].loaded = now]
  /\ UNCHANGED <<row, inserted, publish, copies, outcomes, bounds>>

(* The UPDATE finds the row it loaded, or matches nothing and raises. *)
CommitUpdate(w) ==
  LET t == worker[w].task
      old == worker[w].loaded
      found == row[t].id = old.id IN
  /\ worker[w].pc \in Handlers
  /\ old.id > 0
  /\ row' = IF found THEN [row EXCEPT ![t] = Written(@, old, Mutated(w, old))] ELSE row
  /\ lost' = IF found THEN lost ELSE lost + 1
  /\ worker' = [worker EXCEPT ![w] = AfterHandler(w)]
  /\ UNCHANGED <<inserted, publish, copies, outcomes, bounds>>

(* The database is out of reach: the handler raises and the task goes on. *)
HandlerFails(w) ==
  /\ worker[w].pc \in Handlers
  /\ faults < MaxFaults
  /\ faults' = faults + 1
  /\ lost' = lost + 1
  /\ worker' = [worker EXCEPT ![w] = AfterHandler(w)]
  /\ UNCHANGED <<row, inserted, publish, copies, outcomes, redelivered, crashes, purges>>

Crash(w) ==
  /\ Busy(w)
  /\ crashes < MaxCrashes
  /\ crashes' = crashes + 1
  /\ lost' = lost + 1
  /\ worker' = [worker EXCEPT ![w] = Idle]
  /\ UNCHANGED <<row, inserted, publish, copies, outcomes, redelivered, faults, purges>>

(* purge_old_task_executions: rows queued before the cutoff are deleted,     *)
(* whatever their status.  Which rows are that old is left open.             *)
Purge(t) ==
  /\ row[t] # NoRow
  /\ purges < MaxPurges
  /\ purges' = purges + 1
  /\ row' = [row EXCEPT ![t] = NoRow]
  /\ UNCHANGED <<inserted, publish, copies, worker, history, redelivered, faults, crashes>>

-----------------------------------------------------------------------------
TaskNext(t) ==
  \/ RecordPublish(t) \/ RecordPublishFails(t) \/ Send(t) \/ SendFails(t)
  \/ Redeliver(t) \/ Purge(t)

WorkerNext(w) ==
  \/ \E t \in Task : Take(w, t)
  \/ \E outcome \in Terminal : RunEnds(w, outcome)
  \/ LoadRow(w) \/ CommitInsert(w) \/ CommitConflicts(w) \/ ReloadRow(w)
  \/ CommitUpdate(w) \/ HandlerFails(w) \/ Crash(w)

Next == (\E t \in Task : TaskNext(t)) \/ (\E w \in Worker : WorkerNext(w))

Spec == Init /\ [][Next]_vars

(* A worker that runs takes messages, tasks end, handlers go on. *)
FairWorker(w) ==
  WF_vars(\/ \E t \in Task : Take(w, t)
          \/ \E outcome \in Terminal : RunEnds(w, outcome)
          \/ LoadRow(w) \/ CommitInsert(w) \/ CommitConflicts(w)
          \/ ReloadRow(w) \/ CommitUpdate(w))

FairSpec == Spec /\ \A w \in Worker : FairWorker(w)

-----------------------------------------------------------------------------
(* Properties *)

Status == {"PENDING", "STARTED"} \cup Terminal

RowType == [id : Nat \ {0}, status : Status, finished : BOOLEAN, error : BOOLEAN]

WorkerType ==
  [pc : {"idle", "running"} \cup Handlers, task : Task \cup {"none"},
   loaded : RowType \cup {NoRow, Unread, Conflict}, outcome : Terminal \cup {"none"}]

(* Every variable stays within its type; the statuses are those of the API's  *)
(* TaskExecutionStatus that the program can produce.                          *)
TypeOK ==
  /\ row \in [Task -> RowType \cup {NoRow}]
  /\ inserted \in [Task -> Nat]
  /\ publish \in [Task -> {"unborn", "recorded", "sent", "failed"}]
  /\ copies \in [Task -> Nat]
  /\ worker \in [Worker -> WorkerType]
  /\ \A w \in Worker : Busy(w) => worker[w].task \in Task
  /\ \A w \in Worker : worker[w].pc = "postrun" => worker[w].outcome \in Terminal
  /\ outcomes \in [Task -> SUBSET Terminal]
  /\ lost \in Nat
  /\ redelivered \in 0..MaxRedeliveries /\ faults \in 0..MaxFaults
  /\ crashes \in 0..MaxCrashes /\ purges \in 0..MaxPurges

(* Nothing of the task is in the broker or in a worker any more. *)
Settled(t) == publish[t] = "sent" /\ copies[t] = 0 /\ Executing(t) = {}

(* However many workers execute a task at once, and however their loads and   *)
(* partial updates interleave: when the last one is done, and no handler's    *)
(* commit was lost, the row is finished and tells how an execution ended.     *)
SettledTellsAnOutcome ==
  lost = 0 => \A t \in Task :
    Settled(t) /\ row[t] # NoRow => row[t].finished /\ row[t].status \in outcomes[t]

(* What keeps SettledTellsAnOutcome inductive.  A worker has its hands on the  *)
(* status if it is still going to write it: it has not loaded the row for its *)
(* last handler yet, or it has loaded a status that no execution ended with.  *)
HandsOn(w, t) ==
  /\ w \in Executing(t)
  /\ worker[w].pc = "postrun" => worker[w].loaded.status \notin outcomes[t]

OnItsWay(t) == publish[t] \in {"recorded", "failed"} \/ copies[t] > 0

(* The end of a run is in the history before a handler tells it.              *)
OutcomesAreKnown ==
  \A w \in Worker : worker[w].pc \in {"failure", "postrun"} =>
    /\ worker[w].outcome \in outcomes[worker[w].task]
    /\ worker[w].pc = "failure" => worker[w].outcome = "FAILURE"

(* A row that tells no outcome, or is not finished, is in someone's hands.    *)
UnsettledIsInHand ==
  lost = 0 => \A t \in Task : row[t] # NoRow =>
    /\ row[t].status \in outcomes[t] \/ OnItsWay(t) \/ \E w \in Worker : HandsOn(w, t)
    /\ row[t].finished \/ OnItsWay(t) \/ Executing(t) # {}

(* PENDING means that the task waits: for its message to be sent, in the      *)
(* broker, or for the start handler of the worker that took it ("Tasks stay   *)
(* PENDING | worker not running or broker issue").                            *)
PendingIsWaiting ==
  lost = 0 => \A t \in Task : row[t].status = "PENDING" =>
    \/ publish[t] \in {"recorded", "failed"} \/ copies[t] > 0
    \/ \E w \in Executing(t) : worker[w].pc = "prerun"

(* A terminal status is final, unless the broker delivers the message twice.  *)
TerminalIsFinal ==
  [][\A t \in Task : redelivered = 0 /\ row[t].status \in Terminal =>
       row'[t].status = row[t].status \/ row'[t] = NoRow]_vars

(* What PendingIsWaiting rests on: nobody executes a task that is not sent,   *)
(* and a row that is PENDING has never been anything else.                    *)
UnsentIsIdle ==
  \A t \in Task : publish[t] # "sent" => copies[t] = 0 /\ Executing(t) = {}

PendingIsFirst ==
  \A t \in Task : \A w \in Executing(t) :
    row[t].status = "PENDING" /\ worker[w].loaded.id = row[t].id => worker[w].loaded.status = "PENDING"

(* What TerminalIsFinal rests on: without redelivery the message of a task is *)
(* in one place, and only the handlers behind the end of its one execution    *)
(* see a terminal status.                                                     *)
ExecutedOnce ==
  redelivered = 0 => \A t \in Task :
    /\ copies[t] \in {0, 1}
    /\ publish[t] # "sent" \/ copies[t] = 1 =>
         Executing(t) = {} /\ row[t].status \notin Terminal
    /\ \A v, w \in Executing(t) : v = w
    /\ \A w \in Executing(t) : row[t].status \in Terminal =>
         worker[w].pc = "postrun" /\ row[t].status = worker[w].outcome

IInv ==
  /\ TypeOK /\ OutcomesAreKnown /\ UnsettledIsInHand
  /\ UnsentIsIdle /\ PendingIsFirst /\ PendingIsWaiting /\ ExecutedOnce

(* A message in the broker leads to a terminal row, unless a commit is lost   *)
(* or the row is purged.                                                      *)
SentIsRecorded ==
  \A t \in Task : copies[t] > 0 ~>
    (row[t].status \in Terminal \/ lost > 0 \/ purges > 0)
=============================================================================

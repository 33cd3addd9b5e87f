-------------------------- MODULE TaskTrackingProofs --------------------------
(***************************************************************************)
(* Proofs about TaskTracking, for every number of tasks and workers and    *)
(* every bound.                                                            *)
(***************************************************************************)
EXTENDS TaskTracking, TLAPS

LEMMA BoundsAreNat ==
  MaxRedeliveries \in Nat /\ MaxFaults \in Nat /\ MaxCrashes \in Nat /\ MaxPurges \in Nat
  BY ConstantsAssumption

(* The markers are no rows, and no terminal status. *)
LEMMA MarkersAreApart ==
  /\ NoRow \notin RowType /\ Unread \notin RowType /\ Conflict \notin RowType
  /\ NoRow # Unread /\ NoRow # Conflict /\ Unread # Conflict
  /\ NoRow.id = 0 /\ Unread.id = -1 /\ Conflict.id = -2
  /\ NoRow.status = "none" /\ Unread.status = "none" /\ Conflict.status = "none"
  BY DEF NoRow, Unread, Conflict, RowType

LEMMA IdleType == Idle \in WorkerType /\ Idle.pc = "idle"
  BY DEF Idle, WorkerType, Terminal

(* What a handler returns to is a worker state without a loaded row. *)
LEMMA AfterHandlerType ==
  ASSUME TypeOK, NEW w \in Worker, worker[w].pc \in Handlers
  PROVE  /\ AfterHandler(w) \in WorkerType
         /\ AfterHandler(w).pc # "idle" => AfterHandler(w).task = worker[w].task
         /\ AfterHandler(w).pc = "postrun" =>
              worker[w].pc = "failure" /\ AfterHandler(w).outcome = worker[w].outcome
         /\ AfterHandler(w).pc # "failure" /\ AfterHandler(w).pc # "prerun"
         /\ AfterHandler(w).pc = "idle" <=> worker[w].pc = "postrun"
         /\ AfterHandler(w).pc = "running" <=> worker[w].pc = "prerun"
         /\ AfterHandler(w).pc = "postrun" <=> worker[w].pc = "failure"
         /\ AfterHandler(w).loaded = Unread
<1>1. worker[w] \in WorkerType
  BY DEF TypeOK
<1>2. CASE worker[w].pc = "prerun"
  <2>1. AfterHandler(w) = [worker[w] EXCEPT !.pc = "running", !.loaded = Unread]
    BY <1>2 DEF AfterHandler
  <2> QED
    BY <1>1, <1>2, <2>1 DEF WorkerType
<1>3. CASE worker[w].pc = "failure"
  <2>1. AfterHandler(w) = [worker[w] EXCEPT !.pc = "postrun", !.loaded = Unread]
    BY <1>3 DEF AfterHandler
  <2> QED
    BY <1>1, <1>3, <2>1 DEF WorkerType, Handlers
<1>4. CASE worker[w].pc = "postrun"
  <2>1. AfterHandler(w) = Idle
    BY <1>4 DEF AfterHandler
  <2> QED
    BY <1>4, <2>1, IdleType DEF Idle
<1> QED
  BY <1>2, <1>3, <1>4 DEF Handlers

(* The handlers map rows to rows, and only the last one ends a run. *)
LEMMA MutatedRow ==
  ASSUME TypeOK, NEW w \in Worker, worker[w].pc \in Handlers,
         NEW r \in [id : Nat, status : Status, finished : BOOLEAN, error : BOOLEAN]
  PROVE  /\ Mutated(w, r) \in [id : Nat, status : Status, finished : BOOLEAN, error : BOOLEAN]
         /\ Mutated(w, r).id = r.id
         /\ Mutated(w, r).status # "PENDING"
         /\ worker[w].pc = "prerun" => Mutated(w, r).status = "STARTED"
         /\ worker[w].pc = "failure" => Mutated(w, r).status = "FAILURE"
         /\ worker[w].pc = "postrun" =>
              Mutated(w, r).status = worker[w].outcome /\ Mutated(w, r).finished
<1>1. worker[w] \in WorkerType /\ (worker[w].pc = "postrun" => worker[w].outcome \in Terminal)
  BY DEF TypeOK
<1>2. CASE worker[w].pc = "prerun"
  BY <1>2 DEF Mutated, Started, Status
<1>3. CASE worker[w].pc = "failure"
  BY <1>3 DEF Mutated, Failed, Status, Terminal
<1>4. CASE worker[w].pc = "postrun"
  <2>1. Mutated(w, r) = Finished(worker[w].outcome, r)
    BY <1>4 DEF Mutated
  <2>2. worker[w].outcome \in Status /\ worker[w].outcome # "PENDING"
    BY <1>1, <1>4 DEF Status, Terminal
  <2> QED
    BY <1>4, <2>1, <2>2 DEF Finished
<1> QED
  BY <1>2, <1>3, <1>4 DEF Handlers

LEMMA WrittenRow ==
  ASSUME NEW now \in RowType, NEW old \in RowType, NEW new \in RowType
  PROVE  Written(now, old, new) \in RowType
  BY DEF Written, RowType

-----------------------------------------------------------------------------
(* What each commit of a handler does, in terms of its type. *)
LEMMA InsertedRow ==
  ASSUME TypeOK, NEW w \in Worker, CommitInsert(w)
  PROVE  /\ worker[w].task \in Task
         /\ row' = [row EXCEPT ![worker[w].task] = row'[worker[w].task]]
         /\ row'[worker[w].task] \in RowType
         /\ row'[worker[w].task].status # "PENDING"
         /\ worker[w].pc = "prerun" => row'[worker[w].task].status = "STARTED"
         /\ worker[w].pc = "failure" => row'[worker[w].task].status = "FAILURE"
         /\ worker[w].pc = "postrun" =>
              /\ row'[worker[w].task].status = worker[w].outcome
              /\ row'[worker[w].task].finished
<1> DEFINE t == worker[w].task
           k == inserted[t] + 1
<1>1. t \in Task
  BY DEF TypeOK, CommitInsert, Busy, Handlers
<1>2. k \in Nat \ {0}
  BY <1>1 DEF TypeOK
<1>3. Fresh(k) \in [id : Nat, status : Status, finished : BOOLEAN, error : BOOLEAN] /\ Fresh(k).id = k
  BY <1>2 DEF Fresh, Status
<1>4. worker[w].pc \in Handlers
  BY DEF CommitInsert
<1>5. /\ Mutated(w, Fresh(k)) \in RowType
      /\ Mutated(w, Fresh(k)).status # "PENDING"
      /\ worker[w].pc = "prerun" => Mutated(w, Fresh(k)).status = "STARTED"
      /\ worker[w].pc = "failure" => Mutated(w, Fresh(k)).status = "FAILURE"
      /\ worker[w].pc = "postrun" => Mutated(w, Fresh(k)).status = worker[w].outcome
                                     /\ Mutated(w, Fresh(k)).finished
  BY <1>2, <1>3, <1>4, MutatedRow DEF RowType
<1>6. row' = [row EXCEPT ![t] = Mutated(w, Fresh(k))]
  BY DEF CommitInsert
<1>7. row'[t] = Mutated(w, Fresh(k))
  BY <1>1, <1>6 DEF TypeOK
<1> QED
  BY <1>1, <1>5, <1>6, <1>7

LEMMA UpdatedRow ==
  ASSUME TypeOK, NEW w \in Worker, CommitUpdate(w), row[worker[w].task].id = worker[w].loaded.id
  PROVE  /\ worker[w].task \in Task
         /\ worker[w].loaded \in RowType /\ row[worker[w].task] \in RowType
         /\ Mutated(w, worker[w].loaded) \in RowType
         /\ row' = [row EXCEPT ![worker[w].task] =
              Written(row[worker[w].task], worker[w].loaded, Mutated(w, worker[w].loaded))]
         /\ row' = [row EXCEPT ![worker[w].task] = row'[worker[w].task]]
         /\ row'[worker[w].task] =
              Written(row[worker[w].task], worker[w].loaded, Mutated(w, worker[w].loaded))
         /\ row'[worker[w].task] \in RowType
         /\ lost' = lost
<1> DEFINE t == worker[w].task
           old == worker[w].loaded
<1>1. t \in Task
  BY DEF TypeOK, CommitUpdate, Busy, Handlers
<1>2. old \in RowType /\ old.id > 0
  BY MarkersAreApart DEF CommitUpdate, TypeOK, WorkerType
<1>3. row[t] \in RowType
  BY <1>1, <1>2, MarkersAreApart DEF TypeOK
<1>4. Mutated(w, old) \in RowType
  BY <1>2, MutatedRow DEF RowType, CommitUpdate
<1>5. /\ row' = [row EXCEPT ![t] = Written(row[t], old, Mutated(w, old))]
      /\ lost' = lost
  BY DEF CommitUpdate
<1>6. row'[t] = Written(row[t], old, Mutated(w, old))
  BY <1>1, <1>5 DEF TypeOK
<1>7. row'[t] \in RowType
  BY <1>2, <1>3, <1>4, <1>6, WrittenRow
<1> QED
  BY <1>1, <1>2, <1>3, <1>4, <1>5, <1>6, <1>7

-----------------------------------------------------------------------------
LEMMA InitTypeOK == Init => TypeOK
  BY BoundsAreNat, IdleType DEF Init, TypeOK, Busy, Idle

(* A step of one worker that leaves it in a well-typed state. *)
LEMMA WorkerStep ==
  ASSUME TypeOK, NEW w \in Worker, NEW x \in WorkerType,
         x.pc # "idle" => x.task \in Task,
         x.pc = "postrun" => x.outcome \in Terminal,
         worker' = [worker EXCEPT ![w] = x]
  PROVE  /\ worker' \in [Worker -> WorkerType]
         /\ \A v \in Worker : Busy(v)' => worker'[v].task \in Task
         /\ \A v \in Worker : worker'[v].pc = "postrun" => worker'[v].outcome \in Terminal
  BY DEF TypeOK, Busy

LEMMA HandlerReturns ==
  ASSUME TypeOK, NEW w \in Worker, worker[w].pc \in Handlers,
         worker' = [worker EXCEPT ![w] = AfterHandler(w)],
         OutcomesAreKnown
  PROVE  /\ worker' \in [Worker -> WorkerType]
         /\ \A v \in Worker : Busy(v)' => worker'[v].task \in Task
         /\ \A v \in Worker : worker'[v].pc = "postrun" => worker'[v].outcome \in Terminal
<1>1. worker[w].task \in Task
  BY DEF TypeOK, Busy, Handlers
<1>2. AfterHandler(w).pc = "postrun" => AfterHandler(w).outcome \in Terminal
  BY AfterHandlerType DEF OutcomesAreKnown, Terminal
<1> QED
  BY <1>1, <1>2, AfterHandlerType, WorkerStep

LEMMA TypeInvariance == TypeOK /\ OutcomesAreKnown /\ [Next]_vars => TypeOK'
<1> SUFFICES ASSUME TypeOK, OutcomesAreKnown, [Next]_vars PROVE TypeOK'
  OBVIOUS
<1> USE BoundsAreNat DEF history, bounds
<1>1. ASSUME NEW t \in Task, RecordPublish(t) PROVE TypeOK'
  <2>1. Fresh(1) \in RowType
    BY DEF Fresh, RowType, Status
  <2> QED
    BY <1>1, <2>1 DEF RecordPublish, TypeOK, Busy
<1>2. ASSUME NEW t \in Task, RecordPublishFails(t) PROVE TypeOK'
  BY <1>2 DEF RecordPublishFails, TypeOK, Busy
<1>3. ASSUME NEW t \in Task, Send(t) PROVE TypeOK'
  BY <1>3 DEF Send, TypeOK, Busy
<1>4. ASSUME NEW t \in Task, SendFails(t) PROVE TypeOK'
  BY <1>4 DEF SendFails, TypeOK, Busy
<1>5. ASSUME NEW t \in Task, Redeliver(t) PROVE TypeOK'
  BY <1>5 DEF Redeliver, TypeOK, Busy
<1>6. ASSUME NEW t \in Task, Purge(t) PROVE TypeOK'
  BY <1>6 DEF Purge, TypeOK, Busy
<1>7. ASSUME NEW w \in Worker, NEW t \in Task, Take(w, t) PROVE TypeOK'
  <2> DEFINE x == [pc |-> "prerun", task |-> t, loaded |-> Unread, outcome |-> "none"]
  <2>1. x \in WorkerType
    BY DEF WorkerType, Handlers
  <2>2. /\ worker' \in [Worker -> WorkerType]
        /\ \A v \in Worker : Busy(v)' => worker'[v].task \in Task
        /\ \A v \in Worker : worker'[v].pc = "postrun" => worker'[v].outcome \in Terminal
    BY <1>7, <2>1, WorkerStep DEF Take
  <2> QED
    BY <1>7, <2>2 DEF Take, TypeOK
<1>8. ASSUME NEW w \in Worker, NEW o \in Terminal, RunEnds(w, o) PROVE TypeOK'
  <2> DEFINE x == [worker[w] EXCEPT !.pc = IF o = "FAILURE" THEN "failure" ELSE "postrun",
                                    !.outcome = o, !.loaded = Unread]
  <2>1. x \in WorkerType /\ x.outcome = o /\ x.task = worker[w].task
    BY DEF TypeOK, WorkerType, Handlers
  <2>2. worker' = [worker EXCEPT ![w] = x] /\ worker[w].task \in Task
    BY <1>8 DEF RunEnds, TypeOK, Busy
  <2>3. /\ worker' \in [Worker -> WorkerType]
        /\ \A v \in Worker : Busy(v)' => worker'[v].task \in Task
        /\ \A v \in Worker : worker'[v].pc = "postrun" => worker'[v].outcome \in Terminal
    BY <2>1, <2>2, WorkerStep
  <2> QED
    BY <1>8, <2>2, <2>3 DEF RunEnds, TypeOK
<1>9. ASSUME NEW w \in Worker, LoadRow(w) PROVE TypeOK'
  <2> DEFINE x == [worker[w] EXCEPT !.loaded = row[worker[w].task]]
  <2>1. worker[w].task \in Task
    BY <1>9 DEF LoadRow, TypeOK, Busy, Handlers
  <2>2. x \in WorkerType /\ x.task = worker[w].task /\ x.pc = worker[w].pc /\ x.outcome = worker[w].outcome
    BY <2>1 DEF TypeOK, WorkerType
  <2>3. worker' = [worker EXCEPT ![w] = x]
    BY <1>9 DEF LoadRow, TypeOK
  <2>4. /\ worker' \in [Worker -> WorkerType]
        /\ \A v \in Worker : Busy(v)' => worker'[v].task \in Task
        /\ \A v \in Worker : worker'[v].pc = "postrun" => worker'[v].outcome \in Terminal
    BY <2>1, <2>2, <2>3, WorkerStep DEF TypeOK
  <2> QED
    BY <1>9, <2>4 DEF LoadRow, TypeOK
<1>10. ASSUME NEW w \in Worker, CommitInsert(w) PROVE TypeOK'
  <2>1. /\ worker' \in [Worker -> WorkerType]
        /\ \A v \in Worker : Busy(v)' => worker'[v].task \in Task
        /\ \A v \in Worker : worker'[v].pc = "postrun" => worker'[v].outcome \in Terminal
    BY <1>10, HandlerReturns DEF CommitInsert
  <2>2. row' \in [Task -> RowType \cup {NoRow}]
    BY <1>10, InsertedRow DEF TypeOK
  <2>3. inserted' \in [Task -> Nat]
    <3>1. worker[w].task \in Task
      BY <1>10, InsertedRow
    <3>2. inserted[worker[w].task] + 1 \in Nat
      BY <3>1 DEF TypeOK
    <3>3. inserted' = [inserted EXCEPT ![worker[w].task] = inserted[worker[w].task] + 1]
      BY <1>10 DEF CommitInsert
    <3> QED
      BY <3>1, <3>2, <3>3 DEF TypeOK
  <2> QED
    BY <1>10, <2>1, <2>2, <2>3 DEF CommitInsert, TypeOK
<1>11. ASSUME NEW w \in Worker, CommitConflicts(w) PROVE TypeOK'
  <2> DEFINE x == [worker[w] EXCEPT !.loaded = Conflict]
  <2>1. x \in WorkerType /\ x.task = worker[w].task /\ x.pc = worker[w].pc /\ x.outcome = worker[w].outcome
    BY DEF TypeOK, WorkerType
  <2>2. worker' = [worker EXCEPT ![w] = x]
    BY <1>11 DEF CommitConflicts, TypeOK
  <2>3. /\ worker' \in [Worker -> WorkerType]
        /\ \A v \in Worker : Busy(v)' => worker'[v].task \in Task
        /\ \A v \in Worker : worker'[v].pc = "postrun" => worker'[v].outcome \in Terminal
    BY <2>1, <2>2, WorkerStep DEF TypeOK, Busy
  <2> QED
    BY <1>11, <2>3 DEF CommitConflicts, TypeOK
<1>12. ASSUME NEW w \in Worker, ReloadRow(w) PROVE TypeOK'
  <2> DEFINE x == [worker[w] EXCEPT !.loaded = row[worker[w].task]]
  <2>1. worker[w].task \in Task
    BY <1>12 DEF ReloadRow, TypeOK, Busy, Handlers
  <2>2. x \in WorkerType /\ x.task = worker[w].task /\ x.pc = worker[w].pc /\ x.outcome = worker[w].outcome
    BY <2>1 DEF TypeOK, WorkerType
  <2>3. CASE row[worker[w].task] = NoRow
    <3>1. /\ worker' \in [Worker -> WorkerType]
          /\ \A v \in Worker : Busy(v)' => worker'[v].task \in Task
          /\ \A v \in Worker : worker'[v].pc = "postrun" => worker'[v].outcome \in Terminal
      BY <1>12, <2>3, HandlerReturns DEF ReloadRow
    <3> QED
      BY <1>12, <2>3, <3>1 DEF ReloadRow, TypeOK
  <2>4. CASE row[worker[w].task] # NoRow
    <3>1. worker' = [worker EXCEPT ![w] = x]
      BY <1>12, <2>4 DEF ReloadRow, TypeOK
    <3>2. /\ worker' \in [Worker -> WorkerType]
          /\ \A v \in Worker : Busy(v)' => worker'[v].task \in Task
          /\ \A v \in Worker : worker'[v].pc = "postrun" => worker'[v].outcome \in Terminal
      BY <2>1, <2>2, <3>1, WorkerStep DEF TypeOK
    <3> QED
      BY <1>12, <2>4, <3>2 DEF ReloadRow, TypeOK
  <2> QED
    BY <2>3, <2>4
<1>13. ASSUME NEW w \in Worker, CommitUpdate(w) PROVE TypeOK'
  <2>1. /\ worker' \in [Worker -> WorkerType]
        /\ \A v \in Worker : Busy(v)' => worker'[v].task \in Task
        /\ \A v \in Worker : worker'[v].pc = "postrun" => worker'[v].outcome \in Terminal
    BY <1>13, HandlerReturns DEF CommitUpdate
  <2>2. row' \in [Task -> RowType \cup {NoRow}]
    <3>1. CASE row[worker[w].task].id = worker[w].loaded.id
      BY <1>13, <3>1, UpdatedRow DEF TypeOK
    <3>2. CASE row[worker[w].task].id # worker[w].loaded.id
      BY <1>13, <3>2 DEF CommitUpdate, TypeOK
    <3> QED
      BY <3>1, <3>2
  <2>3. lost' \in Nat
    BY <1>13 DEF CommitUpdate, TypeOK
  <2> QED
    BY <1>13, <2>1, <2>2, <2>3 DEF CommitUpdate, TypeOK
<1>14. ASSUME NEW w \in Worker, HandlerFails(w) PROVE TypeOK'
  <2>1. /\ worker' \in [Worker -> WorkerType]
        /\ \A v \in Worker : Busy(v)' => worker'[v].task \in Task
        /\ \A v \in Worker : worker'[v].pc = "postrun" => worker'[v].outcome \in Terminal
    BY <1>14, HandlerReturns DEF HandlerFails
  <2> QED
    BY <1>14, <2>1 DEF HandlerFails, TypeOK
<1>15. ASSUME NEW w \in Worker, Crash(w) PROVE TypeOK'
  <2>1. /\ worker' \in [Worker -> WorkerType]
        /\ \A v \in Worker : Busy(v)' => worker'[v].task \in Task
        /\ \A v \in Worker : worker'[v].pc = "postrun" => worker'[v].outcome \in Terminal
    BY <1>15, IdleType, WorkerStep DEF Crash
  <2> QED
    BY <1>15, <2>1 DEF Crash, TypeOK
<1>16. CASE UNCHANGED vars
  BY <1>16 DEF vars, TypeOK, Busy
<1> QED
  BY <1>1, <1>2, <1>3, <1>4, <1>5, <1>6, <1>7, <1>8, <1>9, <1>10, <1>11, <1>12,
     <1>13, <1>14, <1>15, <1>16 DEF Next, TaskNext, WorkerNext

-----------------------------------------------------------------------------
(* The steps that move a worker from one handler to the next keep what is    *)
(* known of its outcome.                                                     *)
LEMMA OutcomesInvariance == TypeOK /\ OutcomesAreKnown /\ [Next]_vars => OutcomesAreKnown'
<1> SUFFICES ASSUME TypeOK, OutcomesAreKnown, [Next]_vars PROVE OutcomesAreKnown'
  OBVIOUS
<1> USE DEF OutcomesAreKnown, history, bounds
<1>1. ASSUME UNCHANGED <<worker, outcomes>> PROVE OutcomesAreKnown'
  BY <1>1
<1>2. ASSUME NEW t \in Task, TaskNext(t) PROVE OutcomesAreKnown'
  BY <1>1, <1>2 DEF TaskNext, RecordPublish, RecordPublishFails, Send, SendFails, Redeliver, Purge
<1>3. ASSUME NEW w \in Worker, NEW t \in Task, Take(w, t) PROVE OutcomesAreKnown'
  BY <1>3 DEF Take, TypeOK
<1>4. ASSUME NEW w \in Worker, NEW o \in Terminal, RunEnds(w, o) PROVE OutcomesAreKnown'
  <2>1. worker[w].task \in Task
    BY <1>4 DEF RunEnds, TypeOK, Busy
  <2>2. outcomes' = [outcomes EXCEPT ![worker[w].task] = outcomes[worker[w].task] \cup {o}]
    BY <1>4 DEF RunEnds
  <2>3. ASSUME NEW v \in Worker, worker'[v].pc \in {"failure", "postrun"}
        PROVE  /\ worker'[v].outcome \in outcomes'[worker'[v].task]
               /\ worker'[v].pc = "failure" => worker'[v].outcome = "FAILURE"
    <3>1. CASE v = w
      BY <1>4, <2>1, <2>2, <2>3, <3>1 DEF RunEnds, TypeOK, WorkerType, Terminal
    <3>2. CASE v # w
      <4>1. worker'[v] = worker[v]
        BY <1>4, <3>2 DEF RunEnds, TypeOK
      <4>2. worker[v].task \in Task
        BY <2>3, <4>1 DEF TypeOK, Busy
      <4> QED
        BY <2>1, <2>2, <2>3, <4>1, <4>2 DEF TypeOK
    <3> QED
      BY <3>1, <3>2
  <2> QED
    BY <2>3
<1>5. ASSUME NEW w \in Worker, worker[w].pc \in Handlers,
             worker' = [worker EXCEPT ![w] = AfterHandler(w)], outcomes' = outcomes
      PROVE  OutcomesAreKnown'
  BY <1>5, AfterHandlerType DEF TypeOK
<1>6. ASSUME NEW w \in Worker, NEW r,
             worker' = [worker EXCEPT ![w].loaded = r], outcomes' = outcomes
      PROVE  OutcomesAreKnown'
  <2>1. worker[w] \in WorkerType
    BY DEF TypeOK
  <2> QED
    BY <1>6, <2>1 DEF TypeOK, WorkerType
<1>7. ASSUME NEW w \in Worker, LoadRow(w) PROVE OutcomesAreKnown'
  BY <1>6, <1>7 DEF LoadRow
<1>8. ASSUME NEW w \in Worker, CommitInsert(w) \/ CommitUpdate(w) \/ HandlerFails(w)
      PROVE  OutcomesAreKnown'
  BY <1>5, <1>8 DEF CommitInsert, CommitUpdate, HandlerFails
<1>9. ASSUME NEW w \in Worker, CommitConflicts(w) PROVE OutcomesAreKnown'
  BY <1>6, <1>9 DEF CommitConflicts
<1>10. ASSUME NEW w \in Worker, ReloadRow(w) PROVE OutcomesAreKnown'
  BY <1>5, <1>6, <1>10 DEF ReloadRow
<1>11. ASSUME NEW w \in Worker, Crash(w) PROVE OutcomesAreKnown'
  BY <1>11, IdleType DEF Crash, TypeOK
<1>12. CASE UNCHANGED vars
  BY <1>1, <1>12 DEF vars
<1> QED
  BY <1>2, <1>3, <1>4, <1>7, <1>8, <1>9, <1>10, <1>11, <1>12 DEF Next, WorkerNext

(* Type correctness, for every number of tasks and workers. *)
THEOREM TypeCorrect == Spec => []TypeOK
<1>1. Init => OutcomesAreKnown
  BY DEF Init, OutcomesAreKnown, Idle
<1> QED
  BY <1>1, InitTypeOK, TypeInvariance, OutcomesInvariance, PTL DEF Spec

-----------------------------------------------------------------------------
(* Everything a step of a worker leaves alone: other workers, other tasks. *)
Told(t) == row[t].status \in outcomes[t] \/ OnItsWay(t) \/ \E w \in Worker : HandsOn(w, t)
Stamped(t) == row[t].finished \/ OnItsWay(t) \/ Executing(t) # {}

LEMMA NoneIsNoOutcome == TypeOK => \A t \in Task : "none" \notin outcomes[t] /\ "PENDING" \notin outcomes[t]
  BY DEF TypeOK, Terminal

LEMMA HandsSettle ==
  ASSUME NEW t \in Task, NEW w \in Worker, HandsOn(w, t)
  PROVE  Told(t) /\ Stamped(t)
  BY DEF Told, Stamped, HandsOn

LEMMA HandsStay ==
  ASSUME NEW t \in Task, NEW w \in Worker, worker'[w] = worker[w], outcomes'[t] = outcomes[t],
         HandsOn(w, t)
  PROVE  HandsOn(w, t)'
  BY DEF HandsOn, Executing, Busy

(* A task that a worker step does not concern stays told and stamped. *)
LEMMA OtherTaskStays ==
  ASSUME TypeOK, NEW w \in Worker, NEW t \in Task,
         Told(t), Stamped(t),
         \A v \in Worker \ {w} : worker'[v] = worker[v],
         ~Busy(w) \/ worker[w].task # t,
         row'[t] = row[t], outcomes'[t] = outcomes[t], copies'[t] = copies[t], publish' = publish
  PROVE  Told(t)' /\ Stamped(t)'
<1>1. OnItsWay(t) => OnItsWay(t)'
  BY DEF OnItsWay
<1>2. ASSUME NEW v \in Executing(t) PROVE v \in Worker /\ v # w /\ v \in Executing(t)'
  BY DEF Executing, Busy
<1>3. ASSUME NEW v \in Worker, HandsOn(v, t) PROVE HandsOn(v, t)'
  BY <1>2, <1>3, HandsStay DEF HandsOn
<1> QED
  BY <1>1, <1>2, <1>3 DEF Told, Stamped

(* The end of a handler: its worker still has its hands on the row, or it    *)
(* was the last handler.                                                     *)
LEMMA HandlerStays ==
  ASSUME TypeOK, NEW w \in Worker, NEW t \in Task, worker[w].task = t,
         worker[w].pc \in {"prerun", "failure"},
         worker' = [worker EXCEPT ![w] = AfterHandler(w)], outcomes' = outcomes
  PROVE  HandsOn(w, t)'
<1>1. worker[w].pc \in Handlers
  BY DEF Handlers
<1>2. worker'[w] = AfterHandler(w)
  BY DEF TypeOK
<1>3. /\ worker'[w].pc # "idle" /\ worker'[w].task = t
      /\ worker'[w].loaded.status = "none"
  BY <1>1, <1>2, AfterHandlerType, MarkersAreApart
<1> QED
  BY <1>1, <1>3, NoneIsNoOutcome DEF HandsOn, Executing, Busy

(* A commit that is lost stays on record. *)
LEMMA LostGrows == TypeOK /\ [Next]_vars /\ lost' = 0 => lost = 0
<1> SUFFICES ASSUME TypeOK, [Next]_vars, lost' = 0 PROVE lost = 0
  OBVIOUS
<1>1. lost \in Nat
  BY DEF TypeOK
<1>2. lost' = lost \/ lost' = lost + 1
  BY DEF Next, TaskNext, WorkerNext, RecordPublish, RecordPublishFails, Send, SendFails, Redeliver,
     Purge, Take, RunEnds, LoadRow, CommitInsert, CommitConflicts, ReloadRow, CommitUpdate,
     HandlerFails, Crash, vars, history, bounds
<1> QED
  BY <1>1, <1>2

LEMMA UnsettledInvariance ==
  TypeOK /\ OutcomesAreKnown /\ UnsettledIsInHand /\ [Next]_vars => UnsettledIsInHand'
<1> SUFFICES ASSUME TypeOK, OutcomesAreKnown, UnsettledIsInHand, [Next]_vars, lost' = 0,
                    NEW t \in Task, row'[t] # NoRow
             PROVE  Told(t)' /\ Stamped(t)'
  BY DEF UnsettledIsInHand, Told, Stamped
<1> USE DEF history, bounds
<1>1. lost = 0
  BY LostGrows
<1>2. row[t] # NoRow => Told(t) /\ Stamped(t)
  BY <1>1 DEF UnsettledIsInHand, Told, Stamped
<1>3. ASSUME row'[t] = row[t], outcomes' = outcomes, worker' = worker, OnItsWay(t) => OnItsWay(t)'
      PROVE  Told(t)' /\ Stamped(t)'
  <2>1. \A w \in Worker : HandsOn(w, t) => HandsOn(w, t)'
    BY <1>3 DEF HandsOn, Executing, Busy
  <2>2. Executing(t) = Executing(t)'
    BY <1>3 DEF Executing, Busy
  <2> QED
    BY <1>2, <1>3, <2>1, <2>2 DEF Told, Stamped
<1>4. ASSUME NEW u \in Task, TaskNext(u) PROVE Told(t)' /\ Stamped(t)'
  <2>1. CASE RecordPublish(u)
    <3>1. CASE u = t
      <4>1. publish'[t] = "recorded"
        BY <2>1, <3>1 DEF RecordPublish, TypeOK
      <4> QED
        BY <4>1 DEF Told, Stamped, OnItsWay
    <3>2. CASE u # t
      BY <1>3, <2>1, <3>2 DEF RecordPublish, TypeOK, OnItsWay
    <3> QED
      BY <3>1, <3>2
  <2>2. CASE RecordPublishFails(u)
    BY <1>3, <2>2 DEF RecordPublishFails, TypeOK, OnItsWay
  <2>3. CASE Send(u)
    <3>1. OnItsWay(t) => OnItsWay(t)'
      BY <2>3 DEF Send, TypeOK, OnItsWay
    <3> QED
      BY <1>3, <2>3, <3>1 DEF Send
  <2>4. CASE SendFails(u)
    BY <1>3, <2>4 DEF SendFails, TypeOK, OnItsWay
  <2>5. CASE Redeliver(u)
    <3>1. OnItsWay(t) => OnItsWay(t)'
      BY <2>5 DEF Redeliver, TypeOK, OnItsWay
    <3> QED
      BY <1>3, <2>5, <3>1 DEF Redeliver
  <2>6. CASE Purge(u)
    <3>1. u # t
      BY <2>6 DEF Purge, TypeOK
    <3> QED
      BY <1>3, <2>6, <3>1 DEF Purge, TypeOK, OnItsWay
  <2> QED
    BY <1>4, <2>1, <2>2, <2>3, <2>4, <2>5, <2>6 DEF TaskNext
<1>5. ASSUME NEW w \in Worker, NEW u \in Task, Take(w, u) PROVE Told(t)' /\ Stamped(t)'
  <2>1. CASE u = t
    <3>1. worker'[w] = [pc |-> "prerun", task |-> t, loaded |-> Unread, outcome |-> "none"]
      BY <1>5, <2>1 DEF Take, TypeOK
    <3>2. HandsOn(w, t)'
      BY <3>1 DEF HandsOn, Executing, Busy
    <3> QED
      BY <3>2, HandsSettle, PTL
  <2>2. CASE u # t
    <3>1. \A v \in Worker \ {w} : worker'[v] = worker[v]
      BY <1>5 DEF Take, TypeOK
    <3>2. ~Busy(w) /\ row' = row /\ outcomes' = outcomes /\ publish' = publish /\ copies'[t] = copies[t]
      BY <1>5, <2>2 DEF Take, TypeOK
    <3> QED
      BY <1>2, <3>1, <3>2, OtherTaskStays
  <2> QED
    BY <2>1, <2>2
<1>6. ASSUME NEW w \in Worker, worker[w].pc \in {"running"} \cup Handlers,
             worker[w].task # t, row'[t] = row[t], outcomes'[t] = outcomes[t],
             UNCHANGED <<publish, copies>>,
             \A v \in Worker \ {w} : worker'[v] = worker[v]
      PROVE  Told(t)' /\ Stamped(t)'
  BY <1>2, <1>6, OtherTaskStays
<1>7. ASSUME NEW w \in Worker, HandsOn(w, t)' PROVE Told(t)' /\ Stamped(t)'
  BY <1>7 DEF Told, Stamped, HandsOn
<1>8. ASSUME NEW w \in Worker, NEW o \in Terminal, RunEnds(w, o) PROVE Told(t)' /\ Stamped(t)'
  <2>1. /\ worker[w].task \in Task
        /\ worker'[w].task = worker[w].task /\ worker'[w].loaded = Unread
        /\ worker'[w].pc \in {"failure", "postrun"}
        /\ \A v \in Worker \ {w} : worker'[v] = worker[v]
    BY <1>8 DEF RunEnds, TypeOK, Busy, WorkerType
  <2>2. CASE worker[w].task = t
    <3>1. "none" \notin outcomes'[t]
      BY <1>8, <2>1, <2>2, NoneIsNoOutcome DEF RunEnds, TypeOK, Terminal
    <3>2. HandsOn(w, t)'
      BY <2>1, <2>2, <3>1, MarkersAreApart DEF HandsOn, Executing, Busy
    <3> QED
      BY <1>7, <3>2
  <2>3. CASE worker[w].task # t
    BY <1>6, <1>8, <2>1, <2>3 DEF RunEnds, TypeOK
  <2> QED
    BY <2>2, <2>3
<1>9. ASSUME NEW w \in Worker, worker[w].pc \in Handlers, worker[w].task = t,
             NEW r \in RowType \cup {NoRow, Unread, Conflict},
             worker' = [worker EXCEPT ![w].loaded = r],
             row' = row, outcomes' = outcomes, UNCHANGED <<publish, copies>>,
             r.status \in outcomes[t] => row[t].status \in outcomes[t]
      PROVE  Told(t)' /\ Stamped(t)'
  <2>1. worker'[w].pc = worker[w].pc /\ worker'[w].task = t /\ worker'[w].loaded = r
    BY <1>9 DEF TypeOK, WorkerType
  <2>2. w \in Executing(t)'
    BY <1>9, <2>1 DEF Executing, Busy, Handlers
  <2>3. row'[t].status \in outcomes'[t] \/ HandsOn(w, t)'
    BY <1>9, <2>1, <2>2 DEF HandsOn
  <2> QED
    BY <2>2, <2>3 DEF Told, Stamped
<1>10. ASSUME NEW w \in Worker, LoadRow(w) PROVE Told(t)' /\ Stamped(t)'
  <2>1. CASE worker[w].task = t
    BY <1>9, <1>10, <2>1 DEF LoadRow, TypeOK
  <2>2. CASE worker[w].task # t
    BY <1>6, <1>10, <2>2 DEF LoadRow, TypeOK
  <2> QED
    BY <2>1, <2>2
<1>11. ASSUME NEW w \in Worker, CommitConflicts(w) PROVE Told(t)' /\ Stamped(t)'
  <2>1. CASE worker[w].task = t
    <3>1. Conflict.status \notin outcomes[t]
      BY MarkersAreApart, NoneIsNoOutcome
    <3> QED
      BY <1>9, <1>11, <2>1, <3>1 DEF CommitConflicts
  <2>2. CASE worker[w].task # t
    BY <1>6, <1>11, <2>2 DEF CommitConflicts, TypeOK
  <2> QED
    BY <2>1, <2>2
<1>12. ASSUME NEW w \in Worker, ReloadRow(w) PROVE Told(t)' /\ Stamped(t)'
  <2>0. worker[w].task \in Task /\ row[worker[w].task] # NoRow
    BY <1>1, <1>12 DEF ReloadRow, TypeOK, Busy, Handlers
  <2>1. CASE worker[w].task = t
    BY <1>9, <1>12, <2>0, <2>1 DEF ReloadRow, TypeOK
  <2>2. CASE worker[w].task # t
    BY <1>6, <1>12, <2>0, <2>2 DEF ReloadRow, TypeOK
  <2> QED
    BY <2>1, <2>2
<1>13. ASSUME NEW w \in Worker, CommitInsert(w) PROVE Told(t)' /\ Stamped(t)'
  <2>1. CASE worker[w].task = t /\ worker[w].pc # "postrun"
    <3>1. HandsOn(w, t)'
      BY <1>13, <2>1, HandlerStays DEF CommitInsert, Handlers
    <3> QED
      BY <1>7, <3>1
  <2>2. CASE worker[w].task = t /\ worker[w].pc = "postrun"
    <3>1. row'[t].status = worker[w].outcome /\ row'[t].finished /\ outcomes' = outcomes
      BY <1>13, <2>2, InsertedRow DEF CommitInsert
    <3> QED
      BY <2>2, <3>1 DEF OutcomesAreKnown, Told, Stamped
  <2>3. CASE worker[w].task # t
    <3>1. row'[t] = row[t]
      BY <1>13, <2>3, InsertedRow DEF TypeOK
    <3> QED
      BY <1>6, <1>13, <2>3, <3>1 DEF CommitInsert, TypeOK
  <2> QED
    BY <2>1, <2>2, <2>3
<1>14. ASSUME NEW w \in Worker, CommitUpdate(w) PROVE Told(t)' /\ Stamped(t)'
  <2>0. row[worker[w].task].id = worker[w].loaded.id
    BY <1>1, <1>14 DEF CommitUpdate
  <2>1. CASE worker[w].task = t /\ worker[w].pc # "postrun"
    <3>1. HandsOn(w, t)'
      BY <1>14, <2>1, HandlerStays DEF CommitUpdate, Handlers
    <3> QED
      BY <1>7, <3>1
  <2>2. CASE worker[w].task = t /\ worker[w].pc = "postrun"
    <3> DEFINE old == worker[w].loaded
               new == Mutated(w, old)
    <3>1. new.status = worker[w].outcome /\ new.finished
      BY <1>14, <2>0, <2>2, UpdatedRow, MutatedRow DEF RowType, Handlers
    <3>2. row'[t] = Written(row[t], old, new)
      BY <1>14, <2>0, <2>2, UpdatedRow
    <3>3. row'[t].finished /\ row'[t].status = IF new.status # old.status THEN new.status ELSE row[t].status
      BY <3>1, <3>2 DEF Written
    <3>4. worker[w].outcome \in outcomes[t] /\ outcomes' = outcomes
      BY <1>14, <2>2 DEF OutcomesAreKnown, CommitUpdate
    <3>5. CASE new.status # old.status
      BY <3>1, <3>3, <3>4, <3>5 DEF Told, Stamped
    <3>6. CASE new.status = old.status
      <4>1. ~HandsOn(w, t)
        BY <2>2, <3>1, <3>4, <3>6 DEF HandsOn
      <4>2. \A v \in Worker \ {w} : worker'[v] = worker[v]
        BY <1>14 DEF CommitUpdate, TypeOK
      <4>3. \A v \in Worker : HandsOn(v, t) => HandsOn(v, t)'
        BY <3>4, <4>1, <4>2, HandsStay
      <4>4. OnItsWay(t) => OnItsWay(t)'
        BY <1>14 DEF CommitUpdate, OnItsWay
      <4>5. row[t] # NoRow
        BY <1>14, <2>0, <2>2, UpdatedRow, MarkersAreApart
      <4> QED
        BY <1>2, <3>3, <3>4, <3>6, <4>3, <4>4, <4>5 DEF Told, Stamped
    <3> QED
      BY <3>5, <3>6
  <2>3. CASE worker[w].task # t
    <3>1. row'[t] = row[t]
      BY <1>14, <2>0, <2>3, UpdatedRow DEF TypeOK
    <3> QED
      BY <1>6, <1>14, <2>3, <3>1 DEF CommitUpdate, TypeOK
  <2> QED
    BY <2>1, <2>2, <2>3
<1>15. ASSUME NEW w \in Worker, HandlerFails(w) \/ Crash(w) PROVE FALSE
  BY <1>1, <1>15 DEF HandlerFails, Crash
<1>16. CASE UNCHANGED vars
  BY <1>3, <1>16 DEF vars, OnItsWay
<1> QED
  BY <1>4, <1>5, <1>8, <1>10, <1>11, <1>12, <1>13, <1>14, <1>15, <1>16 DEF Next, WorkerNext

-----------------------------------------------------------------------------
(* PendingIsWaiting *)

LEMMA UnsentInvariance == TypeOK /\ UnsentIsIdle /\ [Next]_vars => UnsentIsIdle'
<1> SUFFICES ASSUME TypeOK, UnsentIsIdle, [Next]_vars,
                    NEW t \in Task, publish'[t] # "sent"
             PROVE  copies'[t] = 0 /\ Executing(t)' = {}
  BY DEF UnsentIsIdle
<1> USE DEF history, bounds
<1>1. publish[t] # "sent"
  BY DEF TypeOK, Next, TaskNext, WorkerNext, RecordPublish, RecordPublishFails, Send, SendFails, Redeliver,
     Purge, Take, RunEnds, LoadRow, CommitInsert, CommitConflicts, ReloadRow, CommitUpdate,
     HandlerFails, Crash, vars
<1>2. copies[t] = 0 /\ Executing(t) = {}
  BY <1>1 DEF UnsentIsIdle
<1>3. ASSUME worker' = worker, copies'[t] = 0 PROVE copies'[t] = 0 /\ Executing(t)' = {}
  BY <1>2, <1>3 DEF Executing, Busy
<1>4. ASSUME NEW u \in Task, TaskNext(u) PROVE copies'[t] = 0 /\ Executing(t)' = {}
  BY <1>2, <1>3, <1>4 DEF TypeOK, TaskNext, RecordPublish, RecordPublishFails, Send, SendFails, Redeliver, Purge
<1>5. ASSUME NEW w \in Worker, NEW x, worker' = [worker EXCEPT ![w] = x],
             copies'[t] = copies[t], x.pc # "idle" => x.task # t
      PROVE  copies'[t] = 0 /\ Executing(t)' = {}
  BY <1>2, <1>5 DEF Executing, Busy, TypeOK
<1>6. ASSUME NEW w \in Worker, NEW u \in Task, Take(w, u)
      PROVE  copies'[t] = 0 /\ Executing(t)' = {}
  <2>1. u # t
    BY <1>2, <1>6 DEF Take
  <2> QED
    BY <1>5, <1>6, <2>1 DEF Take, TypeOK
<1>7. ASSUME NEW w \in Worker, NEW x, Busy(w), worker' = [worker EXCEPT ![w] = x],
             copies' = copies, x.pc # "idle" => x.task = worker[w].task
      PROVE  copies'[t] = 0 /\ Executing(t)' = {}
  <2>1. worker[w].task # t
    BY <1>2, <1>7 DEF Executing
  <2> QED
    BY <1>5, <1>7, <2>1
<1>8. ASSUME NEW w \in Worker, worker[w].pc \in Handlers, worker' = [worker EXCEPT ![w] = AfterHandler(w)],
             copies' = copies
      PROVE  copies'[t] = 0 /\ Executing(t)' = {}
  BY <1>7, <1>8, AfterHandlerType DEF Busy, Handlers
<1>9. ASSUME NEW w \in Worker, NEW r, worker[w].pc \in Handlers, worker' = [worker EXCEPT ![w].loaded = r],
             copies' = copies
      PROVE  copies'[t] = 0 /\ Executing(t)' = {}
  <2> DEFINE x == [worker[w] EXCEPT !.loaded = r]
  <2>1. worker' = [worker EXCEPT ![w] = x] /\ x.task = worker[w].task /\ Busy(w)
    BY <1>9 DEF TypeOK, WorkerType, Busy, Handlers
  <2> HIDE DEF x
  <2> QED
    BY <1>7, <1>9, <2>1
<1>10. ASSUME NEW w \in Worker, NEW o \in Terminal, RunEnds(w, o)
      PROVE  copies'[t] = 0 /\ Executing(t)' = {}
  <2> DEFINE x == [worker[w] EXCEPT !.pc = IF o = "FAILURE" THEN "failure" ELSE "postrun",
                                    !.outcome = o, !.loaded = Unread]
  <2>1. worker' = [worker EXCEPT ![w] = x] /\ x.task = worker[w].task /\ Busy(w) /\ copies' = copies
    BY <1>10 DEF RunEnds, TypeOK, WorkerType, Busy
  <2> HIDE DEF x
  <2> QED
    BY <1>7, <2>1
<1>11. ASSUME NEW w \in Worker, LoadRow(w) \/ CommitConflicts(w)
      PROVE  copies'[t] = 0 /\ Executing(t)' = {}
  BY <1>9, <1>11 DEF LoadRow, CommitConflicts
<1>12. ASSUME NEW w \in Worker, CommitInsert(w) \/ CommitUpdate(w) \/ HandlerFails(w)
      PROVE  copies'[t] = 0 /\ Executing(t)' = {}
  BY <1>8, <1>12 DEF CommitInsert, CommitUpdate, HandlerFails
<1>13. ASSUME NEW w \in Worker, ReloadRow(w)
      PROVE  copies'[t] = 0 /\ Executing(t)' = {}
  BY <1>8, <1>9, <1>13 DEF ReloadRow
<1>14. ASSUME NEW w \in Worker, Crash(w)
      PROVE  copies'[t] = 0 /\ Executing(t)' = {}
  BY <1>7, <1>14, IdleType DEF Crash
<1>15. CASE UNCHANGED vars
  BY <1>2, <1>3, <1>15 DEF vars
<1> QED
  BY <1>4, <1>6, <1>10, <1>11, <1>12, <1>13, <1>14, <1>15 DEF Next, WorkerNext

(* Who can write a row, and what: a commit of a worker that executes the task. *)
LEMMA UpdatedStatus ==
  ASSUME TypeOK, NEW w \in Worker, CommitUpdate(w), row[worker[w].task].id = worker[w].loaded.id
  PROVE  /\ row'[worker[w].task].id = row[worker[w].task].id
         /\ row'[worker[w].task].status =
              IF Mutated(w, worker[w].loaded).status # worker[w].loaded.status
              THEN Mutated(w, worker[w].loaded).status ELSE row[worker[w].task].status
         /\ Mutated(w, worker[w].loaded).status # "PENDING"
         /\ worker[w].pc = "prerun" => Mutated(w, worker[w].loaded).status = "STARTED"
         /\ worker[w].pc = "failure" => Mutated(w, worker[w].loaded).status = "FAILURE"
         /\ worker[w].pc = "postrun" => Mutated(w, worker[w].loaded).status = worker[w].outcome
<1>1. worker[w].loaded \in [id : Nat, status : Status, finished : BOOLEAN, error : BOOLEAN]
  BY UpdatedRow DEF RowType
<1>2. worker[w].pc \in Handlers
  BY DEF CommitUpdate
<1> DEFINE t == worker[w].task
           old == worker[w].loaded
           new == Mutated(w, old)
<1>3. row'[t] = Written(row[t], old, new)
  BY UpdatedRow
<1>4. /\ row'[t].id = row[t].id
      /\ row'[t].status = IF new.status # old.status THEN new.status ELSE row[t].status
  BY <1>3 DEF Written
<1> QED
  BY <1>1, <1>2, <1>4, MutatedRow

LEMMA RowStep ==
  ASSUME TypeOK, [Next]_vars, NEW t \in Task
  PROVE  \/ row'[t] = row[t]
         \/ RecordPublish(t) /\ row'[t] = Fresh(1)
         \/ Purge(t) /\ row'[t] = NoRow
         \/ \E w \in Executing(t) : CommitInsert(w)
         \/ \E w \in Executing(t) : CommitUpdate(w) /\ row[t].id = worker[w].loaded.id
<1> USE DEF history, bounds
<1>1. ASSUME NEW u \in Task, RecordPublish(u) PROVE row'[t] = row[t] \/ (RecordPublish(t) /\ row'[t] = Fresh(1))
  BY <1>1 DEF RecordPublish, TypeOK
<1>2. ASSUME NEW u \in Task, Purge(u) PROVE row'[t] = row[t] \/ (Purge(t) /\ row'[t] = NoRow)
  BY <1>2 DEF Purge, TypeOK
<1>3. ASSUME NEW w \in Worker, CommitInsert(w) PROVE row'[t] = row[t] \/ w \in Executing(t)
  BY <1>3, InsertedRow DEF CommitInsert, Executing, Busy, Handlers, TypeOK
<1>4. ASSUME NEW w \in Worker, CommitUpdate(w)
      PROVE  row'[t] = row[t] \/ (w \in Executing(t) /\ row[t].id = worker[w].loaded.id)
  <2>1. CASE row[worker[w].task].id = worker[w].loaded.id
    BY <1>4, <2>1, UpdatedRow DEF CommitUpdate, Executing, Busy, Handlers, TypeOK
  <2>2. CASE row[worker[w].task].id # worker[w].loaded.id
    BY <1>4, <2>2 DEF CommitUpdate
  <2> QED
    BY <2>1, <2>2
<1>5. ASSUME row' = row PROVE row'[t] = row[t]
  BY <1>5
<1>6. CASE UNCHANGED vars
  BY <1>5, <1>6 DEF vars
<1>7. ASSUME NEW u \in Task, RecordPublishFails(u) \/ Send(u) \/ SendFails(u) \/ Redeliver(u)
      PROVE  row'[t] = row[t]
  BY <1>5, <1>7 DEF RecordPublishFails, Send, SendFails, Redeliver
<1>8. ASSUME NEW w \in Worker, \/ \E u \in Task : Take(w, u)
                               \/ \E o \in Terminal : RunEnds(w, o)
                               \/ LoadRow(w) \/ CommitConflicts(w) \/ ReloadRow(w)
                               \/ HandlerFails(w) \/ Crash(w)
      PROVE  row'[t] = row[t]
  BY <1>5, <1>8 DEF Take, RunEnds, LoadRow, CommitConflicts, ReloadRow, HandlerFails, Crash
<1> QED
  BY <1>1, <1>2, <1>3, <1>4, <1>6, <1>7, <1>8 DEF Next, TaskNext, WorkerNext, Executing

(* A row that is PENDING was inserted when the task was published. *)
LEMMA PendingRow ==
  ASSUME TypeOK, [Next]_vars, NEW t \in Task, row'[t].status = "PENDING"
  PROVE  \/ RecordPublish(t)
         \/ row[t].status = "PENDING" /\ row'[t].id = row[t].id
<1>1. CASE Purge(t) /\ row'[t] = NoRow
  BY <1>1, MarkersAreApart
<1>2. ASSUME NEW w \in Executing(t), CommitInsert(w) PROVE FALSE
  BY <1>2, InsertedRow DEF Executing
<1>3. ASSUME NEW w \in Executing(t), CommitUpdate(w), row[t].id = worker[w].loaded.id
      PROVE  row[t].status = "PENDING" /\ row'[t].id = row[t].id
  BY <1>3, UpdatedStatus DEF Executing
<1> QED
  BY <1>1, <1>2, <1>3, RowStep

(* What a worker has loaded is what it had loaded before, or the row. *)
LEMMA LoadedStep ==
  ASSUME TypeOK, [Next]_vars, NEW t \in Task, NEW w \in Executing(t)'
  PROVE  \/ worker'[w].loaded \in {Unread, Conflict}
         \/ w \in Executing(t) /\ worker'[w].loaded = worker[w].loaded
         \/ w \in Executing(t) /\ worker'[w].loaded = row[t] /\ row' = row
<1> USE DEF history, bounds
<1>1. w \in Worker /\ worker'[w].pc # "idle" /\ worker'[w].task = t
  BY DEF Executing, Busy
<1>2. ASSUME worker'[w] = worker[w] PROVE w \in Executing(t) /\ worker'[w].loaded = worker[w].loaded
  BY <1>1, <1>2 DEF Executing, Busy
<1>3. ASSUME NEW u \in Task, TaskNext(u) PROVE worker'[w] = worker[w]
  BY <1>3 DEF TaskNext, RecordPublish, RecordPublishFails, Send, SendFails, Redeliver, Purge
<1>4. ASSUME NEW v \in Worker, WorkerNext(v), v # w PROVE worker'[w] = worker[w]
  BY <1>1, <1>4 DEF WorkerNext, Take, RunEnds, LoadRow, CommitInsert, CommitConflicts, ReloadRow,
     CommitUpdate, HandlerFails, Crash, TypeOK
<1>5. CASE WorkerNext(w)
  <2>1. ASSUME NEW u \in Task, Take(w, u) PROVE worker'[w].loaded = Unread
    BY <1>1, <2>1 DEF Take, TypeOK
  <2>2. ASSUME NEW o \in Terminal, RunEnds(w, o) PROVE worker'[w].loaded = Unread
    BY <1>1, <2>2 DEF RunEnds, TypeOK, WorkerType
  <2>3. ASSUME worker[w].pc \in Handlers, worker' = [worker EXCEPT ![w] = AfterHandler(w)]
        PROVE  worker'[w].loaded = Unread
    BY <1>1, <2>3, AfterHandlerType DEF TypeOK
  <2>4. ASSUME worker[w].pc \in Handlers, NEW r, worker' = [worker EXCEPT ![w].loaded = r]
        PROVE  w \in Executing(t) /\ worker'[w].loaded = r
    BY <1>1, <2>4 DEF Executing, Busy, Handlers, TypeOK, WorkerType
  <2>5. CASE LoadRow(w)
    BY <1>1, <2>4, <2>5 DEF LoadRow, Executing
  <2>6. CASE CommitConflicts(w)
    BY <2>4, <2>6 DEF CommitConflicts
  <2>7. CASE ReloadRow(w)
    BY <1>1, <2>3, <2>4, <2>7 DEF ReloadRow, Executing
  <2>8. CASE CommitInsert(w) \/ CommitUpdate(w) \/ HandlerFails(w)
    BY <2>3, <2>8 DEF CommitInsert, CommitUpdate, HandlerFails
  <2>9. CASE Crash(w)
    BY <1>1, <2>9, IdleType DEF Crash, TypeOK
  <2> QED
    BY <1>5, <2>1, <2>2, <2>5, <2>6, <2>7, <2>8, <2>9 DEF WorkerNext
<1>6. CASE UNCHANGED vars
  BY <1>2, <1>6 DEF vars
<1> QED
  BY <1>2, <1>3, <1>4, <1>5, <1>6 DEF Next

LEMMA PendingFirstInvariance ==
  TypeOK /\ TypeOK' /\ UnsentIsIdle /\ PendingIsFirst /\ [Next]_vars => PendingIsFirst'
<1> SUFFICES ASSUME TypeOK, TypeOK', UnsentIsIdle, PendingIsFirst, [Next]_vars,
                    NEW t \in Task, NEW w \in Executing(t)',
                    row'[t].status = "PENDING", worker'[w].loaded.id = row'[t].id
             PROVE  worker'[w].loaded.status = "PENDING"
  BY DEF PendingIsFirst
<1>1. CASE RecordPublish(t)
  <2>1. worker' = worker /\ Executing(t) = {}
    BY <1>1 DEF RecordPublish, UnsentIsIdle
  <2>2. FALSE
    BY <2>1 DEF Executing, Busy
  <2> QED
    BY <2>2
<1>2. CASE row[t].status = "PENDING" /\ row'[t].id = row[t].id
  <2>1. row'[t].id \in Nat
    BY MarkersAreApart DEF TypeOK, RowType
  <2>2. worker'[w].loaded \notin {Unread, Conflict}
    BY <2>1, MarkersAreApart
  <2>3. CASE w \in Executing(t) /\ worker'[w].loaded = worker[w].loaded
    BY <1>2, <2>3 DEF PendingIsFirst
  <2>4. CASE w \in Executing(t) /\ worker'[w].loaded = row[t] /\ row' = row
    BY <1>2, <2>4
  <2> QED
    BY <2>2, <2>3, <2>4, LoadedStep
<1> QED
  BY <1>1, <1>2, PendingRow

(* A worker in its start handler stays there, or writes the row. *)
LEMMA PrerunStep ==
  ASSUME TypeOK, [Next]_vars, lost' = 0, lost = 0, NEW t \in Task, NEW w \in Executing(t),
         worker[w].pc = "prerun"
  PROVE  \/ w \in Executing(t)' /\ worker'[w].pc = "prerun"
         \/ CommitInsert(w)
         \/ CommitUpdate(w) /\ row[t].id = worker[w].loaded.id
<1> USE DEF history, bounds
<1>1. w \in Worker /\ worker[w].task = t
  BY DEF Executing
<1>2. ASSUME worker'[w] = worker[w] PROVE w \in Executing(t)' /\ worker'[w].pc = "prerun"
  BY <1>1, <1>2 DEF Executing, Busy
<1>3. ASSUME NEW u \in Task, TaskNext(u) PROVE worker'[w] = worker[w]
  BY <1>3 DEF TaskNext, RecordPublish, RecordPublishFails, Send, SendFails, Redeliver, Purge
<1>4. ASSUME NEW v \in Worker, WorkerNext(v), v # w PROVE worker'[w] = worker[w]
  BY <1>1, <1>4 DEF WorkerNext, Take, RunEnds, LoadRow, CommitInsert, CommitConflicts, ReloadRow,
     CommitUpdate, HandlerFails, Crash, TypeOK
<1>5. CASE WorkerNext(w)
  <2>1. ASSUME NEW r, worker' = [worker EXCEPT ![w].loaded = r]
        PROVE  w \in Executing(t)' /\ worker'[w].pc = "prerun"
    BY <1>1, <2>1 DEF Executing, Busy, TypeOK, WorkerType
  <2>2. CASE LoadRow(w)
    BY <2>1, <2>2 DEF LoadRow
  <2>3. CASE CommitConflicts(w)
    BY <2>1, <2>3 DEF CommitConflicts
  <2>4. CASE ReloadRow(w)
    BY <2>1, <2>4 DEF ReloadRow
  <2>5. CASE CommitUpdate(w)
    BY <1>1, <2>5 DEF CommitUpdate
  <2>6. CASE HandlerFails(w) \/ Crash(w)
    BY <2>6 DEF HandlerFails, Crash
  <2>7. ASSUME NEW u \in Task, Take(w, u) PROVE FALSE
    BY <2>7 DEF Take, Busy
  <2>8. ASSUME NEW o \in Terminal, RunEnds(w, o) PROVE FALSE
    BY <2>8 DEF RunEnds
  <2> QED
    BY <1>5, <2>2, <2>3, <2>4, <2>5, <2>6, <2>7, <2>8 DEF WorkerNext
<1>6. CASE UNCHANGED vars
  BY <1>2, <1>6 DEF vars
<1> QED
  BY <1>2, <1>3, <1>4, <1>5, <1>6 DEF Next

(* A worker that takes the message of a task is in its start handler. *)
LEMMA OnItsWayStep ==
  ASSUME TypeOK, UnsentIsIdle, [Next]_vars, NEW t \in Task, OnItsWay(t)
  PROVE  OnItsWay(t)' \/ \E w \in Executing(t)' : worker'[w].pc = "prerun"
<1> USE DEF history, bounds
<1>1. ASSUME NEW u \in Task, TaskNext(u) PROVE OnItsWay(t)'
  BY <1>1 DEF TaskNext, RecordPublish, RecordPublishFails, Send, SendFails, Redeliver, Purge, OnItsWay, TypeOK
<1>2. ASSUME NEW w \in Worker, NEW u \in Task, Take(w, u)
      PROVE  OnItsWay(t)' \/ \E v \in Executing(t)' : worker'[v].pc = "prerun"
  <2>1. CASE u = t
    <3>1. w \in Executing(t)' /\ worker'[w].pc = "prerun"
      BY <1>2, <2>1 DEF Take, TypeOK, Executing, Busy
    <3> QED
      BY <3>1
  <2>2. CASE u # t
    BY <1>2, <2>2 DEF Take, TypeOK, OnItsWay
  <2> QED
    BY <2>1, <2>2
<1>3. ASSUME UNCHANGED <<publish, copies>> PROVE OnItsWay(t)'
  BY <1>3 DEF OnItsWay
<1>4. ASSUME NEW w \in Worker, \/ \E o \in Terminal : RunEnds(w, o)
                               \/ LoadRow(w) \/ CommitInsert(w) \/ CommitConflicts(w) \/ ReloadRow(w)
                               \/ CommitUpdate(w) \/ HandlerFails(w) \/ Crash(w)
      PROVE  OnItsWay(t)'
  BY <1>3, <1>4 DEF RunEnds, LoadRow, CommitInsert, CommitConflicts, ReloadRow, CommitUpdate, HandlerFails, Crash
<1>5. CASE UNCHANGED vars
  BY <1>3, <1>5 DEF vars
<1> QED
  BY <1>1, <1>2, <1>4, <1>5 DEF Next, WorkerNext

LEMMA PendingInvariance ==
  TypeOK /\ UnsentIsIdle /\ PendingIsFirst /\ PendingIsWaiting /\ [Next]_vars => PendingIsWaiting'
<1> SUFFICES ASSUME TypeOK, UnsentIsIdle, PendingIsFirst, PendingIsWaiting, [Next]_vars, lost' = 0,
                    NEW t \in Task, row'[t].status = "PENDING"
             PROVE  OnItsWay(t)' \/ \E w \in Executing(t)' : worker'[w].pc = "prerun"
  BY DEF PendingIsWaiting, OnItsWay
<1>1. lost = 0
  BY LostGrows
<1>2. CASE RecordPublish(t)
  BY <1>2 DEF RecordPublish, OnItsWay, TypeOK
<1>3. CASE row[t].status = "PENDING" /\ row'[t].id = row[t].id
  <2>1. OnItsWay(t) \/ \E w \in Executing(t) : worker[w].pc = "prerun"
    BY <1>1, <1>3 DEF PendingIsWaiting, OnItsWay
  <2>2. ASSUME NEW w \in Executing(t), worker[w].pc = "prerun"
        PROVE  w \in Executing(t)' /\ worker'[w].pc = "prerun"
    <3>0. w \in Worker /\ worker[w].task = t
      BY DEF Executing
    <3>1. ASSUME CommitInsert(w) PROVE FALSE
      BY <1>3, <3>0, <3>1, MarkersAreApart DEF CommitInsert
    <3>2. ASSUME CommitUpdate(w), row[t].id = worker[w].loaded.id PROVE FALSE
      <4>1. worker[w].loaded.status = "PENDING"
        BY <1>3, <3>2 DEF PendingIsFirst
      <4>2. row'[t].status = "STARTED"
        BY <2>2, <3>0, <3>2, <4>1, UpdatedStatus
      <4> QED
        BY <4>2
    <3> QED
      BY <1>1, <2>2, <3>1, <3>2, PrerunStep
  <2> QED
    BY <2>1, <2>2, OnItsWayStep
<1> QED
  BY <1>2, <1>3, PendingRow

-----------------------------------------------------------------------------
(* TerminalIsFinal *)

(* Where the workers of a task can be after a step. *)
LEMMA ExecutingStep ==
  ASSUME TypeOK, [Next]_vars, NEW t \in Task, NEW w \in Executing(t)'
  PROVE  w \in Worker /\ (w \in Executing(t) \/ (Take(w, t) /\ worker'[w].pc = "prerun"))
<1> USE DEF history, bounds
<1>1. w \in Worker /\ worker'[w].pc # "idle" /\ worker'[w].task = t
  BY DEF Executing, Busy
<1>2. ASSUME worker'[w] = worker[w] PROVE w \in Executing(t)
  BY <1>1, <1>2 DEF Executing, Busy
<1>3. ASSUME NEW u \in Task, TaskNext(u) PROVE worker'[w] = worker[w]
  BY <1>3 DEF TaskNext, RecordPublish, RecordPublishFails, Send, SendFails, Redeliver, Purge
<1>4. ASSUME NEW v \in Worker, WorkerNext(v), v # w PROVE worker'[w] = worker[w]
  BY <1>1, <1>4 DEF WorkerNext, Take, RunEnds, LoadRow, CommitInsert, CommitConflicts, ReloadRow,
     CommitUpdate, HandlerFails, Crash, TypeOK
<1>5. CASE WorkerNext(w)
  <2>1. ASSUME NEW u \in Task, Take(w, u) PROVE u = t /\ worker'[w].pc = "prerun"
    BY <1>1, <2>1 DEF Take, TypeOK
  <2>2. ASSUME NEW o \in Terminal, RunEnds(w, o) PROVE w \in Executing(t)
    BY <1>1, <2>2 DEF RunEnds, TypeOK, WorkerType, Executing, Busy
  <2>3. ASSUME worker[w].pc \in Handlers, worker' = [worker EXCEPT ![w] = AfterHandler(w)]
        PROVE  w \in Executing(t)
    BY <1>1, <2>3, AfterHandlerType DEF TypeOK, Executing, Busy, Handlers
  <2>4. ASSUME worker[w].pc \in Handlers, NEW r, worker' = [worker EXCEPT ![w].loaded = r]
        PROVE  w \in Executing(t)
    BY <1>1, <2>4 DEF Executing, Busy, Handlers, TypeOK, WorkerType
  <2>5. CASE LoadRow(w) \/ CommitConflicts(w)
    BY <1>1, <2>4, <2>5 DEF LoadRow, CommitConflicts
  <2>6. CASE ReloadRow(w)
    BY <1>1, <2>3, <2>4, <2>6 DEF ReloadRow
  <2>7. CASE CommitInsert(w) \/ CommitUpdate(w) \/ HandlerFails(w)
    BY <1>1, <2>3, <2>7 DEF CommitInsert, CommitUpdate, HandlerFails
  <2>8. CASE Crash(w)
    BY <1>1, <2>8, IdleType DEF Crash, TypeOK
  <2> QED
    BY <1>1, <1>5, <2>1, <2>2, <2>5, <2>6, <2>7, <2>8 DEF WorkerNext
<1>6. CASE UNCHANGED vars
  BY <1>1, <1>2, <1>6 DEF vars
<1> QED
  BY <1>1, <1>2, <1>3, <1>4, <1>5, <1>6 DEF Next

(* What a step may do to a terminal status when the task is executed once. *)
LEMMA StatusStep ==
  ASSUME TypeOK, UnsentIsIdle, OutcomesAreKnown, ExecutedOnce, [Next]_vars, redelivered = 0, NEW t \in Task
  PROVE  /\ row[t].status \in Terminal => row'[t].status = row[t].status \/ row'[t] = NoRow
         /\ row'[t].status \in Terminal /\ row[t].status \notin Terminal =>
              \E w \in Executing(t) :
                /\ worker[w].pc \in {"failure", "postrun"} /\ row'[t].status = worker[w].outcome
                /\ worker' = [worker EXCEPT ![w] = AfterHandler(w)]
<1>1. CASE row'[t] = row[t]
  BY <1>1
<1>2. CASE RecordPublish(t) /\ row'[t] = Fresh(1)
  <2>1. row[t].status \notin Terminal
    BY <1>2 DEF RecordPublish, ExecutedOnce
  <2> QED
    BY <1>2, <2>1 DEF Fresh, Terminal
<1>3. CASE Purge(t) /\ row'[t] = NoRow
  BY <1>3, MarkersAreApart DEF Terminal
<1>4. ASSUME NEW w \in Executing(t), CommitInsert(w)
      PROVE  /\ row[t].status \notin Terminal
             /\ row'[t].status \in Terminal =>
                  worker[w].pc \in {"failure", "postrun"} /\ row'[t].status = worker[w].outcome
  <2>1. w \in Worker /\ worker[w].task = t /\ worker[w].pc \in Handlers
    BY <1>4 DEF Executing, CommitInsert
  <2>2. row[t].status \notin Terminal
    BY <1>4, <2>1, MarkersAreApart DEF CommitInsert, Terminal
  <2>3. CASE worker[w].pc = "prerun"
    BY <1>4, <2>1, <2>2, <2>3, InsertedRow DEF Terminal
  <2>4. CASE worker[w].pc = "failure"
    BY <1>4, <2>1, <2>2, <2>4, InsertedRow DEF OutcomesAreKnown
  <2>5. CASE worker[w].pc = "postrun"
    BY <1>4, <2>1, <2>2, <2>5, InsertedRow
  <2> QED
    BY <2>1, <2>3, <2>4, <2>5 DEF Handlers
<1>5. ASSUME NEW w \in Executing(t), CommitUpdate(w), row[t].id = worker[w].loaded.id
      PROVE  /\ row[t].status \in Terminal => row'[t].status = row[t].status
             /\ row'[t].status \in Terminal /\ row[t].status \notin Terminal =>
                  worker[w].pc \in {"failure", "postrun"} /\ row'[t].status = worker[w].outcome
  <2> DEFINE new == Mutated(w, worker[w].loaded)
  <2>1. w \in Worker /\ worker[w].task = t /\ worker[w].pc \in Handlers
    BY <1>5 DEF Executing, CommitUpdate
  <2>2. row[t].status \in Terminal => worker[w].pc = "postrun" /\ row[t].status = worker[w].outcome
    BY DEF ExecutedOnce
  <2>3. row'[t].status = new.status \/ row'[t].status = row[t].status
    BY <1>5, <2>1, UpdatedStatus
  <2>4. CASE worker[w].pc = "prerun"
    <3>1. new.status = "STARTED"
      BY <1>5, <2>1, <2>4, UpdatedStatus
    <3> QED
      BY <2>2, <2>3, <2>4, <3>1 DEF Terminal
  <2>5. CASE worker[w].pc = "failure"
    <3>1. new.status = "FAILURE" /\ worker[w].outcome = "FAILURE"
      BY <1>5, <2>1, <2>5, UpdatedStatus DEF OutcomesAreKnown
    <3> QED
      BY <2>2, <2>3, <2>5, <3>1
  <2>6. CASE worker[w].pc = "postrun"
    <3>1. new.status = worker[w].outcome
      BY <1>5, <2>1, <2>6, UpdatedStatus
    <3> QED
      BY <2>2, <2>3, <2>6, <3>1
  <2> QED
    BY <2>1, <2>4, <2>5, <2>6 DEF Handlers
<1> QED
  BY <1>1, <1>2, <1>3, <1>4, <1>5, RowStep DEF CommitInsert, CommitUpdate

(* A worker in its last handler leaves it only by ending. *)
LEMMA PostrunStep ==
  ASSUME TypeOK, [Next]_vars, NEW t \in Task, NEW w \in Executing(t), worker[w].pc = "postrun",
         w \in Executing(t)'
  PROVE  worker'[w].pc = "postrun" /\ worker'[w].outcome = worker[w].outcome
<1> USE DEF history, bounds
<1>1. w \in Worker /\ worker[w].task = t /\ worker'[w].pc # "idle"
  BY DEF Executing, Busy
<1>2. ASSUME worker'[w] = worker[w] PROVE worker'[w].pc = "postrun" /\ worker'[w].outcome = worker[w].outcome
  BY <1>2
<1>3. ASSUME NEW u \in Task, TaskNext(u) PROVE worker'[w] = worker[w]
  BY <1>3 DEF TaskNext, RecordPublish, RecordPublishFails, Send, SendFails, Redeliver, Purge
<1>4. ASSUME NEW v \in Worker, WorkerNext(v), v # w PROVE worker'[w] = worker[w]
  BY <1>1, <1>4 DEF WorkerNext, Take, RunEnds, LoadRow, CommitInsert, CommitConflicts, ReloadRow,
     CommitUpdate, HandlerFails, Crash, TypeOK
<1>5. CASE WorkerNext(w)
  <2>1. ASSUME NEW r, worker' = [worker EXCEPT ![w].loaded = r]
        PROVE  worker'[w].pc = "postrun" /\ worker'[w].outcome = worker[w].outcome
    BY <1>1, <2>1 DEF TypeOK, WorkerType
  <2>2. ASSUME worker' = [worker EXCEPT ![w] = AfterHandler(w)] PROVE FALSE
    BY <1>1, <2>2, AfterHandlerType DEF TypeOK, Handlers
  <2>3. CASE LoadRow(w) \/ CommitConflicts(w)
    BY <2>1, <2>3 DEF LoadRow, CommitConflicts
  <2>4. CASE ReloadRow(w)
    BY <2>1, <2>2, <2>4 DEF ReloadRow
  <2>5. CASE CommitInsert(w) \/ CommitUpdate(w) \/ HandlerFails(w)
    BY <2>2, <2>5 DEF CommitInsert, CommitUpdate, HandlerFails
  <2>6. CASE Crash(w)
    BY <1>1, <2>6, IdleType DEF Crash, TypeOK
  <2>7. ASSUME NEW u \in Task, Take(w, u) PROVE FALSE
    BY <2>7 DEF Take, Busy
  <2>8. ASSUME NEW o \in Terminal, RunEnds(w, o) PROVE FALSE
    BY <2>8 DEF RunEnds
  <2> QED
    BY <1>5, <2>3, <2>4, <2>5, <2>6, <2>7, <2>8 DEF WorkerNext
<1>6. CASE UNCHANGED vars
  BY <1>2, <1>6 DEF vars
<1> QED
  BY <1>2, <1>3, <1>4, <1>5, <1>6 DEF Next

LEMMA ExecutedOnceInvariance ==
  TypeOK /\ UnsentIsIdle /\ OutcomesAreKnown /\ ExecutedOnce /\ [Next]_vars => ExecutedOnce'
<1> SUFFICES ASSUME TypeOK, UnsentIsIdle, OutcomesAreKnown, ExecutedOnce, [Next]_vars, redelivered' = 0,
                    NEW t \in Task
             PROVE  /\ copies'[t] \in {0, 1}
                    /\ publish'[t] # "sent" \/ copies'[t] = 1 =>
                         Executing(t)' = {} /\ row'[t].status \notin Terminal
                    /\ \A v, w \in Executing(t)' : v = w
                    /\ \A w \in Executing(t)' : row'[t].status \in Terminal =>
                         worker'[w].pc = "postrun" /\ row'[t].status = worker'[w].outcome
  BY DEF ExecutedOnce
<1> USE DEF history, bounds
<1>1. redelivered = 0 /\ \A u \in Task : ~Redeliver(u)
  <2>1. redelivered \in Nat
    BY BoundsAreNat DEF TypeOK
  <2>2. ASSUME NEW u \in Task, Redeliver(u) PROVE FALSE
    BY <2>1, <2>2 DEF Redeliver
  <2>3. redelivered' = redelivered
    BY <2>2 DEF Next, TaskNext, WorkerNext, RecordPublish, RecordPublishFails, Send, SendFails,
       Purge, Take, RunEnds, LoadRow, CommitInsert, CommitConflicts, ReloadRow, CommitUpdate,
       HandlerFails, Crash, vars
  <2> QED
    BY <2>2, <2>3
<1>2. /\ copies[t] \in {0, 1}
      /\ publish[t] # "sent" \/ copies[t] = 1 => Executing(t) = {} /\ row[t].status \notin Terminal
      /\ \A v, w \in Executing(t) : v = w
      /\ \A w \in Executing(t) : row[t].status \in Terminal =>
           worker[w].pc = "postrun" /\ row[t].status = worker[w].outcome
  BY <1>1 DEF ExecutedOnce
<1>3. ASSUME NEW w \in Worker, Take(w, t)
      PROVE  /\ copies[t] = 1 /\ copies'[t] = 0 /\ publish'[t] = "sent" /\ publish[t] = "sent"
             /\ \A v \in Worker \ {w} : worker'[v] = worker[v]
  BY <1>2, <1>3 DEF Take, TypeOK, UnsentIsIdle
<1>4. \/ copies'[t] = copies[t] /\ (publish'[t] # "sent" => publish[t] # "sent")
      \/ copies[t] = 0 /\ copies'[t] = 1 /\ publish[t] # "sent"
      \/ \E w \in Worker : Take(w, t)
  <2>1. ASSUME NEW u \in Task, Send(u)
        PROVE  \/ copies'[t] = copies[t] /\ (publish'[t] # "sent" => publish[t] # "sent")
               \/ copies[t] = 0 /\ copies'[t] = 1 /\ publish[t] # "sent"
    BY <2>1 DEF Send, TypeOK, UnsentIsIdle
  <2>2. ASSUME NEW u \in Task, RecordPublish(u) \/ RecordPublishFails(u) \/ SendFails(u) \/ Purge(u)
        PROVE  copies'[t] = copies[t] /\ (publish'[t] # "sent" => publish[t] # "sent")
    BY <2>2 DEF RecordPublish, RecordPublishFails, SendFails, Purge, TypeOK
  <2>3. ASSUME NEW w \in Worker, NEW u \in Task, Take(w, u), u # t
        PROVE  copies'[t] = copies[t] /\ publish' = publish
    BY <2>3 DEF Take, TypeOK
  <2>4. ASSUME NEW w \in Worker, \/ \E o \in Terminal : RunEnds(w, o)
                                 \/ LoadRow(w) \/ CommitInsert(w) \/ CommitConflicts(w) \/ ReloadRow(w)
                                 \/ CommitUpdate(w) \/ HandlerFails(w) \/ Crash(w)
        PROVE  copies' = copies /\ publish' = publish
    BY <2>4 DEF RunEnds, LoadRow, CommitInsert, CommitConflicts, ReloadRow, CommitUpdate, HandlerFails, Crash
  <2>5. CASE UNCHANGED vars
    BY <2>5 DEF vars
  <2> QED
    BY <1>1, <2>1, <2>2, <2>3, <2>4, <2>5 DEF Next, TaskNext, WorkerNext
<1>5. copies'[t] \in {0, 1}
  BY <1>2, <1>3, <1>4
<1>6. ASSUME publish'[t] # "sent" \/ copies'[t] = 1
      PROVE  Executing(t)' = {} /\ row'[t].status \notin Terminal
  <2>1. publish[t] # "sent" \/ copies[t] = 1
    BY <1>3, <1>4, <1>6
  <2>2. Executing(t) = {} /\ row[t].status \notin Terminal
    BY <1>2, <2>1
  <2>3. \A w \in Worker : ~Take(w, t)
    BY <1>3, <1>6
  <2> QED
    BY <1>1, <2>2, <2>3, ExecutingStep, StatusStep
<1>7. ASSUME NEW v \in Executing(t)', NEW w \in Executing(t)' PROVE v = w
  <2>1. CASE v \in Executing(t) /\ w \in Executing(t)
    BY <1>2, <2>1
  <2>2. ASSUME NEW x \in Worker, NEW y \in Executing(t)', Take(x, t) PROVE y = x
    <3>1. Executing(t) = {}
      BY <1>2, <1>3, <2>2
    <3>2. y \in Worker /\ (y # x => y \in Executing(t))
      BY <1>3, <2>2 DEF Executing, Busy
    <3> QED
      BY <3>1, <3>2
  <2> QED
    BY <2>1, <2>2, ExecutingStep
<1>8. ASSUME NEW w \in Executing(t)', row'[t].status \in Terminal
      PROVE  worker'[w].pc = "postrun" /\ row'[t].status = worker'[w].outcome
  <2>0. w \in Worker /\ worker'[w].pc # "idle"
    BY DEF Executing, Busy
  <2>1. CASE row[t].status \in Terminal
    <3>1. row'[t].status = row[t].status
      BY <1>1, <1>8, <2>1, StatusStep, MarkersAreApart DEF Terminal
    <3>2. w \in Executing(t)
      BY <1>2, <1>3, <2>1, ExecutingStep
    <3>3. worker[w].pc = "postrun" /\ row[t].status = worker[w].outcome
      BY <1>2, <2>1, <3>2
    <3> QED
      BY <3>1, <3>2, <3>3, PostrunStep
  <2>2. CASE row[t].status \notin Terminal
    <3>1. PICK v \in Executing(t) :
            /\ worker[v].pc \in {"failure", "postrun"} /\ row'[t].status = worker[v].outcome
            /\ worker' = [worker EXCEPT ![v] = AfterHandler(v)]
      BY <1>1, <1>8, <2>2, StatusStep
    <3>2. w = v
      BY <1>2, <1>3, <3>1, ExecutingStep
    <3>3. worker'[w] = AfterHandler(w) /\ worker[w].pc \in Handlers
      BY <2>0, <3>1, <3>2 DEF TypeOK, Handlers
    <3> QED
      BY <2>0, <3>1, <3>2, <3>3, AfterHandlerType
  <2> QED
    BY <2>1, <2>2
<1> QED
  BY <1>5, <1>6, <1>7, <1>8

-----------------------------------------------------------------------------
(* Everything above together is inductive. *)
THEOREM InductiveInvariant == Spec => []IInv
<1>1. Init => IInv
  <2>1. Init => TypeOK
    BY InitTypeOK
  <2>2. Init => OutcomesAreKnown /\ UnsettledIsInHand /\ UnsentIsIdle /\ PendingIsFirst
                /\ PendingIsWaiting /\ ExecutedOnce
    BY MarkersAreApart DEF Init, OutcomesAreKnown, UnsettledIsInHand, UnsentIsIdle, PendingIsFirst,
       PendingIsWaiting, ExecutedOnce, Executing, Busy, Idle, Terminal
  <2> QED
    BY <2>1, <2>2 DEF IInv
<1>2. IInv /\ [Next]_vars => IInv'
  BY TypeInvariance, OutcomesInvariance, UnsettledInvariance, UnsentInvariance, PendingFirstInvariance,
     PendingInvariance, ExecutedOnceInvariance DEF IInv
<1> QED
  BY <1>1, <1>2, PTL DEF Spec

(* Whatever workers execute a task at once: when the last one is done and no  *)
(* commit was lost, the row is finished and tells how an execution ended.     *)
THEOREM SettledRowsTellAnOutcome == Spec => []SettledTellsAnOutcome
<1>1. IInv => SettledTellsAnOutcome
  <2> SUFFICES ASSUME IInv, lost = 0, NEW t \in Task, Settled(t), row[t] # NoRow
               PROVE  row[t].finished /\ row[t].status \in outcomes[t]
    BY DEF SettledTellsAnOutcome
  <2>1. ~OnItsWay(t) /\ \A w \in Worker : ~HandsOn(w, t)
    BY DEF Settled, OnItsWay, HandsOn, IInv, TypeOK
  <2> QED
    BY <2>1 DEF IInv, UnsettledIsInHand, Settled
<1> QED
  BY <1>1, InductiveInvariant, PTL

(* A PENDING row is never one that a worker has started. *)
THEOREM PendingRowsWait == Spec => []PendingIsWaiting
<1>1. IInv => PendingIsWaiting
  BY DEF IInv
<1> QED
  BY <1>1, InductiveInvariant, PTL

(* Without redelivery nothing overwrites a terminal status. *)
THEOREM TerminalRowsAreFinal == Spec => TerminalIsFinal
<1>1. IInv /\ [Next]_vars =>
        [\A t \in Task : redelivered = 0 /\ row[t].status \in Terminal =>
           row'[t].status = row[t].status \/ row'[t] = NoRow]_vars
  BY StatusStep DEF IInv
<1> QED
  BY <1>1, InductiveInvariant, PTL DEF Spec, TerminalIsFinal

=============================================================================

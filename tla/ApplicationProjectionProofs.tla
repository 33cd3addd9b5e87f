--------------------- MODULE ApplicationProjectionProofs ---------------------
(***************************************************************************)
(* Theorems of ApplicationProjection for every set of machines, codes,     *)
(* dimensions and workers.                                                 *)
(***************************************************************************)
EXTENDS ApplicationProjection, TLAPS

TaskState ==
  [pc : {"idle", "grouped", "loaded"}, snapshot : SUBSET Key, existing : [Key -> Nat \cup {None}],
   always : SUBSET Key, sometime : SUBSET Key, disturbed : BOOLEAN]

(* TypeOK with the record of each task spelled out, and what a rebuild knows: *)
(* `always' is kept below the snapshot and the snapshot below `sometime', and *)
(* while nothing disturbs it what it has read is what the tables hold.        *)
RowsOK == /\ application \in [Key -> Nat \cup {None}] /\ born \in [Key -> Nat]
          /\ \A k \in Key : application[k] # None => application[k] \in 1..born[k]

TaskOK(t) ==
  /\ t \in TaskState
  /\ t.always \subseteq t.snapshot /\ t.snapshot \subseteq t.sometime

Fresh(t) ==
  t.pc # "idle" /\ ~t.disturbed =>
    t.snapshot = Keys /\ (t.pc = "loaded" => t.existing = application)

Counters ==
  changes \in 0..MaxChanges /\ purges \in 0..MaxPurges /\ failures \in 0..MaxFailures

Brackets ==
  /\ machine \in Machines /\ RowsOK /\ Counters
  /\ DOMAIN task = Worker /\ task = [w \in Worker |-> task[w]]
  /\ \A w \in Worker : TaskOK(task[w]) /\ Fresh(task[w])

LEMMA BracketsType == Brackets => TypeOK
BY DEF Brackets, TypeOK, RowsOK, Counters, TaskOK, TaskState

(* Every machine that carries an application has its key. *)
LEMMA SnapshotType == ASSUME NEW rows \in Machines PROVE Snapshot(rows) \subseteq Key
<1>1. ASSUME NEW n \in Machine, rows[n] # None, rows[n].code # None
      PROVE  KeyOf(rows[n]) \in Key
  <2>1. rows[n] \in Columns
    BY <1>1, ProjectionAssumption DEF Machines
  <2>2. /\ rows[n].code \in Code
        /\ Coalesce(rows[n].environment) \in Dimension /\ Coalesce(rows[n].region) \in Dimension
    BY <1>1, <2>1, ProjectionAssumption DEF Columns, Coalesce
  <2> QED
    BY <2>2 DEF KeyOf, Key
<1> QED
  BY <1>1 DEF Snapshot

LEMMA KeysType == machine \in Machines => Keys = Snapshot(machine) /\ Keys \subseteq Key
BY SnapshotType DEF Keys, Snapshot

LEMMA IdleOK == TaskOK(Idle) /\ Fresh(Idle)
BY DEF TaskOK, TaskState, Fresh, Idle

LEMMA InitBrackets == Init => Brackets
<1> SUFFICES ASSUME Init PROVE Brackets
  OBVIOUS
<1>1. RowsOK
  BY ProjectionAssumption DEF Init, RowsOK
<1>2. Counters
  BY ProjectionAssumption DEF Init, Counters
<1>3. \A w \in Worker : TaskOK(task[w]) /\ Fresh(task[w])
  <2> TAKE w \in Worker
  <2>1. task[w] = Idle
    BY DEF Init
  <2>2. TaskOK(task[w])
    BY <2>1, IdleOK
  <2>3. Fresh(task[w])
    BY <2>1 DEF Fresh, Idle
  <2> QED
    BY <2>2, <2>3
<1> QED
  BY <1>1, <1>2, <1>3 DEF Init, Brackets

(* A step that leaves the tables alone and writes one task. *)
LEMMA OneTask ==
  ASSUME Brackets, NEW w \in Worker, NEW t, TaskOK(t), Fresh(t),
         task' = [task EXCEPT ![w] = t], machine' = machine, application' = application,
         born' = born, Counters'
  PROVE  Brackets'
<1>1. \A x \in Worker : TaskOK(task'[x])
  BY DEF Brackets
<1>2. Keys' = Keys
  BY DEF Keys
<1>3. ASSUME NEW x \in Worker PROVE Fresh(task[x])'
  <2>1. Fresh(task'[x])
    BY DEF Brackets
  <2> QED
    BY <2>1, <1>2 DEF Fresh
<1>4. ASSUME NEW x \in Worker PROVE TaskOK(task[x])'
  BY <1>1 DEF TaskOK, TaskState, Key
<1> QED
  BY <1>3, <1>4 DEF Brackets, RowsOK

LEMMA ReadMachinesStep ==
  ASSUME Brackets, NEW w \in Worker, ReadMachines(w) PROVE Brackets'
<1> DEFINE t == [Idle EXCEPT !.pc = "grouped", !.snapshot = Snapshot(machine),
                             !.always = Keys, !.sometime = Keys]
<1>1. Keys = Snapshot(machine) /\ Keys \subseteq Key
  BY KeysType DEF Brackets
<1>2. TaskOK(t)
  BY <1>1 DEF TaskOK, TaskState, Idle
<1>3. Fresh(t)
  BY <1>1 DEF Fresh, Idle
<1>4. /\ task' = [task EXCEPT ![w] = t] /\ machine' = machine /\ application' = application
      /\ born' = born /\ Counters'
  BY DEF ReadMachines, Brackets, Counters
<1> HIDE DEF t
<1> QED
  BY <1>2, <1>3, <1>4, OneTask

LEMMA ReadApplicationsStep ==
  ASSUME Brackets, NEW w \in Worker, ReadApplications(w) PROVE Brackets'
<1> DEFINE t == [task[w] EXCEPT !.pc = "loaded", !.existing = application]
<1>1. task[w].pc = "grouped" /\ TaskOK(task[w]) /\ Fresh(task[w])
  BY DEF ReadApplications, Brackets
<1>2. TaskOK(t)
  BY <1>1 DEF TaskOK, TaskState, Brackets, RowsOK
<1>3. Fresh(t)
  BY <1>1 DEF Fresh, TaskOK, TaskState
<1>4. /\ task' = [task EXCEPT ![w] = t] /\ machine' = machine /\ application' = application
      /\ born' = born /\ Counters'
  BY DEF ReadApplications, Brackets, Counters
<1> HIDE DEF t
<1> QED
  BY <1>2, <1>3, <1>4, OneTask

(* A rebuild that is rejected or lost leaves nothing but an idle worker. *)
LEMMA AbandonStep ==
  ASSUME Brackets, NEW w \in Worker, Reject(w) \/ Fail(w) PROVE Brackets'
<1>1. /\ task' = [task EXCEPT ![w] = Idle] /\ machine' = machine /\ application' = application
      /\ born' = born
  BY DEF Reject, Fail
<1>2. Counters'
  BY ProjectionAssumption DEF Reject, Fail, Brackets, Counters
<1> QED
  BY <1>1, <1>2, IdleOK, OneTask

(* A step that disturbs every rebuild that goes on. *)
LEMMA CommitStep ==
  ASSUME Brackets, NEW w \in Worker, Commit(w) PROVE Brackets'
<1>1. RowsOK'
  <2>1. /\ application \in [Key -> Nat \cup {None}] /\ born \in [Key -> Nat]
        /\ \A k \in Key : application[k] # None => application[k] \in 1..born[k]
    BY DEF Brackets, RowsOK
  <2> DEFINE C == Created(w)
             D == {k \in Deleted(w) : application[k] = task[w].existing[k]}
  <2>2. /\ application' = [k \in Key |->
             IF k \in C THEN born[k] + 1 ELSE IF k \in D THEN None ELSE application[k]]
        /\ born' = [k \in Key |-> IF k \in C THEN born[k] + 1 ELSE born[k]]
    BY DEF Commit
  <2> HIDE DEF C, D
  <2>3. \A k \in Key : application'[k] # None => application'[k] \in 1..born'[k]
    <3> SUFFICES ASSUME NEW k \in Key, application'[k] # None PROVE application'[k] \in 1..born'[k]
      OBVIOUS
    <3>1. CASE k \in C
      BY <3>1, <2>1, <2>2
    <3>2. CASE k \notin C
      BY <3>2, <2>1, <2>2
    <3> QED
      BY <3>1, <3>2
  <2>4. application' \in [Key -> Nat \cup {None}] /\ born' \in [Key -> Nat]
    BY <2>1, <2>2
  <2> QED
    BY <2>3, <2>4 DEF RowsOK, Key
<1>2. machine' = machine /\ Counters'
  BY DEF Commit, Brackets, Counters
<1>3. task' = [x \in Worker |-> IF x = w THEN Idle
                 ELSE IF task[x].pc # "idle" THEN [task[x] EXCEPT !.disturbed = TRUE] ELSE task[x]]
  BY DEF Commit, Disturb, Brackets, Idle
<1>4. ASSUME NEW x \in Worker PROVE TaskOK(task[x])' /\ Fresh(task[x])'
  <2>1. TaskOK(task[x])
    BY DEF Brackets
  <2>2. TaskOK(task'[x])
    BY <1>3, <2>1, IdleOK DEF TaskOK, TaskState
  <2>3. task'[x].pc = "idle" \/ task'[x].disturbed
    BY <1>3, <2>1 DEF Idle, TaskOK, TaskState
  <2> QED
    BY <2>2, <2>3 DEF TaskOK, TaskState, Key, Fresh
<1> QED
  BY <1>1, <1>2, <1>3, <1>4 DEF Brackets

LEMMA PurgeStep == ASSUME Brackets, PurgeStaleApplications PROVE Brackets'
<1>1. PICK stale \in SUBSET Present :
        application' = [k \in Key |-> IF k \in stale THEN None ELSE application[k]]
  BY DEF PurgeStaleApplications
<1>2. RowsOK'
  BY <1>1 DEF PurgeStaleApplications, Brackets, RowsOK, Key
<1>3. machine' = machine /\ Counters'
  BY ProjectionAssumption DEF PurgeStaleApplications, Brackets, Counters
<1>4. task' = [x \in Worker |->
         IF task[x].pc # "idle" THEN [task[x] EXCEPT !.disturbed = TRUE] ELSE task[x]]
  BY DEF PurgeStaleApplications, Running
<1>5. ASSUME NEW x \in Worker PROVE TaskOK(task[x])' /\ Fresh(task[x])'
  <2>1. TaskOK(task[x])
    BY DEF Brackets
  <2>2. TaskOK(task'[x]) /\ (task'[x].pc = "idle" \/ task'[x].disturbed)
    BY <1>4, <2>1 DEF TaskOK, TaskState
  <2> QED
    BY <2>2 DEF TaskOK, TaskState, Key, Fresh
<1> QED
  BY <1>2, <1>3, <1>4, <1>5 DEF Brackets

LEMMA ChangeStep ==
  ASSUME Brackets, NEW rows \in Machines, ChangeMachines(rows) PROVE Brackets'
<1>1. machine' \in Machines /\ Keys' \subseteq Key
  <2>1. machine' \in Machines
    BY DEF ChangeMachines
  <2>2. Keys' = Snapshot(rows)
    BY DEF ChangeMachines, Keys, Snapshot
  <2> QED
    BY <2>1, <2>2, SnapshotType
<1>2. RowsOK' /\ Counters'
  <2>1. /\ application' = application /\ born' = born /\ purges' = purges /\ failures' = failures
        /\ changes < MaxChanges /\ changes' = changes + 1
    BY DEF ChangeMachines
  <2>2. RowsOK'
    BY <2>1 DEF Brackets, RowsOK, Key
  <2>3. Counters'
    BY <2>1, ProjectionAssumption DEF Brackets, Counters
  <2> QED
    BY <2>2, <2>3
<1>3. task' = [x \in Worker |->
         IF task[x].pc # "idle"
         THEN [task[x] EXCEPT !.always = task[x].always \cap Keys',
                              !.sometime = task[x].sometime \cup Keys', !.disturbed = TRUE]
         ELSE task[x]]
  BY DEF ChangeMachines, Running
<1>4. ASSUME NEW x \in Worker PROVE TaskOK(task[x])' /\ Fresh(task[x])'
  <2>1. TaskOK(task[x])
    BY DEF Brackets
  <2> DEFINE K == Keys'
  <2>2. K \subseteq Key
    BY <1>1
  <2>3. task'[x] = IF task[x].pc # "idle"
         THEN [task[x] EXCEPT !.always = task[x].always \cap K,
                              !.sometime = task[x].sometime \cup K, !.disturbed = TRUE]
         ELSE task[x]
    BY <1>3
  <2> HIDE DEF K
  <2>4. CASE task[x].pc = "idle"
    <3>1. task'[x] = task[x]
      BY <2>3, <2>4
    <3> QED
      BY <2>1, <2>4, <3>1 DEF TaskOK, TaskState, Key, Fresh
  <2>5. CASE task[x].pc # "idle"
    <3> DEFINE t == [task[x] EXCEPT !.always = task[x].always \cap K,
                                    !.sometime = task[x].sometime \cup K, !.disturbed = TRUE]
    <3>1. task[x] \in TaskState
      BY <2>1 DEF TaskOK
    <3>2. /\ t.pc = task[x].pc /\ t.snapshot = task[x].snapshot /\ t.existing = task[x].existing
          /\ t.always = task[x].always \cap K /\ t.sometime = task[x].sometime \cup K
          /\ t.disturbed = TRUE
      BY <3>1 DEF TaskState
    <3>3. task[x].always \cap K \in SUBSET Key /\ task[x].sometime \cup K \in SUBSET Key
      BY <3>1, <2>2 DEF TaskState
    <3>4. t \in TaskState
      BY <3>1, <3>3 DEF TaskState
    <3>5. TaskOK(t)
      BY <2>1, <3>2, <3>4 DEF TaskOK
    <3>6. task'[x] = t
      BY <2>3, <2>5
    <3> HIDE DEF t
    <3>7. TaskOK(task'[x]) /\ task'[x].disturbed
      BY <3>2, <3>5, <3>6
    <3> QED
      BY <3>7 DEF TaskOK, TaskState, Key, Fresh
  <2> QED
    BY <2>4, <2>5
<1> QED
  BY <1>1, <1>2, <1>3, <1>4 DEF Brackets, Machines

LEMMA NextBrackets == Brackets /\ [Next]_vars => Brackets'
<1> SUFFICES ASSUME Brackets, [Next]_vars PROVE Brackets'
  OBVIOUS
<1>1. ASSUME NEW w \in Worker,
             ReadMachines(w) \/ ReadApplications(w) \/ Commit(w) \/ Reject(w) \/ Fail(w)
      PROVE  Brackets'
  BY <1>1, ReadMachinesStep, ReadApplicationsStep, CommitStep, AbandonStep
<1>2. CASE CommitInventory
  <2>1. PICK rows \in Machines : ChangeMachines(rows)
    BY <1>2 DEF CommitInventory
  <2> QED
    BY <2>1, ChangeStep
<1>3. CASE DeleteMachines
  <2>1. PICK gone \in SUBSET Machine :
          ChangeMachines([m \in Machine |-> IF m \in gone THEN None ELSE machine[m]])
    BY <1>3 DEF DeleteMachines
  <2>2. [m \in Machine |-> IF m \in gone THEN None ELSE machine[m]] \in Machines
    BY DEF Brackets, Machines
  <2> QED
    BY <2>1, <2>2, ChangeStep
<1>4. CASE PurgeStaleApplications
  BY <1>4, PurgeStep
<1>5. CASE UNCHANGED vars
  BY <1>5 DEF vars, Brackets, RowsOK, Counters, TaskOK, TaskState, Key, Fresh, Keys, Machines
<1> QED
  BY <1>1, <1>2, <1>3, <1>4, <1>5 DEF Next

LEMMA BracketsHold == Spec => []Brackets
<1> QED
  BY InitBrackets, NextBrackets, PTL DEF Spec

(* Type correctness: keys, rows and counters stay in their sets, and a row's id is *)
(* one that was given out for its key (applications of models.py).                 *)
THEOREM TypeCorrect == Spec => []TypeOK
<1> QED
  BY BracketsHold, BracketsType, PTL

(* The only step that ends a rebuild with the counters as they were and no *)
(* conflict is its commit.                                                 *)
LEMMA OnlyCommit ==
  ASSUME Brackets, [Next]_vars, NEW w \in Worker, Committed(w) PROVE Commit(w)
<1>1. task[w].pc = "loaded" /\ task'[w].pc = "idle" /\ failures' = failures /\ ~Conflicts(w)
  BY DEF Committed
<1>2. failures \in Nat
  BY DEF Brackets, Counters
<1>3. ASSUME NEW rows, ChangeMachines(rows) PROVE FALSE
  BY <1>1, <1>3 DEF ChangeMachines, Running, Brackets, TaskOK, TaskState
<1>4. ASSUME PurgeStaleApplications PROVE FALSE
  BY <1>1, <1>4 DEF PurgeStaleApplications, Running, Brackets, TaskOK, TaskState
<1>5. ASSUME UNCHANGED vars PROVE FALSE
  BY <1>1, <1>5 DEF vars
<1>6. ASSUME NEW x \in Worker, ReadMachines(x) \/ ReadApplications(x) PROVE FALSE
  BY <1>1, <1>6 DEF ReadMachines, ReadApplications, Running, Brackets, TaskOK, TaskState
<1>7. ASSUME NEW x \in Worker, Reject(x) PROVE FALSE
  BY <1>1, <1>7 DEF Reject, Brackets
<1>8. ASSUME NEW x \in Worker, Fail(x) PROVE FALSE
  BY <1>1, <1>2, <1>8 DEF Fail
<1>9. ASSUME NEW x \in Worker, Commit(x), x # w PROVE FALSE
  BY <1>1, <1>9 DEF Commit, Disturb, Brackets, TaskOK, TaskState
<1> QED
  BY <1>3, <1>4, <1>5, <1>6, <1>7, <1>8, <1>9 DEF Next, CommitInventory, DeleteMachines

LEMMA CommitIsBracketed ==
  ASSUME Brackets, NEW w \in Worker, Commit(w)
  PROVE  /\ \A k \in Key :
              /\ application[k] = None /\ application'[k] # None => k \in task[w].sometime
              /\ application[k] # None /\ application'[k] # application[k] => k \notin task[w].always
         /\ ~task[w].disturbed => Present' = Keys
<1>1. /\ application \in [Key -> Nat \cup {None}] /\ born \in [Key -> Nat] /\ None \notin Nat
      /\ TaskOK(task[w]) /\ Fresh(task[w]) /\ task[w].pc = "loaded"
  BY ProjectionAssumption DEF Brackets, RowsOK, Commit
<1>2. ASSUME NEW k \in Key
      PROVE  application'[k] = IF k \in Created(w) THEN born[k] + 1
                               ELSE IF k \in Deleted(w) /\ application[k] = task[w].existing[k]
                                    THEN None ELSE application[k]
  BY DEF Commit
<1>3. ASSUME NEW k \in Key, application[k] # None PROVE k \notin Created(w)
  BY <1>3 DEF Commit, Conflicts, Present
<1>4. ASSUME NEW k \in Key, application[k] = None, application'[k] # None
      PROVE  k \in task[w].sometime
  BY <1>1, <1>2, <1>4 DEF Created, TaskOK
<1>5. ASSUME NEW k \in Key, application[k] # None, application'[k] # application[k]
      PROVE  k \notin task[w].always
  BY <1>1, <1>2, <1>3, <1>5 DEF Deleted, TaskOK
<1>6. ASSUME ~task[w].disturbed PROVE Present' = Keys
  <2>1. task[w].snapshot = Keys /\ task[w].existing = application
    BY <1>1, <1>6 DEF Fresh
  <2>2. Keys \subseteq Key
    BY KeysType DEF Brackets
  <2>3. ASSUME NEW k \in Key PROVE application'[k] # None <=> k \in Keys
    <3>1. CASE k \in Created(w)
      <4>1. application'[k] # None
        BY <1>1, <1>2, <3>1
      <4> QED
        BY <4>1, <3>1, <2>1 DEF Created
    <3>2. CASE k \notin Created(w)
      BY <1>2, <2>1, <3>2 DEF Created, Deleted
    <3> QED
      BY <3>1, <3>2
  <2> QED
    BY <2>2, <2>3 DEF Present, Key
<1> QED
  BY <1>4, <1>5, <1>6

(* Rebuilds that overlap with each other, with inventory runs and with purges add  *)
(* no application that never was, keep the row of one that always was, and are     *)
(* exact when undisturbed (rebuild_applications_from_machines).                    *)
THEOREM BracketedRebuild == Spec => RebuildIsBracketed
<1>1. Brackets /\ [Next]_vars =>
        (\A w \in Worker : Committed(w) =>
           /\ \A k \in Key :
                /\ application[k] = None /\ application'[k] # None => k \in task[w].sometime
                /\ application[k] # None /\ application'[k] # application[k] => k \notin task[w].always
           /\ ~task[w].disturbed => Present' = Keys)
  BY OnlyCommit, CommitIsBracketed
<1> QED
  BY <1>1, BracketsHold, PTL DEF Spec, RebuildIsBracketed
=============================================================================

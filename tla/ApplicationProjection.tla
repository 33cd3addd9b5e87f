------------------------ MODULE ApplicationProjection ------------------------
(***************************************************************************)
(* The rows of `applications' as a projection of the machines: rebuilds    *)
(* that overlap, while inventory runs change machines and purges delete    *)
(* machines and applications.                                              *)
(* Source: rebuild_applications_from_machines of internal/usecases/        *)
(* applications.py, internal/usecases/maintenance.py.                      *)
(*                                                                         *)
(* A rebuild reads the machines and then the applications, in two queries  *)
(* at READ COMMITTED, and commits the difference.  What the dispatcher and *)
(* the workers do with a row is ApplicationSync.                           *)
(***************************************************************************)
EXTENDS Integers

CONSTANTS
  Machine,
  Code,           \* application codes
  Dimension,      \* environments and regions, as the API normalizes them
  Reported,       \* columns that discoveries report
  Worker,         \* workers that run rebuilds
  MaxChanges,     \* bound: commits that change machines
  MaxPurges,      \* bound: purges of applications
  MaxFailures,    \* bound: rebuilds that are lost
  Unknown,        \* the text "UNKNOWN"
  None

Columns ==
  [code : Code \cup {None}, environment : Dimension \cup {None}, region : Dimension \cup {None}]

ASSUME ProjectionAssumption ==
  /\ Reported \subseteq Columns /\ None \notin Reported
  /\ Unknown \in Dimension /\ None \notin Dimension \cup Code \cup Nat
  /\ MaxChanges \in Nat /\ MaxPurges \in Nat /\ MaxFailures \in Nat

VARIABLES
  machine,        \* application, environment and region of each machine, None: no row
  application,    \* for each key the row that carries it, None: no row
  born,           \* rows ever inserted for a key: the last one is the newest id
  task,           \* the rebuild of each worker
  changes, purges, failures

vars == <<machine, application, born, task, changes, purges, failures>>

Machines == [Machine -> Reported \cup {None}]

(* uq_applications_name_environment_region: a key has one row at most. *)
Key == Code \X Dimension \X Dimension

(* Mutant: a missing dimension stays missing. *)
KeepMissing(d) == d

(* coalesce_dimension; func.coalesce in the queries of the readers *)
Coalesce(d) == IF d = None THEN Unknown ELSE d

KeyOf(c) == <<c.code, Coalesce(c.environment), Coalesce(c.region)>>

(* The distinct keys of the machines that carry an application code. *)
Snapshot(rows) ==
  {KeyOf(rows[m]) : m \in {n \in Machine : rows[n] # None /\ rows[n].code # None}}

Keys == {KeyOf(machine[m]) : m \in {n \in Machine : machine[n] # None /\ machine[n].code # None}}
Present == {k \in Key : application[k] # None}

(* `always', `sometime' and `disturbed' are history: the keys that some machine had *)
(* all the time, or at some time, since the rebuild began, and whether anything else *)
(* was committed meanwhile.                                                          *)
Idle ==
  [pc |-> "idle", snapshot |-> {}, existing |-> [k \in Key |-> None],
   always |-> {}, sometime |-> {}, disturbed |-> FALSE]

Init ==
  /\ machine \in Machines
  /\ application = [k \in Key |-> None]
  /\ born = [k \in Key |-> 0]
  /\ task = [w \in Worker |-> Idle]
  /\ changes = 0 /\ purges = 0 /\ failures = 0

Running(w) == task[w].pc # "idle"

-----------------------------------------------------------------------------
(* rebuild_applications_from_machines *)

(* Beat's schedule or POST /applications/sync; the first query reads the machines. *)
ReadMachines(w) ==
  /\ ~Running(w)
  /\ task' = [task EXCEPT ![w] =
       [Idle EXCEPT !.pc = "grouped", !.snapshot = Snapshot(machine),
                    !.always = Keys, !.sometime = Keys]]
  /\ UNCHANGED <<machine, application, born, changes, purges, failures>>

ReadApplications(w) ==
  /\ task[w].pc = "grouped"
  /\ task' = [task EXCEPT ![w].pc = "loaded", ![w].existing = application]
  /\ UNCHANGED <<machine, application, born, changes, purges, failures>>

Created(w) == {k \in task[w].snapshot : task[w].existing[k] = None}

(* Mutant: an empty inventory is not believed. *)
DeletedUnlessEmpty(w) ==
  {k \in Key : task[w].existing[k] # None /\ k \notin task[w].snapshot /\ task[w].snapshot # {}}

Deleted(w) == {k \in Key : task[w].existing[k] # None /\ k \notin task[w].snapshot}

(* Another rebuild has inserted a row with one of the keys. *)
Conflicts(w) == Created(w) \cap Present # {}

(* Rebuilds that run while something is committed *)
Disturb(tasks, w) ==
  [x \in Worker |-> IF x # w /\ tasks[x].pc # "idle" THEN [tasks[x] EXCEPT !.disturbed = TRUE] ELSE tasks[x]]

(* Mutant: the table is emptied and filled again. *)
CommitByRefill(w) ==
  /\ task[w].pc = "loaded" /\ ~Conflicts(w)
  /\ application' = [k \in Key |-> IF k \in task[w].snapshot THEN born[k] + 1 ELSE None]
  /\ born' = [k \in Key |-> IF k \in task[w].snapshot THEN born[k] + 1 ELSE born[k]]
  /\ task' = Disturb([task EXCEPT ![w] = Idle], w)
  /\ UNCHANGED <<machine, changes, purges, failures>>

(* Rows are deleted by their id; one that is gone already is passed over. *)
Commit(w) ==
  /\ task[w].pc = "loaded" /\ ~Conflicts(w)
  /\ application' = [k \in Key |->
       IF k \in Created(w) THEN born[k] + 1
       ELSE IF k \in Deleted(w) /\ application[k] = task[w].existing[k] THEN None
       ELSE application[k]]
  /\ born' = [k \in Key |-> IF k \in Created(w) THEN born[k] + 1 ELSE born[k]]
  /\ task' = Disturb([task EXCEPT ![w] = Idle], w)
  /\ UNCHANGED <<machine, changes, purges, failures>>

(* The unique constraint fails the whole rebuild; nothing of it remains. *)
Reject(w) ==
  /\ task[w].pc = "loaded" /\ Conflicts(w)
  /\ task' = [task EXCEPT ![w] = Idle]
  /\ UNCHANGED <<machine, application, born, changes, purges, failures>>

(* The worker dies, or the database ends the session. *)
Fail(w) ==
  /\ Running(w) /\ failures < MaxFailures
  /\ failures' = failures + 1
  /\ task' = [task EXCEPT ![w] = Idle]
  /\ UNCHANGED <<machine, application, born, changes, purges>>

-----------------------------------------------------------------------------
(* What else writes the two tables *)

(* A commit that leaves the machines `rows' *)
ChangeMachines(rows) ==
  /\ rows # machine /\ changes < MaxChanges
  /\ changes' = changes + 1
  /\ machine' = rows
  /\ task' = [w \in Worker |->
       IF Running(w)
       THEN [task[w] EXCEPT !.always = @ \cap Keys', !.sometime = @ \cup Keys', !.disturbed = TRUE]
       ELSE task[w]]
  /\ UNCHANGED <<application, born, purges, failures>>

(* run_provisioner_inventory creates machines and moves them between applications. *)
CommitInventory ==
  \E rows \in Machines :
    /\ \A m \in Machine : rows[m] = None => machine[m] = None
    /\ ChangeMachines(rows)

(* purge_stale_machines, delete_machine, delete_platform *)
DeleteMachines ==
  \E gone \in SUBSET Machine :
    ChangeMachines([m \in Machine |-> IF m \in gone THEN None ELSE machine[m]])

(* purge_stale_applications: whichever rows no sync has written for long *)
PurgeStaleApplications ==
  /\ purges < MaxPurges
  /\ \E stale \in SUBSET Present \ {{}} :
       application' = [k \in Key |-> IF k \in stale THEN None ELSE application[k]]
  /\ purges' = purges + 1
  /\ task' = [w \in Worker |-> IF Running(w) THEN [task[w] EXCEPT !.disturbed = TRUE] ELSE task[w]]
  /\ UNCHANGED <<machine, born, changes, failures>>

Next ==
  \/ \E w \in Worker :
       ReadMachines(w) \/ ReadApplications(w) \/ Commit(w) \/ Reject(w) \/ Fail(w)
  \/ CommitInventory
  \/ DeleteMachines
  \/ PurgeStaleApplications

Spec == Init /\ [][Next]_vars

(* Beat publishes a rebuild every APPLICATION_INVENTORY_SYNC_TICK_SECONDS, and a *)
(* worker that runs goes on running.                                             *)
Rebuild(w) == ReadMachines(w) \/ ReadApplications(w) \/ Commit(w) \/ Reject(w)
FairSpec == Spec /\ \A w \in Worker : WF_vars(Rebuild(w))

-----------------------------------------------------------------------------
(* Properties *)

TypeOK ==
  /\ machine \in Machines
  /\ application \in [Key -> Nat \cup {None}] /\ born \in [Key -> Nat]
  /\ \A k \in Key : application[k] # None => application[k] \in 1..born[k]
  /\ \A w \in Worker :
       /\ task[w].pc \in {"idle", "grouped", "loaded"}
       /\ task[w].snapshot \subseteq Key
       /\ task[w].existing \in [Key -> Nat \cup {None}]
       /\ task[w].always \subseteq task[w].sometime /\ task[w].sometime \subseteq Key
       /\ task[w].disturbed \in BOOLEAN
  /\ changes \in 0..MaxChanges /\ purges \in 0..MaxPurges /\ failures \in 0..MaxFailures

Committed(w) == task[w].pc = "loaded" /\ ~Conflicts(w) /\ failures' = failures /\ task'[w].pc = "idle"

(* Whatever is committed while a rebuild runs: it adds no application that no     *)
(* machine had at any time since it began, and it neither deletes nor replaces    *)
(* the row (with its id and its sync state) of one that some machine had all the  *)
(* time.  One that nothing disturbs leaves exactly the applications of the        *)
(* machines.                                                                      *)
RebuildIsBracketed ==
  [][\A w \in Worker : Committed(w) =>
       /\ \A k \in Key :
            /\ application[k] = None /\ application'[k] # None => k \in task[w].sometime
            /\ application[k] # None /\ application'[k] # application[k] => k \notin task[w].always
       /\ ~task[w].disturbed => Present' = Keys]_vars

(* However rebuilds overlap, conflict and fail, and whatever a rebuild has made out *)
(* of old readings: once machines stop changing, the projection comes to be exact.  *)
Converges == <>[](Present = Keys)
=============================================================================

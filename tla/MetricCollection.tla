--------------------------- MODULE MetricCollection ---------------------------
(***************************************************************************)
(* The transactions that refresh the stored optimization of one machine,   *)
(* overlapping: metric collections of its providers, inventory runs that   *)
(* find a new flavor, and recalculations.                                  *)
(* Source: internal/usecases/metrics.py, refresh_machine_optimization of   *)
(* internal/usecases/optimizations.py, run_provisioner_inventory.          *)
(*                                                                         *)
(* PostgreSQL runs them at READ COMMITTED.  A run loads the machine first  *)
(* and keeps that object; its flush locks the provider's row until the     *)
(* commit; the snapshot reads what others have committed.  Only the last   *)
(* step, which compares and overwrites the optimization, holds its row     *)
(* lock, and so is one step with the commit.                               *)
(*                                                                         *)
(* Each scope has one provider, which sees the machine while it is enabled.*)
(* `sample' holds today's rows.  Inventory creates the optimization in the *)
(* transaction that creates the machine, so the row always exists.         *)
(***************************************************************************)
EXTENDS OptimizationRules

CONSTANTS
  Worker,
  Collected,   \* scopes whose collections are dispatched
  Switched,    \* scopes whose provider the API enables and disables
  Value,       \* utilizations that connectors report
  Flavor       \* capacities that discoveries report (of every scope alike)

ASSUME CollectionAssumption ==
  /\ Collected \subseteq Scope /\ Switched \subseteq Scope
  /\ Value \subseteq Nat /\ Flavor \subseteq Nat
  /\ Flavor # {} /\ Value # {}

VARIABLES
  flavor,         \* machines.cpu, ram_mb and disk_mb
  enabled,        \* machine_providers.enabled
  sample,         \* today's metric rows
  optimization,   \* the row of machine_optimizations: the evidence it was built from
  worker,         \* the transaction of each worker
  stale           \* history: the optimization may not reflect the other rows

vars == <<flavor, enabled, sample, optimization, worker, stale>>

(* Mutant: one sample more than the window is loaded. *)
SnapshotOverWindow(c, e, m) ==
  [s \in Scope |->
    LET seen == e[s] /\ m[s] # None
    IN  [scope |-> s, providers |-> IF e[s] THEN 1 ELSE 0, capacity |-> c,
         total |-> IF seen THEN m[s] ELSE 0, count |-> IF seen THEN Window + 1 ELSE 0]]

(* What _build_optimization_snapshot reads. *)
Snapshot(c, e, m) ==
  [s \in Scope |->
    LET seen == e[s] /\ m[s] # None
    IN  [scope     |-> s,
         providers |-> IF e[s] THEN 1 ELSE 0,
         capacity  |-> c,
         total     |-> IF seen THEN m[s] ELSE 0,
         count     |-> IF seen THEN 1 ELSE 0]]

Idle ==
  [pc |-> "idle", task |-> None, flavor |-> None, value |-> None, found |-> None,
   snapshot |-> None, overlapped |-> FALSE]

Init ==
  /\ flavor \in Flavor
  /\ enabled = [s \in Scope |-> TRUE]
  /\ sample \in [Scope -> Value \cup {None}]
  /\ optimization = Snapshot(flavor, enabled, sample)
  /\ worker = [w \in Worker |-> Idle]
  /\ stale = FALSE

-----------------------------------------------------------------------------
Busy(w) == worker[w].pc # "idle"

(* Another worker has flushed rows that a flush for `task' would write. *)
Blocked(w, task) ==
  /\ task # "recalculate"
  /\ \E x \in Worker \ {w} : worker[x].pc = "flushed" /\ worker[x].task = task

(* The other transactions that are open miss what this one commits. *)
Overlap(ws, w) ==
  [x \in Worker |-> IF x # w /\ ws[x].pc # "idle" THEN [ws[x] EXCEPT !.overlapped = TRUE] ELSE ws[x]]

(* run_provider_machine_collection loads the provider and the machine, then    *)
(* asks the connector.  The fan-out queued the task while the provider was     *)
(* enabled; it may run much later, several may wait for one pair, and the run  *)
(* does not look at `enabled' again: it may start at any time.                 *)
StartCollection(w, s) ==
  /\ ~Busy(w)
  /\ worker' = [worker EXCEPT ![w] = [Idle EXCEPT !.pc = "loaded", !.task = s, !.flavor = flavor]]
  /\ UNCHANGED <<flavor, enabled, sample, optimization, stale>>

StartRecalculation(w) ==
  /\ ~Busy(w)
  /\ worker' = [worker EXCEPT ![w] =
                 [Idle EXCEPT !.pc = "written", !.task = "recalculate", !.flavor = flavor]]
  /\ UNCHANGED <<flavor, enabled, sample, optimization, stale>>

(* An inventory run that finds another flavor.  It loads the machine and sets  *)
(* the new flavor in one go.                                                   *)
StartDiscovery(w) ==
  /\ ~Busy(w)
  /\ \E c \in Flavor \ {flavor} :
       worker' = [worker EXCEPT ![w] = [Idle EXCEPT !.pc = "written", !.task = "discover", !.flavor = c]]
  /\ UNCHANGED <<flavor, enabled, sample, optimization, stale>>

(* _upsert_daily_metric looks for today's row and adds or changes it, in memory. *)
Upsert(w) ==
  /\ worker[w].pc = "loaded"
  /\ \E v \in Value :
       worker' = [worker EXCEPT ![w].pc = "written", ![w].value = v,
                                ![w].found = sample[worker[w].task]]
  /\ UNCHANGED <<flavor, enabled, sample, optimization, stale>>

(* An INSERT of a row that has been committed meanwhile. *)
Conflicts(k) == k.task \in Scope /\ k.found = None /\ sample[k.task] # None

(* The samples as the run sees them: its own object, and else what is committed. *)
View(k, m) == IF k.task \in Scope THEN [m EXCEPT ![k.task] = k.value] ELSE m

(* The samples after the commit of the run: the ORM writes a value that changed. *)
Stored(k, m) == IF k.task \in Scope /\ k.value # k.found THEN [m EXCEPT ![k.task] = k.value] ELSE m

(* db.flush and the snapshot. *)
Flush(w) ==
  LET k == worker[w]
  IN  /\ k.pc = "written" /\ ~Blocked(w, k.task) /\ ~Conflicts(k)
      /\ worker' = [worker EXCEPT ![w].pc = "flushed",
                                  ![w].snapshot = Snapshot(k.flavor, enabled, View(k, sample))]
      /\ UNCHANGED <<flavor, enabled, sample, optimization, stale>>

(* The unique constraint fails the flush, and the run is rolled back. *)
Conflict(w) ==
  /\ worker[w].pc = "written" /\ ~Blocked(w, worker[w].task) /\ Conflicts(worker[w])
  /\ worker' = [worker EXCEPT ![w] = Idle]
  /\ UNCHANGED <<flavor, enabled, sample, optimization, stale>>

(* Mutant: the rows are committed, the optimization is not refreshed. *)
CommitWithoutRefresh(w) ==
  /\ worker[w].pc = "flushed"
  /\ worker' = [Overlap(worker, w) EXCEPT ![w] = Idle]
  /\ sample' = Stored(worker[w], sample)
  /\ flavor' = IF worker[w].task = "discover" THEN worker[w].flavor ELSE flavor
  /\ stale' = worker[w].overlapped
  /\ UNCHANGED <<enabled, optimization>>

(* The row lock is taken, the snapshot overwrites whatever the row says, and   *)
(* all is committed.                                                           *)
Commit(w) ==
  LET k == worker[w]
  IN  /\ k.pc = "flushed"
      /\ worker' = [Overlap(worker, w) EXCEPT ![w] = Idle]
      /\ sample' = Stored(k, sample)
      /\ flavor' = IF k.task = "discover" THEN k.flavor ELSE flavor
      /\ optimization' = k.snapshot
      /\ stale' = k.overlapped
      /\ UNCHANGED enabled

(* The connector raises, or the process dies: everything is rolled back. *)
Fail(w) ==
  /\ Busy(w)
  /\ worker' = [worker EXCEPT ![w] = Idle]
  /\ UNCHANGED <<flavor, enabled, sample, optimization, stale>>

(* enable_provider and disable_provider: nothing is refreshed, nothing queued  *)
(* is withdrawn.  The update waits for a collection that holds the row.        *)
Configure(s) ==
  /\ \A x \in Worker : worker[x].pc # "flushed" \/ worker[x].task # s
  /\ enabled' = [enabled EXCEPT ![s] = ~@]
  /\ worker' = [x \in Worker |-> IF Busy(x) THEN [worker[x] EXCEPT !.overlapped = TRUE] ELSE worker[x]]
  /\ stale' = TRUE
  /\ UNCHANGED <<flavor, sample, optimization>>

Run(w) ==
  \/ Upsert(w)
  \/ Flush(w)
  \/ Conflict(w)
  \/ Commit(w)

Next ==
  \/ \E s \in Switched : Configure(s)
  \/ \E w \in Worker : \/ \E s \in Collected : StartCollection(w, s)
                       \/ StartRecalculation(w)
                       \/ StartDiscovery(w)
                       \/ Run(w)
                       \/ Fail(w)

Spec == Init /\ [][Next]_vars

-----------------------------------------------------------------------------
Tasks == Scope \cup {"recalculate", "discover"}

Rows == [Scope -> Evidence]

(* Types.  Only one worker at a time has written the rows of one provider. *)
TypeOK ==
  /\ flavor \in Flavor
  /\ enabled \in [Scope -> BOOLEAN]
  /\ sample \in [Scope -> Value \cup {None}]
  /\ optimization \in Rows
  /\ worker \in [Worker -> [pc : {"idle", "loaded", "written", "flushed"},
                            task : Tasks \cup {None}, flavor : Flavor \cup {None},
                            value : Value \cup {None}, found : Value \cup {None},
                            snapshot : Rows \cup {None}, overlapped : BOOLEAN]]
  /\ stale \in BOOLEAN

(* The stored optimization is built from the rows as they are now, whatever    *)
(* collections, discoveries and recalculations came before, provided that the  *)
(* run that wrote it last did not overlap another commit and no provider was   *)
(* enabled or disabled since.                                                  *)
CurrentUnlessOverlapped ==
  ~stale => optimization = Snapshot(flavor, enabled, sample)

(* status and action of the stored row *)
Published == Aggregate({Evaluate(optimization[s]) : s \in Scope})

(* A machine reported as ready has one enabled provider and a sample for every *)
(* scope, unless the row's last writer was overlapped or a provider was        *)
(* enabled or disabled since.                                                  *)
ReadyIsMeasured ==
  ~stale /\ Published[1] = "ready" => \A s \in Scope : enabled[s] /\ sample[s] # None

(* docs/optimizations.md: "Optimizations refresh automatically when [...] a    *)
(* metric collection task stores a machine metric sample".  When no run is open *)
(* and all providers are enabled, the row reflects the samples stored.         *)
SamplesAreReflected ==
  (\A w \in Worker : ~Busy(w)) /\ (\A s \in Scope : enabled[s] /\ optimization[s].providers = 1)
    => \A s \in Scope : sample[s] # None => optimization[s].total = sample[s]
=============================================================================

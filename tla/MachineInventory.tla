--------------------------- MODULE MachineInventory ---------------------------
(***************************************************************************)
(* Inventory runs of the provisioners of one platform, overlapping, next   *)
(* to retention and to deletions through the API.                          *)
(* Source: internal/usecases/inventory.py, purge_stale_machines,           *)
(* delete_machine, the constraints of models.py.                           *)
(*                                                                         *)
(* Machines of two platforms share no constraint, so one platform will do. *)
(* A run is one session at READ COMMITTED with autoflush off.  `obj' is    *)
(* its identity map: an object is loaded once and then changed in memory,  *)
(* and `base' is what the object held when it was loaded or last flushed.  *)
(* A flush writes the columns that differ; `written' are the rows it has   *)
(* locked.  Queries see what is committed and what this run has written.   *)
(* An object that a flush leaves clean may be dropped and loaded again; a  *)
(* difference could be seen only where another run has written the row.    *)
(* The columns other than the identity and the capacities are assigned     *)
(* like them and left out.  A gap in the ids is not observable: an INSERT  *)
(* that fails takes none here.                                             *)
(***************************************************************************)
EXTENDS Integers, Sequences

CONSTANTS
  Worker,
  Provisioner,
  ExternalId,
  Hostname,
  Resource,    \* cpu, ram_mb, disk_mb
  Size,        \* their values
  Report,      \* what a discovery may return: sequences of records
  MaxId,       \* bound: machines ever created
  MaxRuns,     \* bound: runs ever started
  None

Id == 1..MaxId
Flavor == [Resource -> Size]
Record == [ext : ExternalId \cup {None}, host : Hostname, flavor : Flavor]
Row == [prov : Provisioner \cup {None}, ext : ExternalId \cup {None}, host : Hostname, flavor : Flavor]
Snapshot == [machine : Id, at : 1..MaxRuns, no : Nat, flavor : Flavor]

ASSUME InventoryAssumption ==
  /\ MaxId \in Nat /\ MaxRuns \in Nat
  /\ Report \subseteq Seq(Record)
  /\ None \notin ExternalId \cup Provisioner \cup [Resource -> Size]
  /\ None \notin Row

VARIABLES
  provisioner,   \* machine_provisioners, None once deleted
  machine,       \* machines, None where there is no row
  stale,         \* machines whose updated_at is past the retention
  history,       \* machine_flavor_history
  optimized,     \* the capacities that the machine's optimization was built for
  run,           \* the session of each worker
  nextId, clock,
  raced          \* history: machines that two overlapping runs have written (about)

vars == <<provisioner, machine, stale, history, optimized, run, nextId, clock, raced>>

Empty == [i \in {} |-> None]
Put(f, i, v) == [k \in DOMAIN f \cup {i} |-> IF k = i THEN v ELSE f[k]]

Idle ==
  [pc |-> "idle", prov |-> None, report |-> << >>, next |-> 1, at |-> 0, error |-> "none",
   base |-> Empty, obj |-> Empty, written |-> Empty, snaps |-> {}, refresh |-> {}, others |-> {}]

Init ==
  /\ provisioner = [p \in Provisioner |-> [lastRun |-> 0, lastSuccess |-> 0, error |-> "none"]]
  /\ machine = [i \in Id |-> None]
  /\ stale = {}
  /\ history = {}
  /\ optimized = [i \in Id |-> None]
  /\ run = [w \in Worker |-> Idle]
  /\ nextId = 1 /\ clock = 0
  /\ raced = {}

Live == {i \in Id : machine[i] # None}
Open(w) == run[w].pc # "idle"

-----------------------------------------------------------------------------
(* Looking a record up, and the rows of a run                              *)

View(w) == [i \in Id |-> IF i \in DOMAIN run[w].written THEN run[w].written[i] ELSE machine[i]]

ByExternalId(rows, p, e) ==
  {i \in Id : rows[i] # None /\ e # None /\ rows[i].prov = p /\ rows[i].ext = e}
ByHostname(rows, h) == {i \in Id : rows[i] # None /\ rows[i].host = h}

(* Mutant: by hostname only. *)
FindByHostname(rows, p, rec) == ByHostname(rows, rec.host)

(* _find_machine: at most one row, by the unique constraints *)
Find(rows, p, rec) ==
  IF ByExternalId(rows, p, rec.ext) # {} THEN ByExternalId(rows, p, rec.ext)
  ELSE ByHostname(rows, rec.host)

Current(w) == run[w].report[run[w].next]
Found(w) == Find(View(w), run[w].prov, Current(w))

(* Mutant: a hostname of blanks is not kept as it is. *)
AssignedBlank(w, rec) == [prov |-> run[w].prov, ext |-> rec.ext, host |-> None, flavor |-> rec.flavor]

(* The row that a record stands for; its identifiers are normalized already. *)
Assigned(w, rec) == [prov |-> run[w].prov, ext |-> rec.ext, host |-> rec.host, flavor |-> rec.flavor]

(* _flavor_changed *)
FlavorChanged(f, g) == f # g

(* Mutant: the capacities of the machine are recorded, before they are assigned. *)
SnapBefore(w, i) ==
  [machine |-> i, at |-> run[w].at, no |-> run[w].next,
   flavor |-> IF i \in Id /\ View(w)[i] # None THEN View(w)[i].flavor ELSE Current(w).flavor]

(* _record_flavor_snapshot: the history row that the current record adds *)
Snap(w, i) ==
  [machine |-> i, at |-> run[w].at, no |-> run[w].next, flavor |-> Current(w).flavor]

-----------------------------------------------------------------------------
(* Flushing the changed columns                                            *)

Dirty(w) == {i \in DOMAIN run[w].obj : run[w].obj[i] # run[w].base[i]}

(* Mutant: a new hostname is not written. *)
WriteButHostname(from, to, row) ==
  [prov   |-> IF from.prov = to.prov THEN row.prov ELSE to.prov,
   ext    |-> IF from.ext = to.ext THEN row.ext ELSE to.ext,
   host   |-> row.host,
   flavor |-> [c \in Resource |-> IF from.flavor[c] = to.flavor[c] THEN row.flavor[c] ELSE to.flavor[c]]]

Write(from, to, row) ==
  [prov   |-> IF from.prov = to.prov THEN row.prov ELSE to.prov,
   ext    |-> IF from.ext = to.ext THEN row.ext ELSE to.ext,
   host   |-> IF from.host = to.host THEN row.host ELSE to.host,
   flavor |-> [c \in Resource |-> IF from.flavor[c] = to.flavor[c] THEN row.flavor[c] ELSE to.flavor[c]]]

Flushed(w) ==
  [i \in Dirty(w) |-> Write(run[w].base[i], run[w].obj[i], View(w)[i])]

(* Rows that the flush needs and that have been deleted: StaleDataError, or a  *)
(* foreign key that fails.                                                     *)
Missing(w) ==
  \/ provisioner[run[w].prov] = None
  \/ \E i \in Dirty(w) \cup {s.machine : s \in run[w].snaps} : View(w)[i] = None

(* uq_machines_platform_hostname, uq_machines_provisioner_external_id *)
Collide(r, s) ==
  \/ r.host = s.host
  \/ r.ext = s.ext /\ r.ext # None /\ r.prov = s.prov /\ r.prov # None

(* Each UPDATE is checked by itself, in the order of the primary keys. *)
Duplicate(w) ==
  \E i \in Dirty(w) : \E j \in Id \ {i} :
    LET row == IF j \in Dirty(w) /\ j < i THEN Flushed(w)[j] ELSE View(w)[j]
    IN  row # None /\ Collide(Flushed(w)[i], row)

(* Nothing can be said of the other columns of a row that is gone. *)
Conflict(w) == ~Missing(w) => Duplicate(w)

(* Another run has locked a row, or a key, that the flush would write. *)
BlockedBy(x, ids, rows) ==
  \E k \in DOMAIN run[x].written :
    \/ k \in ids
    \/ \E r \in rows : \/ Collide(r, run[x].written[k])
                       \/ machine[k] # None /\ Collide(r, machine[k])

Blocked(w, rows) == \E x \in Worker \ {w} : BlockedBy(x, Dirty(w), rows)

FlushedRows(w) == {Flushed(w)[i] : i \in Dirty(w)}
Locked(ids) == \E w \in Worker : DOMAIN run[w].written \cap ids # {}

(* Runs that are open miss what others commit to the machines `ids'. *)
Missed(runs, w, ids) ==
  [x \in Worker |-> IF x # w /\ runs[x].pc # "idle" THEN [runs[x] EXCEPT !.others = @ \cup ids] ELSE runs[x]]

-----------------------------------------------------------------------------
(* run_provisioner_inventory *)

(* The provisioner is loaded and the clock is read. *)
Start(w, p) ==
  /\ ~Open(w) /\ provisioner[p] # None /\ clock < MaxRuns
  /\ clock' = clock + 1
  /\ run' = [run EXCEPT ![w] = [Idle EXCEPT !.pc = "begun", !.prov = p, !.at = clock',
                                           !.error = provisioner[p].error]]
  /\ UNCHANGED <<provisioner, machine, stale, history, optimized, nextId, raced>>

(* last_run_at is committed and the row read again.  last_error is written only if  *)
(* what was loaded is not None already.  Then the run looks whether the provisioner *)
(* is enabled, once; the API may have switched it at any time before.               *)
Enter(w) ==
  LET p     == run[w].prov
      error == IF run[w].error = "none" THEN provisioner[p].error ELSE "none"
  IN /\ run[w].pc = "begun" /\ provisioner[p] # None
     /\ \/ /\ provisioner' = [provisioner EXCEPT ![p].lastRun = run[w].at, ![p].error = error]
           /\ \E report \in Report :
                run' = [run EXCEPT ![w].pc = "records", ![w].report = report, ![w].error = error]
        \/ /\ provisioner' = [provisioner EXCEPT ![p].lastRun = run[w].at, ![p].error = "failed"]
           /\ run' = [run EXCEPT ![w] = Idle]
     /\ UNCHANGED <<machine, stale, history, optimized, nextId, clock, raced>>

(* The provisioner has been deleted: the first commit matches no row. *)
StartFails(w) ==
  /\ run[w].pc = "begun" /\ provisioner[run[w].prov] = None
  /\ run' = [run EXCEPT ![w] = Idle]
  /\ UNCHANGED <<provisioner, machine, stale, history, optimized, nextId, clock, raced>>

HasRecord(w) == run[w].pc = "records" /\ run[w].next <= Len(run[w].report)

(* A known machine takes every column of the record, in memory. *)
Update(w) ==
  /\ HasRecord(w)
  /\ \E i \in Found(w) :
       LET known   == i \in DOMAIN run[w].obj
           object  == IF known THEN run[w].obj[i] ELSE View(w)[i]
           changed == FlavorChanged(object.flavor, Current(w).flavor)
       IN run' = [run EXCEPT
            ![w].next    = @ + 1,
            ![w].base    = IF known THEN @ ELSE Put(@, i, object),
            ![w].obj     = Put(@, i, Assigned(w, Current(w))),
            ![w].snaps   = IF changed THEN @ \cup {Snap(w, i)} ELSE @,
            ![w].refresh = IF changed THEN @ \cup {i} ELSE @]
  /\ UNCHANGED <<provisioner, machine, stale, history, optimized, nextId, clock, raced>>

(* Nothing matches; another run may insert the same machine before this one does. *)
Miss(w) ==
  /\ HasRecord(w) /\ Found(w) = {}
  /\ run' = [run EXCEPT ![w].pc = "insert"]
  /\ UNCHANGED <<provisioner, machine, stale, history, optimized, nextId, clock, raced>>

(* db.add and db.flush: the pending UPDATEs, then the INSERT *)
Inserted(w) == Assigned(w, Current(w))
InsertConflict(w) ==
  ~Conflict(w) =>
    \E j \in Id : LET row == IF j \in Dirty(w) THEN Flushed(w)[j] ELSE View(w)[j]
                  IN  row # None /\ Collide(Inserted(w), row)

(* Mutant: a created machine gets no snapshot. *)
InsertWithoutSnapshot(w) ==
  /\ run[w].pc = "insert" /\ nextId <= MaxId
  /\ ~InsertConflict(w) /\ ~Blocked(w, FlushedRows(w) \cup {Inserted(w)})
  /\ run' = [run EXCEPT
       ![w].pc      = "records",
       ![w].next    = @ + 1,
       ![w].base    = Put(run[w].obj, nextId, Inserted(w)),
       ![w].obj     = Put(@, nextId, Inserted(w)),
       ![w].written = [k \in DOMAIN @ \cup Dirty(w) \cup {nextId} |->
                         IF k = nextId THEN Inserted(w)
                         ELSE IF k \in Dirty(w) THEN Flushed(w)[k] ELSE @[k]],
       ![w].refresh = @ \cup {nextId}]
  /\ nextId' = nextId + 1
  /\ UNCHANGED <<provisioner, machine, stale, history, optimized, clock, raced>>

Insert(w) ==
  /\ run[w].pc = "insert" /\ nextId <= MaxId
  /\ ~InsertConflict(w) /\ ~Blocked(w, FlushedRows(w) \cup {Inserted(w)})
  /\ run' = [run EXCEPT
       ![w].pc      = "records",
       ![w].next    = @ + 1,
       ![w].base    = Put(run[w].obj, nextId, Inserted(w)),
       ![w].obj     = Put(@, nextId, Inserted(w)),
       ![w].written = [k \in DOMAIN @ \cup Dirty(w) \cup {nextId} |->
                         IF k = nextId THEN Inserted(w)
                         ELSE IF k \in Dirty(w) THEN Flushed(w)[k] ELSE @[k]],
       ![w].snaps   = @ \cup {Snap(w, nextId)},
       ![w].refresh = @ \cup {nextId}]
  /\ nextId' = nextId + 1
  /\ UNCHANGED <<provisioner, machine, stale, history, optimized, clock, raced>>

(* The rows that a commit makes visible, and the machines that it has written about: *)
(* a flavor found and found changed back leaves the row, but not the history, as it  *)
(* was.                                                                              *)
Updated(w) == Dirty(w) \cup DOMAIN run[w].written
Touched(w) == Updated(w) \cup run[w].refresh

(* The optimizations of new and resized machines are refreshed from the objects, *)
(* which flushes; then everything is committed.                                  *)
Commit(w) ==
  /\ run[w].pc = "records" /\ run[w].next > Len(run[w].report)
  /\ ~Conflict(w) /\ ~Blocked(w, FlushedRows(w))
  /\ machine' = [i \in Id |-> IF i \in Dirty(w) THEN Flushed(w)[i] ELSE View(w)[i]]
  /\ stale' = stale \ Updated(w)
  /\ raced' = raced \cup (Touched(w) \cap run[w].others)
  /\ run' = Missed([run EXCEPT ![w] = Idle], w, Touched(w))
  /\ history' = history \cup run[w].snaps
  /\ optimized' = [i \in Id |-> IF i \in run[w].refresh THEN run[w].obj[i].flavor ELSE optimized[i]]
  /\ provisioner' = [provisioner EXCEPT ![run[w].prov].lastSuccess = run[w].at,
       ![run[w].prov].error = IF run[w].error = "none" THEN @ ELSE "none"]
  /\ UNCHANGED <<nextId, clock>>

(* The except branch: rollback, then last_error in a transaction of its own *)
Failed(w) ==
  /\ run' = [run EXCEPT ![w] = Idle]
  /\ provisioner' = [p \in Provisioner |->
       IF p = run[w].prov /\ provisioner[p] # None
       THEN [provisioner[p] EXCEPT !.error = "failed"] ELSE provisioner[p]]
  /\ UNCHANGED <<machine, stale, history, optimized, nextId, clock, raced>>

Reject(w) ==
  \/ run[w].pc = "insert" /\ InsertConflict(w) /\ Failed(w)
  \/ run[w].pc = "records" /\ run[w].next > Len(run[w].report) /\ Conflict(w) /\ Failed(w)

(* The connector fails, the connection is lost, or two runs wait for each other *)
(* and PostgreSQL ends one.                                                     *)
Fail(w) == run[w].pc \in {"records", "insert"} /\ Failed(w)

(* The worker dies; PostgreSQL rolls its transaction back. *)
Crash(w) ==
  /\ Open(w)
  /\ run' = [run EXCEPT ![w] = Idle]
  /\ UNCHANGED <<provisioner, machine, stale, history, optimized, nextId, clock, raced>>

-----------------------------------------------------------------------------
(* Rows that are deleted take their history and optimization with them. *)
Remove(ids) ==
  /\ ids # {} /\ ~Locked(ids)
  /\ machine' = [i \in Id |-> IF i \in ids THEN None ELSE machine[i]]
  /\ history' = {h \in history : h.machine \notin ids}
  /\ optimized' = [i \in Id |-> IF i \in ids THEN None ELSE optimized[i]]
  /\ run' = [w \in Worker |-> IF Open(w) THEN [run[w] EXCEPT !.others = @ \cup ids] ELSE run[w]]
  /\ stale' = stale \ ids
  /\ raced' = raced \ ids
  /\ UNCHANGED <<provisioner, nextId, clock>>

(* purge_stale_machines; a locked row is looked at again once it is free. *)
PurgeStaleMachines == Remove(stale)

(* DELETE /machines/{machine_id} *)
DeleteMachine(i) == i \in Live /\ Remove({i})

(* The retention passes between two runs: no column has changed since. *)
RetentionPasses ==
  /\ \A w \in Worker : ~Open(w)
  /\ stale' = Live
  /\ UNCHANGED <<provisioner, machine, history, optimized, run, nextId, clock, raced>>

(* DELETE /machines/provisioners/{provisioner_id}: the session sets the references *)
(* of its machines to NULL, an UPDATE that renews updated_at.                     *)
DeleteProvisioner(p) ==
  LET ids == {i \in Live : machine[i].prov = p}
  IN /\ provisioner[p] # None /\ ~Locked(ids)
     /\ provisioner' = [provisioner EXCEPT ![p] = None]
     /\ machine' = [i \in Id |-> IF i \in ids THEN [machine[i] EXCEPT !.prov = None] ELSE machine[i]]
     /\ run' = [w \in Worker |-> IF Open(w) THEN [run[w] EXCEPT !.others = @ \cup ids] ELSE run[w]]
     /\ stale' = stale \ ids
     /\ UNCHANGED <<history, optimized, nextId, clock, raced>>

Next ==
  \/ \E w \in Worker, p \in Provisioner : Start(w, p)
  \/ \E w \in Worker :
       \/ Enter(w) \/ StartFails(w) \/ Update(w) \/ Miss(w) \/ Insert(w)
       \/ Commit(w) \/ Reject(w) \/ Fail(w) \/ Crash(w)
  \/ PurgeStaleMachines
  \/ \E i \in Id : DeleteMachine(i)
  \/ RetentionPasses
  \/ \E p \in Provisioner : DeleteProvisioner(p)

Spec == Init /\ [][Next]_vars

-----------------------------------------------------------------------------
(* Properties *)

(* Every row and every session has its type; what a run has locked exists for it. *)
TypeOK ==
  /\ \A p \in Provisioner : provisioner[p] = None \/ provisioner[p] \in
       [lastRun : 0..MaxRuns, lastSuccess : 0..MaxRuns, error : {"none", "failed"}]
  /\ machine \in [Id -> Row \cup {None}]
  /\ stale \subseteq Live /\ raced \subseteq Live
  /\ history \subseteq Snapshot
  /\ optimized \in [Id -> Flavor \cup {None}]
  /\ nextId \in 1..MaxId + 1 /\ clock \in 0..MaxRuns
  /\ \A w \in Worker :
       /\ run[w].pc \in {"idle", "begun", "records", "insert"}
       /\ run[w].error \in {"none", "failed"}
       /\ run[w].next \in 1..Len(run[w].report) + 1
       /\ run[w].obj \in [DOMAIN run[w].base -> Row]
       /\ DOMAIN run[w].written \subseteq DOMAIN run[w].base

(* Overlapping runs may mix the capacities of a machine out of what each of them *)
(* found, but no value gets into a machine that its history does not show.       *)
ValuesAreRecorded ==
  \A i \in Live, c \in Resource :
    \E h \in history : h.machine = i /\ h.flavor[c] = machine[i].flavor[c]

(* list_machine_flavor_history shows the newest snapshot first. *)
Newest(h) ==
  \A g \in history : g.machine = h.machine =>
    g.at < h.at \/ (g.at = h.at /\ g.no <= h.no)

(* The newest snapshot of a machine, the machine and its optimization have the *)
(* same capacities, unless two runs that overlapped have written the machine.  *)
AuditIsExact ==
  \A i \in Live \ raced :
    /\ \A h \in history : h.machine = i /\ Newest(h) => h.flavor = machine[i].flavor
    /\ optimized[i] = machine[i].flavor

(* The machine that each record of a report is about, and whether the report *)
(* leaves a doubt: two records for one machine, or a hostname that moves      *)
(* between known machines.                                                    *)
Target(p, rec) == Find(machine, p, rec)
Plain(p, report) ==
  \A k \in DOMAIN report :
    /\ ByHostname(machine, report[k].host) \subseteq Target(p, report[k])
    /\ \A l \in DOMAIN report \ {k} :
         /\ report[k].host # report[l].host
         /\ report[k].ext = None \/ report[k].ext # report[l].ext
         /\ Target(p, report[k]) \cap Target(p, report[l]) = {}

Alone(w) == run[w].others = {} /\ provisioner[run[w].prov] # None

(* A run meets a duplicate or a missing row only when another transaction has *)
(* committed meanwhile or its report moves hostnames between known machines.  *)
ConflictHasCause ==
  \A w \in Worker :
    Open(w) /\ Alone(w) /\ Plain(run[w].prov, run[w].report) =>
      /\ ~Conflict(w)
      /\ run[w].pc = "insert" => ~InsertConflict(w)

Committed(w) ==
  /\ Open(w) /\ provisioner[run[w].prov] # None /\ provisioner'[run[w].prov] # None
  /\ provisioner'[run[w].prov].lastSuccess = run[w].at

(* Such a run that nothing disturbs, once committed, has given every record one *)
(* machine, the one it named before if there was one, with all it says, and has *)
(* left the other machines alone.                                              *)
RunIsExact ==
  [][\A w \in Worker :
       Committed(w) /\ Alone(w) /\ Plain(run[w].prov, run[w].report) =>
         LET p == run[w].prov
             report == run[w].report
         IN /\ \A k \in DOMAIN report :
                 \E i \in Id :
                   /\ machine'[i] = Assigned(w, report[k])
                   /\ Target(p, report[k]) \subseteq {i}
            /\ \A i \in Live :
                 (\A k \in DOMAIN report : i \notin Target(p, report[k])) =>
                   machine'[i] = machine[i]]_vars
=============================================================================

------------------------ MODULE MachineInventoryProofs ------------------------
(***************************************************************************)
(* Theorems of MachineInventory for every number of workers, provisioners, *)
(* identifiers and resources, every report and every bound.                *)
(***************************************************************************)
EXTENDS MachineInventory, TLAPS

(* An identity map *)
Objects == UNION {[ids -> Row] : ids \in SUBSET Id}

(* The fields of a session have names of their own: a proof about the updates of *)
(* the record then need not look into them.                                       *)
Phase == {"idle", "begun", "records", "insert"}
Errors == {"none", "failed"}
Owner == Provisioner \cup {None}
Reports == Seq(Record)
Position == Nat \ {0}
Time == 0..MaxRuns
Snapshots == SUBSET Snapshot
Machines == SUBSET Id

ProvisionerRow ==
  [lastRun : 0..MaxRuns, lastSuccess : 0..MaxRuns, error : Errors]

Session ==
  [pc : Phase, prov : Owner, report : Reports, next : Position, at : Time, error : Errors,
   base : Objects, obj : Objects, written : Objects,
   snaps : Snapshots, refresh : Machines, others : Machines]

Typed ==
  /\ provisioner \in [Provisioner -> ProvisionerRow \cup {None}]
  /\ machine \in [Id -> Row \cup {None}]
  /\ history \subseteq Snapshot
  /\ optimized \in [Id -> Flavor \cup {None}]
  /\ nextId \in 1..MaxId + 1 /\ clock \in 0..MaxRuns
  /\ run \in [Worker -> Session]

(* What a session holds together *)
Coherent(w) ==
  LET r == run[w]
  IN  /\ Open(w) => /\ r.prov \in Provisioner /\ r.at \in 1..clock
                    /\ r.next <= Len(r.report) + 1
      /\ r.pc = "begun" => /\ r.next = 1 /\ r.snaps = {} /\ r.refresh = {}
                           /\ DOMAIN r.base = {} /\ DOMAIN r.obj = {} /\ DOMAIN r.written = {}
      /\ r.pc = "insert" => r.next <= Len(r.report)
      /\ ~Open(w) => r = Idle
      /\ DOMAIN r.obj = DOMAIN r.base
      /\ DOMAIN r.written \subseteq DOMAIN r.base
      /\ \A i \in Id : i \in r.refresh <=> \E s \in r.snaps : s.machine = i
      /\ r.refresh \subseteq DOMAIN r.obj
      /\ \A s \in r.snaps : s.at = r.at /\ s.no < r.next

HistoryIsOfLive == stale \subseteq Live /\ raced \subseteq Live

TInv == Typed /\ HistoryIsOfLive /\ \A w \in Worker : Coherent(w)

-----------------------------------------------------------------------------
(* Rows, objects and what a flush writes *)

LEMMA ObjectsType ==
  ASSUME NEW f
  PROVE  f \in Objects <=> DOMAIN f \subseteq Id /\ f \in [DOMAIN f -> Row]
<1>1. ASSUME f \in Objects PROVE DOMAIN f \subseteq Id /\ f \in [DOMAIN f -> Row]
  <2>1. PICK ids \in SUBSET Id : f \in [ids -> Row]
    BY <1>1 DEF Objects
  <2> QED
    BY <2>1
<1>2. ASSUME DOMAIN f \subseteq Id, f \in [DOMAIN f -> Row] PROVE f \in Objects
  BY <1>2 DEF Objects
<1> QED
  BY <1>1, <1>2

LEMMA PutType ==
  ASSUME NEW f \in Objects, NEW i \in Id, NEW v \in Row
  PROVE  /\ Put(f, i, v) \in Objects
         /\ DOMAIN Put(f, i, v) = DOMAIN f \cup {i}
         /\ Put(f, i, v)[i] = v
         /\ \A k \in DOMAIN f \ {i} : Put(f, i, v)[k] = f[k]
<1>1. DOMAIN f \subseteq Id /\ f \in [DOMAIN f -> Row]
  BY ObjectsType
<1>2. /\ DOMAIN Put(f, i, v) = DOMAIN f \cup {i}
      /\ Put(f, i, v)[i] = v
      /\ \A k \in DOMAIN f \ {i} : Put(f, i, v)[k] = f[k]
      /\ Put(f, i, v) \in [DOMAIN f \cup {i} -> Row]
  BY <1>1 DEF Put
<1>3. Put(f, i, v) \in Objects
  BY <1>1, <1>2, ObjectsType
<1> QED
  BY <1>2, <1>3

LEMMA EmptyType == Empty \in Objects /\ DOMAIN Empty = {}
<1>1. DOMAIN Empty = {} /\ Empty \in [{} -> Row]
  BY DEF Empty
<1> QED
  BY <1>1, ObjectsType

LEMMA IdleType ==
  /\ Idle \in Session /\ Idle.pc = "idle" /\ Idle.report = << >> /\ Idle.next = 1 /\ Idle.others = {}
  /\ DOMAIN Idle.base = {} /\ DOMAIN Idle.obj = {} /\ DOMAIN Idle.written = {}
  /\ Idle.snaps = {} /\ Idle.refresh = {}
  BY EmptyType, InventoryAssumption
  DEF Idle, Session, Phase, Errors, Owner, Reports, Position, Time, Snapshots, Machines

LEMMA WriteType ==
  ASSUME NEW from \in Row, NEW to \in Row, NEW row \in Row
  PROVE  /\ Write(from, to, row) \in Row
         /\ Write(from, to, from) = to
         /\ \A c \in Resource : Write(from, to, row).flavor[c] \in {to.flavor[c], row.flavor[c]}
<1>1. /\ from.flavor \in [Resource -> Size] /\ to.flavor \in [Resource -> Size]
      /\ row.flavor \in [Resource -> Size]
  BY DEF Row, Flavor
<1> DEFINE f(r) == [c \in Resource |-> IF from.flavor[c] = to.flavor[c] THEN r.flavor[c] ELSE to.flavor[c]]
<1>2. f(row) \in Flavor /\ f(from) = to.flavor
  BY <1>1 DEF Flavor
<1>3. \A c \in Resource : f(row)[c] \in {to.flavor[c], row.flavor[c]}
  OBVIOUS
<1> HIDE DEF f
<1>4. Write(from, to, row) \in Row
  BY <1>2 DEF Write, Row, f
<1>5. Write(from, to, from) = to
  BY <1>2 DEF Write, Row, f
<1>6. Write(from, to, row).flavor = f(row)
  BY DEF Write, f
<1> QED
  BY <1>3, <1>4, <1>5, <1>6

LEMMA SessionFields ==
  ASSUME Typed, NEW w \in Worker
  PROVE  /\ run[w] \in Session
         /\ run[w].base \in Objects /\ run[w].obj \in Objects /\ run[w].written \in Objects
         /\ run[w].base \in [DOMAIN run[w].base -> Row] /\ DOMAIN run[w].base \subseteq Id
         /\ run[w].obj \in [DOMAIN run[w].obj -> Row] /\ DOMAIN run[w].obj \subseteq Id
         /\ run[w].written \in [DOMAIN run[w].written -> Row] /\ DOMAIN run[w].written \subseteq Id
         /\ run[w].snaps \subseteq Snapshot /\ run[w].refresh \subseteq Id /\ run[w].others \subseteq Id
         /\ run[w].report \in Seq(Record) /\ run[w].next \in Nat \ {0} /\ run[w].at \in 0..MaxRuns
         /\ run[w].pc \in {"idle", "begun", "records", "insert"} /\ run[w].prov \in Provisioner \cup {None}
         /\ run[w].error \in Errors
<1>1. run[w] \in Session
  BY DEF Typed
<1>2. run[w].base \in Objects /\ run[w].obj \in Objects /\ run[w].written \in Objects
  BY <1>1 DEF Session
<1> QED
  BY <1>1, <1>2, ObjectsType
  DEF Session, Phase, Owner, Reports, Position, Time, Snapshots, Machines

LEMMA ViewType ==
  ASSUME Typed, NEW w \in Worker
  PROVE  /\ View(w) \in [Id -> Row \cup {None}]
         /\ \A i \in DOMAIN run[w].written : View(w)[i] = run[w].written[i] /\ View(w)[i] \in Row /\ View(w)[i] # None
         /\ \A i \in Id \ DOMAIN run[w].written : View(w)[i] = machine[i]
         /\ \A i \in Id : View(w)[i] # None => View(w)[i] \in Row
  BY SessionFields, InventoryAssumption DEF View, Typed

LEMMA FoundType ==
  ASSUME Typed, NEW w \in Worker
  PROVE  \A i \in Found(w) : i \in Id /\ View(w)[i] # None /\ View(w)[i] \in Row
  BY ViewType DEF Found, Find, ByExternalId, ByHostname

(* The record that is looked at *)
LEMMA CurrentType ==
  ASSUME Typed, NEW w \in Worker, Coherent(w), Open(w), run[w].next <= Len(run[w].report)
  PROVE  /\ run[w].next \in 1..Len(run[w].report)
         /\ Current(w) \in Record /\ Current(w).flavor \in Flavor
         /\ Assigned(w, Current(w)) \in Row /\ Assigned(w, Current(w)).flavor = Current(w).flavor
<1>1. run[w].next \in 1..Len(run[w].report)
  BY SessionFields
<1>2. Current(w) \in Record
  BY <1>1, SessionFields DEF Current
<1> QED
  BY <1>1, <1>2 DEF Assigned, Row, Record, Coherent

LEMMA FlushedType ==
  ASSUME Typed, NEW w \in Worker, Coherent(w), NEW i \in Dirty(w)
  PROVE  /\ i \in Id /\ i \in DOMAIN run[w].obj
         /\ Flushed(w)[i] = Write(run[w].base[i], run[w].obj[i], View(w)[i])
         /\ run[w].base[i] \in Row /\ run[w].obj[i] \in Row
         /\ View(w)[i] # None => Flushed(w)[i] \in Row
<1>1. i \in DOMAIN run[w].obj /\ i \in DOMAIN run[w].base /\ i \in Id
  BY SessionFields DEF Dirty, Coherent
<1>2. run[w].base[i] \in Row /\ run[w].obj[i] \in Row
  BY <1>1, SessionFields
<1>3. Flushed(w)[i] = Write(run[w].base[i], run[w].obj[i], View(w)[i])
  BY DEF Flushed
<1> QED
  BY <1>1, <1>2, <1>3, ViewType, WriteType

LEMMA NoConflict ==
  ASSUME NEW w \in Worker, ~Conflict(w)
  PROVE  /\ provisioner[run[w].prov] # None
         /\ \A i \in Dirty(w) : View(w)[i] # None
         /\ \A s \in run[w].snaps : View(w)[s.machine] # None
         /\ ~Duplicate(w)
  BY DEF Conflict, Missing

-----------------------------------------------------------------------------
(* What each action of a session does to it.  Everything that a later proof     *)
(* needs of the nested updates is said here once.                               *)

Kept(w) ==
  /\ run'[w].prov = run[w].prov /\ run'[w].report = run[w].report /\ run'[w].at = run[w].at
  /\ run'[w].others = run[w].others

Tables == <<machine, stale, history, optimized, raced>>

(* Only w's session, and tables that no invariant below relates to it, change. *)
Private(w) ==
  /\ UNCHANGED Tables /\ run' = [x \in Worker |-> run'[x]]
  /\ \A x \in Worker \ {w} : run'[x] = run[x]

(* Update takes the current record into the object i. *)
Took(w, i) ==
  LET r == run[w]
      s == run'[w]
      object == IF i \in DOMAIN r.obj THEN r.obj[i] ELSE View(w)[i]
  IN  /\ r.pc = "records" /\ r.next <= Len(r.report)
      /\ s \in Session /\ s.pc = "records" /\ Kept(w) /\ s.next = r.next + 1
      /\ s.written = r.written
      /\ DOMAIN s.base = DOMAIN r.base \cup {i}
      /\ i \in DOMAIN r.base => s.base[i] = r.base[i]
      /\ i \notin DOMAIN r.base => s.base[i] = View(w)[i]
      /\ \A j \in DOMAIN r.base \ {i} : s.base[j] = r.base[j]
      /\ DOMAIN s.obj = DOMAIN r.obj \cup {i} /\ s.obj[i] = Assigned(w, Current(w))
      /\ \A j \in DOMAIN r.obj \ {i} : s.obj[j] = r.obj[j]
      /\ IF object.flavor # Current(w).flavor
         THEN s.snaps = r.snaps \cup {Snap(w, i)} /\ s.refresh = r.refresh \cup {i}
         ELSE s.snaps = r.snaps /\ s.refresh = r.refresh

LEMMA SnapType ==
  ASSUME Typed, NEW w \in Worker, Coherent(w), Open(w), run[w].next <= Len(run[w].report), NEW i \in Id
  PROVE  /\ Snap(w, i) \in Snapshot /\ Snap(w, i).machine = i /\ Snap(w, i).at = run[w].at
         /\ Snap(w, i).no = run[w].next /\ Snap(w, i).flavor = Current(w).flavor
<1>1. run[w].at \in 1..MaxRuns
  BY InventoryAssumption DEF Coherent, Typed
<1>2. run[w].next \in Nat /\ Current(w).flavor \in Flavor
  BY CurrentType, SessionFields
<1> QED
  BY <1>1, <1>2 DEF Snap, Snapshot

LEMMA UpdateStep ==
  ASSUME TInv, NEW w \in Worker, Update(w)
  PROVE  Private(w) /\ UNCHANGED <<provisioner, nextId, clock>> /\ \E i \in Found(w) : Took(w, i)
<1> DEFINE r == run[w]
<1>1. Typed /\ Coherent(w) /\ Open(w) /\ r.pc = "records" /\ r.next <= Len(r.report)
  BY DEF TInv, Update, HasRecord, Open
<1>2. PICK i \in Found(w) :
        LET known   == i \in DOMAIN run[w].obj
            object  == IF known THEN run[w].obj[i] ELSE View(w)[i]
            changed == FlavorChanged(object.flavor, Current(w).flavor)
        IN run' = [run EXCEPT
             ![w].next    = @ + 1,
             ![w].base    = IF known THEN @ ELSE Put(@, i, object),
             ![w].obj     = Put(@, i, Assigned(w, Current(w))),
             ![w].snaps   = IF changed THEN @ \cup {Snap(w, i)} ELSE @,
             ![w].refresh = IF changed THEN @ \cup {i} ELSE @]
  BY DEF Update
<1> DEFINE known   == i \in DOMAIN r.obj
           object  == IF known THEN r.obj[i] ELSE View(w)[i]
           changed == object.flavor # Current(w).flavor
           b == IF known THEN r.base ELSE Put(r.base, i, object)
           o == Put(r.obj, i, Assigned(w, Current(w)))
           k == r.next + 1
           n == IF changed THEN r.snaps \cup {Snap(w, i)} ELSE r.snaps
           f == IF changed THEN r.refresh \cup {i} ELSE r.refresh
           s == [r EXCEPT !.pc = "records", !.next = k, !.base = b, !.obj = o,
                          !.written = r.written, !.snaps = n, !.refresh = f]
<1>3. r \in Session /\ run \in [Worker -> Session]
  BY <1>1 DEF Typed
<1>4. run' = [run EXCEPT ![w] = s]
  <2>1. run' = [run EXCEPT ![w] = [r EXCEPT !.next = k, !.base = b, !.obj = o, !.snaps = n, !.refresh = f]]
    BY <1>2, <1>3 DEF FlavorChanged
  <2> HIDE DEF k, b, o, n, f
  <2>2. [r EXCEPT !.next = k, !.base = b, !.obj = o, !.snaps = n, !.refresh = f] = s
    BY <1>1, <1>3 DEF Session
  <2> QED
    BY <2>1, <2>2
<1>5. i \in Id /\ View(w)[i] \in Row
  BY <1>1, FoundType
<1>6. Assigned(w, Current(w)) \in Row
  BY <1>1, CurrentType
<1>7. r.base \in Objects /\ r.obj \in Objects /\ DOMAIN r.obj = DOMAIN r.base
  BY <1>1, SessionFields DEF Coherent
<1>8. /\ o \in Objects /\ DOMAIN o = DOMAIN r.obj \cup {i} /\ o[i] = Assigned(w, Current(w))
      /\ \A j \in DOMAIN r.obj \ {i} : o[j] = r.obj[j]
  <2> DEFINE v == Assigned(w, Current(w))
             m == r.obj
  <2>1. v \in Row /\ m \in Objects
    BY <1>6, <1>7
  <2> HIDE DEF v, m
  <2>2. /\ Put(m, i, v) \in Objects /\ DOMAIN Put(m, i, v) = DOMAIN m \cup {i} /\ Put(m, i, v)[i] = v
        /\ \A j \in DOMAIN m \ {i} : Put(m, i, v)[j] = m[j]
    BY <1>5, <2>1, PutType
  <2> QED
    BY <2>2 DEF v, m
<1>9. /\ b \in Objects /\ DOMAIN b = DOMAIN r.base \cup {i}
      /\ i \in DOMAIN r.base => b[i] = r.base[i]
      /\ i \notin DOMAIN r.base => b[i] = View(w)[i]
      /\ \A j \in DOMAIN r.base \ {i} : b[j] = r.base[j]
  <2>1. CASE known
    BY <1>7, <2>1
  <2>2. CASE ~known
    BY <1>5, <1>7, <2>2, PutType
  <2> QED
    BY <2>1, <2>2
<1>10. n \in Snapshots /\ f \in Machines /\ k \in Position
  BY <1>1, <1>5, SnapType, SessionFields DEF Snapshots, Machines, Position
<1> HIDE DEF b, o, n, f
<1>11. s \in Session /\ s.base = b /\ s.obj = o /\ s.snaps = n /\ s.refresh = f /\ s.next = r.next + 1
       /\ s.pc = r.pc /\ s.prov = r.prov /\ s.report = r.report /\ s.at = r.at /\ s.others = r.others
       /\ s.written = r.written
  <2>1. r.written \in Objects
    BY <1>1, SessionFields
  <2>2. "records" \in Phase
    BY DEF Phase
  <2>3. s = [r EXCEPT !.pc = "records", !.next = k, !.base = b, !.obj = o,
                      !.written = r.written, !.snaps = n, !.refresh = f]
    OBVIOUS
  <2> HIDE DEF r, k, s
  <2>4. r \in Session /\ b \in Objects /\ o \in Objects /\ n \in Snapshots /\ f \in Machines /\ k \in Position
    BY <1>3, <1>8, <1>9, <1>10
  <2>5. /\ s \in Session /\ s.pc = "records" /\ s.next = k /\ s.base = b /\ s.obj = o
        /\ s.written = r.written /\ s.snaps = n /\ s.refresh = f
        /\ s.prov = r.prov /\ s.report = r.report /\ s.at = r.at /\ s.others = r.others
    BY <2>1, <2>2, <2>3, <2>4 DEF Session
  <2> QED
    BY <1>1, <2>5 DEF k
<1> HIDE DEF s
<1>12. run' = [x \in Worker |-> run'[x]] /\ run'[w] = s /\ \A x \in Worker \ {w} : run'[x] = run[x]
  BY <1>3, <1>4
<1>13. Took(w, i)
  BY <1>1, <1>8, <1>9, <1>11, <1>12 DEF Took, Kept, n, f
<1>14. Private(w)
  BY <1>12 DEF Update, Private, Tables
<1> QED
  BY <1>13, <1>14 DEF Update

(* Insert flushes, and adds the new row nextId. *)
Added(w) ==
  LET r == run[w]
      s == run'[w]
      row == Inserted(w)
  IN  /\ r.pc = "insert" /\ r.next <= Len(r.report) /\ nextId \in Id /\ nextId' = nextId + 1
      /\ ~InsertConflict(w) /\ ~Blocked(w, FlushedRows(w) \cup {row})
      /\ s \in Session /\ s.pc = "records" /\ Kept(w) /\ s.next = r.next + 1
      /\ DOMAIN s.base = DOMAIN r.base \cup {nextId} /\ s.base = s.obj
      /\ DOMAIN s.obj = DOMAIN r.obj \cup {nextId} /\ s.obj[nextId] = row
      /\ \A j \in DOMAIN r.obj \ {nextId} : s.obj[j] = r.obj[j]
      /\ DOMAIN s.written = DOMAIN r.written \cup Dirty(w) \cup {nextId} /\ s.written[nextId] = row
      /\ \A j \in Dirty(w) \ {nextId} : s.written[j] = Flushed(w)[j]
      /\ \A j \in DOMAIN r.written \ (Dirty(w) \cup {nextId}) : s.written[j] = r.written[j]
      /\ s.snaps = r.snaps \cup {Snap(w, nextId)} /\ s.refresh = r.refresh \cup {nextId}

LEMMA InsertStep ==
  ASSUME TInv, NEW w \in Worker, Insert(w)
  PROVE  Private(w) /\ UNCHANGED <<provisioner, clock>> /\ Added(w)
<1> DEFINE r == run[w]
           row == Inserted(w)
           o == Put(r.obj, nextId, row)
           wr == [k \in DOMAIN r.written \cup Dirty(w) \cup {nextId} |->
                    IF k = nextId THEN row ELSE IF k \in Dirty(w) THEN Flushed(w)[k] ELSE r.written[k]]
           k == r.next + 1
           n == r.snaps \cup {Snap(w, nextId)}
           f == r.refresh \cup {nextId}
           s == [r EXCEPT !.pc = "records", !.next = k, !.base = o, !.obj = o, !.written = wr,
                          !.snaps = n, !.refresh = f]
<1>1. Typed /\ Coherent(w) /\ Open(w) /\ r.pc = "insert" /\ r.next <= Len(r.report)
  BY DEF TInv, Insert, Coherent, Open
<1>2. r \in Session /\ run \in [Worker -> Session]
  BY <1>1 DEF Typed
<1>3. nextId \in Id /\ nextId' = nextId + 1
  <2>1. nextId <= MaxId /\ nextId' = nextId + 1
    BY DEF Insert
  <2>2. nextId \in 1..MaxId + 1
    BY <1>1 DEF Typed
  <2> QED
    BY <2>1, <2>2, InventoryAssumption DEF Id
<1>4. row \in Row
  BY <1>1, CurrentType DEF Inserted
<1>5. run' = [run EXCEPT ![w] = s]
  BY <1>2 DEF Insert, Session
<1>6. /\ o \in Objects /\ DOMAIN o = DOMAIN r.obj \cup {nextId} /\ o[nextId] = row
      /\ \A j \in DOMAIN r.obj \ {nextId} : o[j] = r.obj[j]
  <2> DEFINE m == r.obj
  <2>1. m \in Objects
    BY <1>1, SessionFields
  <2> HIDE DEF row, m
  <2>2. /\ Put(m, nextId, row) \in Objects /\ DOMAIN Put(m, nextId, row) = DOMAIN m \cup {nextId}
        /\ Put(m, nextId, row)[nextId] = row
        /\ \A j \in DOMAIN m \ {nextId} : Put(m, nextId, row)[j] = m[j]
    BY <1>3, <1>4, <2>1, PutType
  <2> QED
    BY <2>2 DEF m
<1>7. /\ DOMAIN wr = DOMAIN r.written \cup Dirty(w) \cup {nextId} /\ wr[nextId] = row
      /\ \A j \in Dirty(w) \ {nextId} : wr[j] = Flushed(w)[j]
      /\ \A j \in DOMAIN r.written \ (Dirty(w) \cup {nextId}) : wr[j] = r.written[j]
  OBVIOUS
<1>8. wr \in Objects
  <2>1. ~Conflict(w)
    BY DEF Insert, InsertConflict
  <2>2. \A j \in Dirty(w) : Flushed(w)[j] \in Row /\ j \in Id
    BY <1>1, <2>1, NoConflict, FlushedType
  <2>3. \A j \in DOMAIN r.written : r.written[j] \in Row /\ j \in Id
    BY <1>1, SessionFields
  <2>4. DOMAIN wr \subseteq Id /\ \A j \in DOMAIN wr : wr[j] \in Row
    BY <1>3, <1>4, <1>7, <2>2, <2>3
  <2>5. wr = [j \in DOMAIN wr |-> wr[j]]
    OBVIOUS
  <2> HIDE DEF wr
  <2>6. wr \in [DOMAIN wr -> Row]
    BY <2>4, <2>5
  <2> QED
    BY <2>4, <2>6, ObjectsType
<1>9. n \in Snapshots /\ f \in Machines /\ k \in Position
  BY <1>1, <1>3, SnapType, SessionFields DEF Snapshots, Machines, Position
<1> HIDE DEF o, wr, n, f
<1>10. s \in Session /\ s.base = o /\ s.obj = o /\ s.written = wr /\ s.next = r.next + 1
       /\ s.snaps = n /\ s.refresh = f
       /\ s.pc = "records" /\ s.prov = r.prov /\ s.report = r.report /\ s.at = r.at /\ s.others = r.others
  <2>1. "records" \in Phase
    BY DEF Phase
  <2>2. s = [r EXCEPT !.pc = "records", !.next = k, !.base = o, !.obj = o,
                      !.written = wr, !.snaps = n, !.refresh = f]
    OBVIOUS
  <2> HIDE DEF r, k, s
  <2>3. r \in Session /\ o \in Objects /\ wr \in Objects /\ n \in Snapshots /\ f \in Machines /\ k \in Position
    BY <1>2, <1>6, <1>8, <1>9
  <2>4. /\ s \in Session /\ s.pc = "records" /\ s.next = k /\ s.base = o /\ s.obj = o
        /\ s.written = wr /\ s.snaps = n /\ s.refresh = f
        /\ s.prov = r.prov /\ s.report = r.report /\ s.at = r.at /\ s.others = r.others
    BY <2>1, <2>2, <2>3 DEF Session
  <2> QED
    BY <2>4 DEF k
<1> HIDE DEF s
<1>11. run' = [x \in Worker |-> run'[x]] /\ run'[w] = s /\ \A x \in Worker \ {w} : run'[x] = run[x]
  BY <1>2, <1>5
<1>12. DOMAIN r.base = DOMAIN r.obj
  BY <1>1 DEF Coherent
<1>13. ~InsertConflict(w) /\ ~Blocked(w, FlushedRows(w) \cup {row})
  BY DEF Insert
<1>14. Added(w)
  BY <1>1, <1>3, <1>6, <1>7, <1>10, <1>11, <1>12, <1>13 DEF Added, Kept, n, f
<1>15. Private(w)
  BY <1>11 DEF Insert, Private, Tables
<1> QED
  BY <1>14, <1>15 DEF Insert

(* A new session *)
Began(w, p) ==
  LET s == run'[w]
  IN  /\ ~Open(w) /\ s \in Session /\ s.pc = "begun" /\ s.prov = p /\ s.report = << >>
      /\ s.next = 1 /\ s.at = clock' /\ s.snaps = {} /\ s.refresh = {} /\ s.others = {}
      /\ DOMAIN s.base = {} /\ DOMAIN s.obj = {} /\ DOMAIN s.written = {}

(* No provisioner comes back, and none has succeeded. *)
NoneSucceeds ==
  /\ provisioner' \in [Provisioner -> ProvisionerRow \cup {None}]
  /\ \A q \in Provisioner : provisioner'[q] # None =>
       provisioner[q] # None /\ provisioner'[q].lastSuccess = provisioner[q].lastSuccess

LEMMA NoneSucceedsAtRest ==
  ASSUME Typed, UNCHANGED provisioner
  PROVE  NoneSucceeds
  BY DEF NoneSucceeds, Typed

LEMMA StartStep ==
  ASSUME TInv, NEW w \in Worker, NEW p \in Provisioner, Start(w, p)
  PROVE  /\ UNCHANGED nextId /\ clock' = clock + 1 /\ clock' \in 0..MaxRuns
         /\ NoneSucceeds /\ Private(w) /\ Began(w, p)
<1>1. Typed /\ run \in [Worker -> Session] /\ clock \in 0..MaxRuns
  BY DEF TInv, Typed
<1>2. UNCHANGED <<provisioner, Tables, nextId>> /\ clock' = clock + 1 /\ clock' \in 0..MaxRuns
  <2>1. UNCHANGED <<provisioner, Tables, nextId>> /\ clock' = clock + 1 /\ clock < MaxRuns
    BY DEF Start, Tables
  <2> QED
    BY <1>1, <2>1, InventoryAssumption
<1> DEFINE e == provisioner[p].error
           s == [Idle EXCEPT !.pc = "begun", !.prov = p, !.at = clock', !.error = e]
<1>3. e \in Errors /\ p \in Owner /\ "begun" \in Phase /\ clock' \in Time
  <2>1. provisioner[p] \in ProvisionerRow
    BY <1>1 DEF Typed, Start
  <2> QED
    BY <1>2, <2>1 DEF ProvisionerRow, Owner, Phase, Time
<1>4. run' = [run EXCEPT ![w] = s]
  BY DEF Start
<1> HIDE DEF e
<1>5. /\ s \in Session /\ s.pc = "begun" /\ s.prov = p /\ s.report = Idle.report /\ s.at = clock'
      /\ s.next = Idle.next /\ s.base = Idle.base /\ s.obj = Idle.obj /\ s.written = Idle.written
      /\ s.snaps = Idle.snaps /\ s.refresh = Idle.refresh /\ s.others = Idle.others
  BY <1>3, IdleType DEF Session
<1> HIDE DEF s
<1>6. run' = [x \in Worker |-> run'[x]] /\ run'[w] = s /\ \A x \in Worker \ {w} : run'[x] = run[x]
  BY <1>1, <1>4
<1>7. Private(w) /\ Began(w, p)
  BY <1>2, <1>5, <1>6, IdleType DEF Private, Began, Tables, Start
<1> QED
  BY <1>1, <1>2, <1>7, NoneSucceedsAtRest

(* A session that has been found enabled *)
Entered(w) ==
  LET r == run[w]
      s == run'[w]
  IN  /\ r.pc = "begun" /\ s \in Session /\ s.pc = "records" /\ s.next = r.next
      /\ s.prov = r.prov /\ s.at = r.at /\ s.others = r.others
      /\ s.base = r.base /\ s.obj = r.obj /\ s.written = r.written
      /\ s.snaps = r.snaps /\ s.refresh = r.refresh

LEMMA EnterStep ==
  ASSUME TInv, NEW w \in Worker, Enter(w)
  PROVE  /\ Private(w) /\ UNCHANGED <<nextId, clock>> /\ NoneSucceeds
         /\ Open(w) /\ (Entered(w) \/ run'[w] = Idle)
<1> DEFINE r == run[w]
           p == r.prov
<1>1. /\ run \in [Worker -> Session] /\ r \in Session /\ Open(w)
      /\ provisioner \in [Provisioner -> ProvisionerRow \cup {None}]
      /\ UNCHANGED <<Tables, nextId, clock>> /\ r.pc = "begun"
  BY DEF TInv, Typed, Enter, Open, Tables
<1>2. p \in Provisioner /\ provisioner[p] \in ProvisionerRow /\ provisioner[p] # None /\ r.at \in 0..MaxRuns
  BY <1>1, SessionFields DEF TInv, Coherent, Enter
<1>3. ASSUME NEW e \in Errors, provisioner' = [provisioner EXCEPT ![p].lastRun = r.at, ![p].error = e]
      PROVE  NoneSucceeds
  <2> DEFINE row == [provisioner[p] EXCEPT !.lastRun = r.at, !.error = e]
  <2>1. row \in ProvisionerRow /\ row.lastSuccess = provisioner[p].lastSuccess
    BY <1>2 DEF ProvisionerRow
  <2>2. provisioner' = [provisioner EXCEPT ![p] = row]
    BY <1>1, <1>2, <1>3
  <2> HIDE DEF row
  <2> QED
    BY <1>1, <1>2, <2>1, <2>2 DEF NoneSucceeds
<1>4. ASSUME NEW s \in Session, run' = [run EXCEPT ![w] = s]
      PROVE  Private(w) /\ run'[w] = s
  <2>1. run' = [x \in Worker |-> run'[x]] /\ run'[w] = s /\ \A x \in Worker \ {w} : run'[x] = run[x]
    BY <1>1, <1>4
  <2> QED
    BY <1>1, <2>1 DEF Private
<1>5. ASSUME NEW report \in Report, NEW e \in Errors,
             run' = [run EXCEPT ![w].pc = "records", ![w].report = report, ![w].error = e]
      PROVE  Private(w) /\ Entered(w)
  <2> DEFINE s == [r EXCEPT !.pc = "records", !.report = report, !.error = e]
  <2>1. report \in Reports /\ "records" \in Phase
    BY InventoryAssumption DEF Reports, Phase
  <2>2. /\ s \in Session /\ s.pc = "records" /\ s.next = r.next /\ s.prov = r.prov /\ s.at = r.at
        /\ s.others = r.others /\ s.base = r.base /\ s.obj = r.obj /\ s.written = r.written
        /\ s.snaps = r.snaps /\ s.refresh = r.refresh
    <3> HIDE DEF r
    <3> QED
      BY <1>1, <2>1 DEF Session
  <2>3. run' = [run EXCEPT ![w] = s]
    BY <1>1, <1>5
  <2> HIDE DEF s
  <2>4. Private(w) /\ run'[w] = s
    BY <1>4, <2>2, <2>3
  <2> QED
    BY <1>1, <2>2, <2>4 DEF Entered
<1>6. run[w].error \in Errors /\ provisioner[p].error \in Errors /\ {"none", "failed"} \subseteq Errors
  BY <1>1, <1>2 DEF Session, ProvisionerRow, Errors
<1> DEFINE error == IF run[w].error = "none" THEN provisioner[p].error ELSE "none"
<1>7. error \in Errors
  BY <1>6
<1>8. \/ /\ provisioner' = [provisioner EXCEPT ![p].lastRun = r.at, ![p].error = error]
         /\ \E report \in Report :
              run' = [run EXCEPT ![w].pc = "records", ![w].report = report, ![w].error = error]
      \/ /\ provisioner' = [provisioner EXCEPT ![p].lastRun = r.at, ![p].error = "failed"]
         /\ run' = [run EXCEPT ![w] = Idle]
  BY DEF Enter
<1> HIDE DEF error, p, r
<1>9. NoneSucceeds
  BY <1>3, <1>6, <1>7, <1>8
<1>10. Private(w) /\ (Entered(w) \/ run'[w] = Idle)
  BY <1>4, <1>5, <1>7, <1>8, IdleType
<1> QED
  BY <1>1, <1>9, <1>10

(* A lookup that finds nothing *)
Overlooked(w) ==
  LET r == run[w]
      s == run'[w]
  IN  /\ r.pc = "records" /\ r.next <= Len(r.report) /\ Found(w) = {}
      /\ s \in Session /\ s.pc = "insert" /\ Kept(w) /\ s.next = r.next
      /\ s.base = r.base /\ s.obj = r.obj /\ s.written = r.written
      /\ s.snaps = r.snaps /\ s.refresh = r.refresh

LEMMA MissStep ==
  ASSUME TInv, NEW w \in Worker, Miss(w)
  PROVE  Private(w) /\ UNCHANGED <<provisioner, nextId, clock>> /\ Overlooked(w)
<1> DEFINE r == run[w]
           s == [r EXCEPT !.pc = "insert"]
<1>1. r \in Session /\ run \in [Worker -> Session]
  BY DEF TInv, Typed
<1>2. /\ s \in Session /\ s.pc = "insert" /\ s.prov = r.prov /\ s.report = r.report /\ s.next = r.next
      /\ s.at = r.at /\ s.base = r.base /\ s.obj = r.obj /\ s.written = r.written
      /\ s.snaps = r.snaps /\ s.refresh = r.refresh /\ s.others = r.others
  <2>1. "insert" \in Phase
    BY DEF Phase
  <2> HIDE DEF r
  <2> QED
    BY <1>1, <2>1 DEF Session
<1>3. run' = [run EXCEPT ![w] = s]
  BY DEF Miss
<1> HIDE DEF s
<1>4. run' = [x \in Worker |-> run'[x]] /\ run'[w] = s /\ \A x \in Worker \ {w} : run'[x] = run[x]
  BY <1>1, <1>3
<1> QED
  BY <1>2, <1>4 DEF Miss, HasRecord, Private, Tables, Overlooked, Kept

(* A session that is given up *)
LEMMA EndStep ==
  ASSUME TInv, NEW w \in Worker, Reject(w) \/ Fail(w) \/ Crash(w) \/ StartFails(w)
  PROVE  /\ Private(w) /\ UNCHANGED <<nextId, clock>> /\ NoneSucceeds
         /\ Open(w) /\ run'[w] = Idle
<1>1. run \in [Worker -> Session] /\ provisioner \in [Provisioner -> ProvisionerRow \cup {None}]
  BY DEF TInv, Typed
<1>2. Open(w) /\ run' = [run EXCEPT ![w] = Idle] /\ UNCHANGED <<Tables, nextId, clock>>
  BY DEF Reject, Fail, Crash, StartFails, Failed, Open, Tables
<1>3. Private(w) /\ run'[w] = Idle
  BY <1>1, <1>2 DEF Private
<1>4. CASE Failed(w)
  <2>1. ASSUME NEW q \in Provisioner
        PROVE  /\ provisioner'[q] \in ProvisionerRow \cup {None}
               /\ provisioner'[q] # None => /\ provisioner[q] # None
                                            /\ provisioner'[q].lastSuccess = provisioner[q].lastSuccess
    <3> DEFINE row == [provisioner[q] EXCEPT !.error = "failed"]
    <3>1. provisioner'[q] = IF q = run[w].prov /\ provisioner[q] # None THEN row ELSE provisioner[q]
      BY <1>4 DEF Failed
    <3>2. provisioner[q] # None => row \in ProvisionerRow /\ row.lastSuccess = provisioner[q].lastSuccess
      BY <1>1 DEF ProvisionerRow, Errors
    <3> QED
      BY <1>1, <3>1, <3>2
  <2>2. provisioner' = [q \in Provisioner |-> provisioner'[q]]
    BY <1>4 DEF Failed
  <2> QED
    BY <1>2, <1>3, <2>1, <2>2 DEF NoneSucceeds
<1>5. CASE UNCHANGED provisioner
  BY <1>1, <1>2, <1>3, <1>5 DEF NoneSucceeds
<1> QED
  BY <1>4, <1>5 DEF Reject, Fail, Crash, StartFails

(* What an open session is told when others have committed to the machines `ids' *)
Told(x, ids) ==
  LET r == run[x]
      s == run'[x]
  IN  /\ s \in Session /\ s.pc = r.pc /\ s.prov = r.prov /\ s.report = r.report /\ s.next = r.next
      /\ s.at = r.at /\ s.base = r.base /\ s.obj = r.obj /\ s.written = r.written
      /\ s.snaps = r.snaps /\ s.refresh = r.refresh
      /\ IF r.pc # "idle" THEN s.others = r.others \cup ids ELSE s = r

LEMMA ToldIsSession ==
  ASSUME NEW r \in Session, NEW ids \in SUBSET Id, NEW s, s = [r EXCEPT !.others = @ \cup ids]
  PROVE  /\ s \in Session /\ s.pc = r.pc /\ s.prov = r.prov /\ s.report = r.report /\ s.next = r.next
         /\ s.at = r.at /\ s.base = r.base /\ s.obj = r.obj /\ s.written = r.written
         /\ s.snaps = r.snaps /\ s.refresh = r.refresh /\ s.others = r.others \cup ids
<1> DEFINE o == r.others \cup ids
<1>1. o \in Machines
  BY DEF Session, Machines
<1>2. s = [r EXCEPT !.others = o]
  OBVIOUS
<1> HIDE DEF o
<1>3. /\ s \in Session /\ s.pc = r.pc /\ s.prov = r.prov /\ s.report = r.report /\ s.next = r.next
      /\ s.at = r.at /\ s.base = r.base /\ s.obj = r.obj /\ s.written = r.written
      /\ s.snaps = r.snaps /\ s.refresh = r.refresh /\ s.others = o
  BY <1>1, <1>2 DEF Session
<1> QED
  BY <1>3 DEF o

(* What a commit publishes *)
Publishes(w) ==
  LET r == run[w]
  IN  /\ r.pc = "records" /\ r.next > Len(r.report) /\ ~Conflict(w) /\ ~Blocked(w, FlushedRows(w))
      /\ machine' \in [Id -> Row \cup {None}]
      /\ \A i \in Id : machine'[i] = IF i \in Dirty(w) THEN Flushed(w)[i] ELSE View(w)[i]
      /\ stale' = stale \ Updated(w) /\ raced' = raced \cup (Touched(w) \cap r.others)
      /\ history' = history \cup r.snaps
      /\ optimized' \in [Id -> Flavor \cup {None}]
      /\ \A i \in Id : optimized'[i] = IF i \in r.refresh THEN r.obj[i].flavor ELSE optimized[i]
      /\ Updated(w) \subseteq DOMAIN r.obj /\ Touched(w) \subseteq DOMAIN r.obj
      /\ run'[w] = Idle /\ \A x \in Worker \ {w} : Told(x, Touched(w))

LEMMA CommitStep ==
  ASSUME TInv, NEW w \in Worker, Commit(w)
  PROVE  /\ UNCHANGED <<nextId, clock>> /\ run' = [x \in Worker |-> run'[x]] /\ Publishes(w)
         /\ provisioner' \in [Provisioner -> ProvisionerRow \cup {None}]
         /\ \A q \in Provisioner : provisioner'[q] # None =>
              /\ provisioner[q] # None
              /\ provisioner'[q].lastSuccess =
                   IF q = run[w].prov THEN run[w].at ELSE provisioner[q].lastSuccess
<1> DEFINE r == run[w]
<1>1. Typed /\ Coherent(w) /\ Open(w)
  BY DEF TInv, Commit, Open
<1>2. /\ run \in [Worker -> Session] /\ provisioner \in [Provisioner -> ProvisionerRow \cup {None}]
      /\ optimized \in [Id -> Flavor \cup {None}]
  BY <1>1 DEF Typed
<1>3. /\ r.pc = "records" /\ r.next > Len(r.report) /\ ~Conflict(w) /\ ~Blocked(w, FlushedRows(w))
      /\ stale' = stale \ Updated(w) /\ raced' = raced \cup (Touched(w) \cap r.others)
      /\ history' = history \cup r.snaps
      /\ UNCHANGED <<nextId, clock>>
  BY DEF Commit
<1>4. /\ machine' \in [Id -> Row \cup {None}]
      /\ \A i \in Id : machine'[i] = IF i \in Dirty(w) THEN Flushed(w)[i] ELSE View(w)[i]
  <2>1. machine' = [i \in Id |-> IF i \in Dirty(w) THEN Flushed(w)[i] ELSE View(w)[i]]
    BY DEF Commit
  <2>2. \A i \in Dirty(w) : Flushed(w)[i] \in Row
    BY <1>1, <1>3, NoConflict, FlushedType
  <2>3. \A i \in Id : View(w)[i] \in Row \cup {None}
    BY <1>1, ViewType
  <2> QED
    BY <2>1, <2>2, <2>3
<1>5. Updated(w) \subseteq DOMAIN r.obj /\ Touched(w) \subseteq DOMAIN r.obj /\ DOMAIN r.obj \subseteq Id
  BY <1>1, SessionFields DEF Coherent, Updated, Touched, Dirty
<1>6. /\ optimized' \in [Id -> Flavor \cup {None}]
      /\ \A i \in Id : optimized'[i] = IF i \in r.refresh THEN r.obj[i].flavor ELSE optimized[i]
  <2>1. optimized' = [i \in Id |-> IF i \in r.refresh THEN r.obj[i].flavor ELSE optimized[i]]
    BY DEF Commit
  <2>2. \A i \in r.refresh : r.obj[i] \in Row
    BY <1>1, SessionFields DEF Coherent
  <2>3. \A i \in r.refresh : r.obj[i].flavor \in Flavor
    BY <2>2 DEF Row
  <2> QED
    BY <1>2, <2>1, <2>3
<1>7. run' = [x \in Worker |-> run'[x]] /\ run'[w] = Idle /\ \A x \in Worker \ {w} : Told(x, Touched(w))
  <2> DEFINE runs == [run EXCEPT ![w] = Idle]
  <2>1. run' = Missed(runs, w, Touched(w))
    BY DEF Commit
  <2>2. runs[w] = Idle /\ \A x \in Worker \ {w} : runs[x] = run[x]
    BY <1>2
  <2> HIDE DEF runs
  <2>3. run' = [x \in Worker |-> run'[x]] /\ run'[w] = Idle
    BY <2>1, <2>2 DEF Missed
  <2>4. ASSUME NEW x \in Worker \ {w}
        PROVE  Told(x, Touched(w))
    <3>1. run[x] \in Session
      BY <1>2
    <3>2. run'[x] = IF run[x].pc # "idle" THEN [run[x] EXCEPT !.others = @ \cup Touched(w)] ELSE run[x]
      BY <2>1, <2>2 DEF Missed
    <3>3. CASE run[x].pc # "idle"
      BY <1>5, <3>1, <3>2, <3>3, ToldIsSession DEF Told
    <3>4. CASE run[x].pc = "idle"
      BY <3>1, <3>2, <3>4 DEF Told
    <3> QED
      BY <3>3, <3>4
  <2> QED
    BY <2>3, <2>4
<1>8. /\ provisioner' \in [Provisioner -> ProvisionerRow \cup {None}]
      /\ \A q \in Provisioner : provisioner'[q] # None =>
           /\ provisioner[q] # None
           /\ provisioner'[q].lastSuccess = IF q = run[w].prov THEN run[w].at ELSE provisioner[q].lastSuccess
  <2> DEFINE p == run[w].prov
             e == IF run[w].error = "none" THEN provisioner[p].error ELSE "none"
             row == [provisioner[p] EXCEPT !.lastSuccess = run[w].at, !.error = e]
  <2>1. p \in Provisioner /\ provisioner[p] \in ProvisionerRow /\ provisioner[p] # None
    BY <1>1, <1>2, <1>3, NoConflict DEF Coherent
  <2>2. run[w].at \in 0..MaxRuns
    BY <1>1, SessionFields
  <2>3. e \in Errors
    BY <2>1 DEF ProvisionerRow, Errors
  <2>4. provisioner' = [provisioner EXCEPT ![p] = row]
    BY <1>2, <2>1 DEF Commit
  <2> HIDE DEF e
  <2>5. row \in ProvisionerRow /\ row.lastSuccess = run[w].at
    BY <2>1, <2>2, <2>3 DEF ProvisionerRow
  <2> HIDE DEF row
  <2> QED
    BY <1>2, <2>1, <2>4, <2>5
<1> HIDE DEF r
<1>9. Publishes(w)
  BY <1>3, <1>4, <1>5, <1>6, <1>7 DEF Publishes, r
<1> QED
  BY <1>3, <1>7, <1>8, <1>9

(* Machines that are deleted *)
Removes(ids) ==
  /\ ids \subseteq Live
  /\ \A x \in Worker : DOMAIN run[x].written \cap ids = {} /\ Told(x, ids)
  /\ machine' \in [Id -> Row \cup {None}] /\ optimized' \in [Id -> Flavor \cup {None}]
  /\ \A i \in ids : machine'[i] = None
  /\ \A i \in Id \ ids : machine'[i] = machine[i] /\ optimized'[i] = optimized[i]
  /\ history' = {h \in history : h.machine \notin ids}
  /\ stale' = stale \ ids /\ raced' = raced \ ids

LEMMA ToldAll ==
  ASSUME TInv, NEW ids \in SUBSET Id,
         run' = [x \in Worker |-> IF Open(x) THEN [run[x] EXCEPT !.others = @ \cup ids] ELSE run[x]]
  PROVE  run' = [x \in Worker |-> run'[x]] /\ \A x \in Worker : Told(x, ids)
<1>1. ASSUME NEW x \in Worker
      PROVE  Told(x, ids)
  <2>1. run[x] \in Session
    BY DEF TInv, Typed
  <2>2. CASE Open(x)
    <3>1. run'[x] = [run[x] EXCEPT !.others = @ \cup ids] /\ run[x].pc # "idle"
      BY <2>2 DEF Open
    <3> DEFINE r == run[x]
               s == run'[x]
    <3>2. r \in Session /\ s = [r EXCEPT !.others = @ \cup ids] /\ r.pc # "idle"
      BY <2>1, <3>1
    <3> HIDE DEF r, s
    <3>3. /\ s \in Session /\ s.pc = r.pc /\ s.prov = r.prov /\ s.report = r.report /\ s.next = r.next
          /\ s.at = r.at /\ s.base = r.base /\ s.obj = r.obj /\ s.written = r.written
          /\ s.snaps = r.snaps /\ s.refresh = r.refresh /\ s.others = r.others \cup ids
      BY <3>2, ToldIsSession
    <3> QED
      BY <3>2, <3>3 DEF Told, r, s
  <2>3. CASE ~Open(x)
    BY <2>1, <2>3 DEF Told, Open
  <2> QED
    BY <2>2, <2>3
<1> QED
  BY <1>1

LEMMA RemoveStep ==
  ASSUME TInv, NEW ids, ids \subseteq Live, Remove(ids)
  PROVE  /\ UNCHANGED <<provisioner, nextId, clock>> /\ run' = [x \in Worker |-> run'[x]]
         /\ Removes(ids)
<1>1. Typed /\ ids \in SUBSET Id
  BY DEF TInv, Live
<1>2. run' = [x \in Worker |-> run'[x]] /\ \A x \in Worker : Told(x, ids)
  BY <1>1, ToldAll DEF Remove
<1>3. \A x \in Worker : DOMAIN run[x].written \cap ids = {}
  BY DEF Remove, Locked
<1> QED
  BY <1>1, <1>2, <1>3 DEF Remove, Removes, Typed

(* Machines whose provisioner is deleted *)
Releases(ids) ==
  /\ ids \subseteq Live
  /\ \A x \in Worker : DOMAIN run[x].written \cap ids = {} /\ Told(x, ids)
  /\ machine' \in [Id -> Row \cup {None}]
  /\ \A i \in ids : machine'[i] = [machine[i] EXCEPT !.prov = None] /\ machine'[i] # None
  /\ \A i \in Id \ ids : machine'[i] = machine[i]
  /\ stale' = stale \ ids /\ UNCHANGED <<history, optimized, raced>>

LEMMA ReleaseStep ==
  ASSUME TInv, NEW p \in Provisioner, DeleteProvisioner(p)
  PROVE  /\ UNCHANGED <<nextId, clock>> /\ NoneSucceeds /\ run' = [x \in Worker |-> run'[x]]
         /\ Releases({i \in Live : machine[i].prov = p})
<1> DEFINE ids == {i \in Live : machine[i].prov = p}
<1>1. Typed /\ ids \in SUBSET Id /\ ids \subseteq Live
  BY DEF TInv, Live
<1>2. /\ ~Locked(ids) /\ provisioner' = [provisioner EXCEPT ![p] = None]
      /\ machine' = [i \in Id |-> IF i \in ids THEN [machine[i] EXCEPT !.prov = None] ELSE machine[i]]
      /\ run' = [w \in Worker |-> IF Open(w) THEN [run[w] EXCEPT !.others = @ \cup ids] ELSE run[w]]
      /\ stale' = stale \ ids /\ UNCHANGED <<history, optimized, nextId, clock, raced>>
  BY DEF DeleteProvisioner
<1>3. \A i \in ids : machine[i] \in Row
  BY <1>1 DEF Typed, Live
<1> HIDE DEF ids
<1>4. run' = [x \in Worker |-> run'[x]] /\ \A x \in Worker : Told(x, ids)
  BY <1>1, <1>2, ToldAll
<1>5. \A x \in Worker : DOMAIN run[x].written \cap ids = {}
  BY <1>2 DEF Locked
<1>6. \A i \in ids : [machine[i] EXCEPT !.prov = None] \in Row
  BY <1>3 DEF Row
<1>7. /\ machine' \in [Id -> Row \cup {None}]
      /\ \A i \in ids : machine'[i] = [machine[i] EXCEPT !.prov = None] /\ machine'[i] # None
      /\ \A i \in Id \ ids : machine'[i] = machine[i]
  BY <1>1, <1>2, <1>6, InventoryAssumption DEF Typed
<1>8. NoneSucceeds
  BY <1>1, <1>2 DEF NoneSucceeds, Typed
<1>9. Releases(ids)
  BY <1>1, <1>2, <1>4, <1>5, <1>7 DEF Releases
<1> QED
  BY <1>2, <1>4, <1>8, <1>9 DEF ids

-----------------------------------------------------------------------------
(* Types *)

LEMMA InitTInv == Init => TInv
<1> SUFFICES ASSUME Init PROVE TInv
  OBVIOUS
<1>1. Typed
  BY IdleType, InventoryAssumption DEF Init, Typed, ProvisionerRow, Errors
<1>2. HistoryIsOfLive
  BY DEF Init, HistoryIsOfLive
<1>3. \A w \in Worker : Coherent(w)
  BY IdleType DEF Init, Coherent, Open
<1> QED
  BY <1>1, <1>2, <1>3 DEF TInv

(* A session keeps together when nothing but its `others' changes. *)
LEMMA ToldCoherent ==
  ASSUME TInv, NEW x \in Worker, NEW ids, Told(x, ids), clock' = clock
  PROVE  Coherent(x)'
<1>1. Coherent(x) /\ clock \in Nat /\ clock' \in Nat
  BY DEF TInv, Typed
<1> QED
  BY <1>1 DEF Coherent, Told, Open

LEMMA SameCoherent ==
  ASSUME TInv, NEW x \in Worker, run'[x] = run[x], clock \in Nat, clock' \in {clock, clock + 1}
  PROVE  Coherent(x)'
<1>1. Coherent(x)
  BY DEF TInv
<1>2. run[x].at \in 0..MaxRuns
  BY SessionFields DEF TInv
<1> QED
  BY <1>1, <1>2 DEF Coherent, Open

LEMMA PrivateTInv ==
  ASSUME TInv, NEW w \in Worker, Private(w), NoneSucceeds,
         clock' \in {clock, clock + 1}, clock' \in 0..MaxRuns, nextId' \in 1..MaxId + 1,
         run'[w] \in Session, Coherent(w)'
  PROVE  TInv'
<1>1. Typed'
  BY DEF TInv, Typed, Private, Tables, NoneSucceeds
<1>2. HistoryIsOfLive'
  BY DEF TInv, HistoryIsOfLive, Private, Tables, Live
<1>3. \A x \in Worker \ {w} : Coherent(x)'
  BY SameCoherent DEF TInv, Typed, Private
<1> QED
  BY <1>1, <1>2, <1>3 DEF TInv

(* The snapshots of a session after one that is added, or after none *)
LEMMA SnapsCohere ==
  ASSUME TInv, NEW w \in Worker, NEW i, Kept(w),
         run'[w].next = run[w].next + 1, i \in DOMAIN run'[w].obj,
         DOMAIN run[w].obj \subseteq DOMAIN run'[w].obj,
         \/ run'[w].snaps = run[w].snaps /\ run'[w].refresh = run[w].refresh
         \/ i \in Id /\ run'[w].snaps = run[w].snaps \cup {Snap(w, i)} /\ run'[w].refresh = run[w].refresh \cup {i}
  PROVE  /\ \A j \in Id : j \in run'[w].refresh <=> \E s \in run'[w].snaps : s.machine = j
         /\ run'[w].refresh \subseteq DOMAIN run'[w].obj
         /\ \A s \in run'[w].snaps : s.at = run'[w].at /\ s.no < run'[w].next
<1>1. /\ Coherent(w) /\ run[w].next \in Nat /\ run'[w].at = run[w].at
      /\ \A s \in run[w].snaps : s.no \in Nat
  BY SessionFields DEF TInv, Kept, Snapshot
<1>2. Snap(w, i).machine = i /\ Snap(w, i).at = run[w].at /\ Snap(w, i).no = run[w].next
  BY DEF Snap
<1>3. /\ \A j \in Id : j \in run[w].refresh <=> \E s \in run[w].snaps : s.machine = j
      /\ run[w].refresh \subseteq DOMAIN run[w].obj
      /\ \A s \in run[w].snaps : s.at = run[w].at /\ s.no < run[w].next
  BY <1>1 DEF Coherent
<1>4. CASE run'[w].snaps = run[w].snaps /\ run'[w].refresh = run[w].refresh
  BY <1>1, <1>3, <1>4
<1>5. CASE i \in Id /\ run'[w].snaps = run[w].snaps \cup {Snap(w, i)} /\ run'[w].refresh = run[w].refresh \cup {i}
  <2>1. \A s \in run'[w].snaps : s \in run[w].snaps \/ s = Snap(w, i)
    BY <1>5
  <2>2. \A s \in run'[w].snaps : s.at = run'[w].at /\ s.no < run'[w].next
    BY <1>1, <1>2, <1>3, <2>1
  <2>3. \A j \in Id : j \in run'[w].refresh <=> \E s \in run'[w].snaps : s.machine = j
    BY <1>2, <1>3, <1>5
  <2> QED
    BY <1>3, <1>5, <2>2, <2>3
<1> QED
  BY <1>4, <1>5

LEMMA NextTInv ==
  ASSUME TInv, [Next]_vars
  PROVE  TInv'
<1>1. /\ Typed /\ clock \in 0..MaxRuns /\ clock \in Nat /\ nextId \in 1..MaxId + 1
      /\ MaxId \in Nat /\ MaxRuns \in Nat
  BY InventoryAssumption DEF TInv, Typed
<1>2. ASSUME NEW w \in Worker, NEW p \in Provisioner, Start(w, p)
      PROVE  TInv'
  <2>1. /\ UNCHANGED nextId /\ clock' = clock + 1 /\ clock' \in 0..MaxRuns
        /\ NoneSucceeds /\ Private(w) /\ Began(w, p)
    BY <1>2, StartStep
  <2>2. run'[w] \in Session /\ Coherent(w)'
    BY <1>1, <2>1 DEF Began, Coherent, Open
  <2> QED
    BY <1>1, <2>1, <2>2, PrivateTInv
<1>3. ASSUME NEW w \in Worker, Update(w)
      PROVE  TInv'
  <2>1. PICK i \in Found(w) : Took(w, i)
    BY <1>3, UpdateStep
  <2>2. Private(w) /\ UNCHANGED <<provisioner, nextId, clock>>
    BY <1>3, UpdateStep
  <2>3. Coherent(w) /\ Open(w) /\ i \in Id /\ run[w].next \in Nat
    BY <1>1, <2>1, FoundType, SessionFields DEF TInv, Took, Open
  <2>4. /\ \A j \in Id : j \in run'[w].refresh <=> \E s \in run'[w].snaps : s.machine = j
        /\ run'[w].refresh \subseteq DOMAIN run'[w].obj
        /\ \A s \in run'[w].snaps : s.at = run'[w].at /\ s.no < run'[w].next
    BY <2>1, <2>3, SnapsCohere DEF Took
  <2>5. Coherent(w)'
    BY <2>1, <2>2, <2>3, <2>4 DEF Coherent, Took, Kept, Open
  <2> QED
    BY <1>1, <2>1, <2>2, <2>5, PrivateTInv, NoneSucceedsAtRest DEF Took
<1>4. ASSUME NEW w \in Worker, Miss(w)
      PROVE  TInv'
  <2>1. Private(w) /\ UNCHANGED <<provisioner, nextId, clock>> /\ Overlooked(w)
    BY <1>4, MissStep
  <2>2. Coherent(w)'
    BY <2>1 DEF TInv, Coherent, Overlooked, Kept, Open
  <2> QED
    BY <1>1, <2>1, <2>2, PrivateTInv, NoneSucceedsAtRest DEF Overlooked
<1>5. ASSUME NEW w \in Worker, Insert(w)
      PROVE  TInv'
  <2>1. Private(w) /\ UNCHANGED <<provisioner, clock>> /\ Added(w)
    BY <1>5, InsertStep
  <2>2. Coherent(w) /\ Open(w) /\ run[w].next \in Nat /\ nextId' \in 1..MaxId + 1
    BY <1>1, <2>1, SessionFields DEF TInv, Added, Open, Id
  <2>3. /\ \A j \in Id : j \in run'[w].refresh <=> \E s \in run'[w].snaps : s.machine = j
        /\ run'[w].refresh \subseteq DOMAIN run'[w].obj
        /\ \A s \in run'[w].snaps : s.at = run'[w].at /\ s.no < run'[w].next
    BY <2>1, <2>2, SnapsCohere DEF Added
  <2>4. DOMAIN run'[w].written \subseteq DOMAIN run'[w].base
    BY <2>1, <2>2 DEF Coherent, Added, Dirty
  <2>5. Coherent(w)'
    BY <2>1, <2>2, <2>3, <2>4 DEF Coherent, Added, Kept, Open
  <2> QED
    BY <1>1, <2>1, <2>2, <2>5, PrivateTInv, NoneSucceedsAtRest DEF Added
<1>6. ASSUME NEW w \in Worker, Reject(w) \/ Fail(w) \/ Crash(w) \/ StartFails(w)
      PROVE  TInv'
  <2>1. /\ Private(w) /\ UNCHANGED <<nextId, clock>> /\ NoneSucceeds
        /\ run'[w] = Idle
    BY <1>6, EndStep
  <2>2. Coherent(w)'
    BY <2>1, IdleType DEF Coherent, Open
  <2> QED
    BY <1>1, <2>1, <2>2, PrivateTInv, IdleType
<1>7. ASSUME NEW w \in Worker, Commit(w)
      PROVE  TInv'
  <2>1. /\ UNCHANGED <<nextId, clock>> /\ run' = [x \in Worker |-> run'[x]] /\ Publishes(w)
        /\ provisioner' \in [Provisioner -> ProvisionerRow \cup {None}]
    BY <1>7, CommitStep
  <2>2. \A x \in Worker : run'[x] \in Session /\ Coherent(x)'
    <3>1. run'[w] \in Session /\ Coherent(w)'
      BY <2>1, IdleType DEF Publishes, Coherent, Open
    <3>2. ASSUME NEW x \in Worker \ {w} PROVE run'[x] \in Session /\ Coherent(x)'
      <4>1. Told(x, Touched(w))
        BY <2>1 DEF Publishes
      <4> QED
        BY <2>1, <4>1, ToldCoherent DEF Told
    <3> QED
      BY <3>1, <3>2
  <2>3. Typed'
    <3>1. run' \in [Worker -> Session]
      BY <2>1, <2>2
    <3>2. history' \subseteq Snapshot
      BY <1>1, <2>1, SessionFields DEF Publishes, Typed
    <3> QED
      BY <1>1, <2>1, <3>1, <3>2 DEF Typed, Publishes
  <2>4. HistoryIsOfLive'
    <3>1. Coherent(w) /\ Open(w)
      BY <2>1 DEF TInv, Publishes, Open
    <3>2. \A i \in Live : machine'[i] # None
      <4>1. \A i \in Dirty(w) : Flushed(w)[i] \in Row
        BY <1>1, <2>1, <3>1, NoConflict, FlushedType DEF Publishes
      <4>2. \A i \in Live : View(w)[i] # None
        BY <1>1, ViewType DEF Live
      <4> QED
        BY <2>1, <4>1, <4>2, InventoryAssumption DEF Publishes, Live
    <3>3. \A i \in Touched(w) : i \in Id /\ machine'[i] # None
      <4>1. \A i \in Touched(w) : i \in Id
        BY <1>1, <2>1, SessionFields DEF Publishes
      <4>2. \A i \in Dirty(w) : Flushed(w)[i] \in Row
        BY <1>1, <2>1, <3>1, NoConflict, FlushedType DEF Publishes
      <4>3. \A i \in run[w].refresh : View(w)[i] # None
        <5>1. \A s \in run[w].snaps : View(w)[s.machine] # None
          BY <2>1, NoConflict DEF Publishes
        <5> QED
          BY <1>1, <3>1, <5>1, SessionFields DEF Coherent
      <4>4. \A i \in DOMAIN run[w].written : View(w)[i] # None
        BY <1>1, ViewType
      <4> QED
        BY <2>1, <4>1, <4>2, <4>3, <4>4, InventoryAssumption DEF Publishes, Touched, Updated
    <3> QED
      BY <2>1, <3>2, <3>3 DEF TInv, HistoryIsOfLive, Publishes, Live
  <2> QED
    BY <2>2, <2>3, <2>4 DEF TInv
<1>8. ASSUME NEW ids, ids \subseteq Live, Remove(ids)
      PROVE  TInv'
  <2>1. UNCHANGED <<provisioner, nextId, clock>> /\ run' = [x \in Worker |-> run'[x]] /\ Removes(ids)
    BY <1>8, RemoveStep
  <2>2. \A x \in Worker : run'[x] \in Session /\ Coherent(x)'
    BY <2>1, ToldCoherent DEF Removes, Told
  <2>3. Typed'
    BY <1>1, <2>1, <2>2 DEF Removes, Typed
  <2>4. HistoryIsOfLive'
    BY <2>1 DEF TInv, HistoryIsOfLive, Removes, Live
  <2> QED
    BY <2>2, <2>3, <2>4 DEF TInv
<1>9. ASSUME NEW p \in Provisioner, DeleteProvisioner(p)
      PROVE  TInv'
  <2> DEFINE ids == {i \in Live : machine[i].prov = p}
  <2>1. UNCHANGED <<nextId, clock>> /\ NoneSucceeds /\ run' = [x \in Worker |-> run'[x]] /\ Releases(ids)
    BY <1>9, ReleaseStep
  <2> HIDE DEF ids
  <2>2. \A x \in Worker : run'[x] \in Session /\ Coherent(x)'
    BY <2>1, ToldCoherent DEF Releases, Told
  <2>3. Typed'
    BY <1>1, <2>1, <2>2 DEF Releases, Typed, NoneSucceeds
  <2>4. HistoryIsOfLive'
    BY <2>1 DEF TInv, HistoryIsOfLive, Releases, Live
  <2> QED
    BY <2>2, <2>3, <2>4 DEF TInv
<1>10. ASSUME UNCHANGED <<provisioner, machine, history, optimized, run, nextId, clock, raced>>,
              stale' = stale \/ stale' = Live
       PROVE  TInv'
  <2>1. Typed' /\ HistoryIsOfLive'
    BY <1>1, <1>10 DEF TInv, Typed, HistoryIsOfLive, Live
  <2>2. \A w \in Worker : Coherent(w)'
    BY <1>1, <1>10, SameCoherent
  <2> QED
    BY <2>1, <2>2 DEF TInv
<1>11. PurgeStaleMachines => TInv'
  BY <1>8 DEF PurgeStaleMachines, TInv, HistoryIsOfLive
<1>12. \A i \in Id : DeleteMachine(i) => TInv'
  BY <1>8 DEF DeleteMachine
<1>13. RetentionPasses => TInv'
  BY <1>10 DEF RetentionPasses
<1>14. UNCHANGED vars => TInv'
  BY <1>10 DEF vars
<1>15. ASSUME NEW w \in Worker, Enter(w)
       PROVE  TInv'
  <2>1. /\ Private(w) /\ UNCHANGED <<nextId, clock>> /\ NoneSucceeds
        /\ Open(w) /\ (Entered(w) \/ run'[w] = Idle)
    BY <1>15, EnterStep
  <2>2. run'[w] \in Session /\ Coherent(w)'
    <3>1. Coherent(w)
      BY DEF TInv
    <3>2. CASE Entered(w)
      <4>1. run'[w].report \in Seq(Record)
        BY <3>2 DEF Entered, Session, Reports
      <4> QED
        BY <2>1, <3>1, <3>2, <4>1 DEF Coherent, Entered, Open
    <3>3. CASE run'[w] = Idle
      BY <3>3, IdleType DEF Coherent, Open
    <3> QED
      BY <2>1, <3>2, <3>3
  <2> QED
    BY <1>1, <2>1, <2>2, PrivateTInv
<1> QED
  BY <1>2, <1>3, <1>4, <1>5, <1>6, <1>7, <1>9, <1>11, <1>12, <1>13, <1>14, <1>15 DEF Next

(* A session holds its objects, its locks and its snapshots together, and nothing is *)
(* said of a machine that has no row (run_provisioner_inventory, purge_stale_machines, *)
(* delete_machine).                                                                  *)
THEOREM TypedInvariant == Spec => []TInv
<1>1. Init => TInv
  BY InitTInv
<1>2. TInv /\ [Next]_vars => TInv'
  BY NextTInv
<1> QED
  BY <1>1, <1>2, PTL DEF Spec

LEMMA TInvTypeOK == TInv => TypeOK
<1> SUFFICES ASSUME TInv PROVE TypeOK
  OBVIOUS
<1>1. Typed /\ HistoryIsOfLive /\ \A w \in Worker : Coherent(w)
  BY DEF TInv
<1>2. ASSUME NEW w \in Worker
      PROVE  /\ run[w].pc \in {"idle", "begun", "records", "insert"}
             /\ run[w].error \in {"none", "failed"}
             /\ run[w].next \in 1..Len(run[w].report) + 1
             /\ run[w].obj \in [DOMAIN run[w].base -> Row]
             /\ DOMAIN run[w].written \subseteq DOMAIN run[w].base
  <2>1. run[w].next \in 1..Len(run[w].report) + 1
    BY <1>1, SessionFields, IdleType DEF Coherent
  <2> QED
    BY <1>1, <2>1, SessionFields DEF Coherent, Errors
<1>3. \A p \in Provisioner : provisioner[p] = None \/ provisioner[p] \in ProvisionerRow
  BY <1>1 DEF Typed
<1> QED
  BY <1>1, <1>2, <1>3 DEF Typed, HistoryIsOfLive, TypeOK, ProvisionerRow, Errors

(* Every row and every session has its type; a session has locked only rows that it *)
(* has loaded (inventory.py).                                                       *)
THEOREM TypeCorrect == Spec => []TypeOK
  BY TypedInvariant, TInvTypeOK, PTL

-----------------------------------------------------------------------------
(* Every step is one of ten that the invariants below tell apart. *)

Starting(w, p) ==
  /\ UNCHANGED nextId /\ clock' = clock + 1 /\ NoneSucceeds
  /\ Private(w) /\ Began(w, p)
Entering(w) == Private(w) /\ UNCHANGED <<nextId, clock>> /\ NoneSucceeds /\ Open(w) /\ Entered(w)
Taking(w) ==
  /\ Private(w) /\ UNCHANGED <<provisioner, nextId, clock>>
  /\ \E i \in Found(w) : Took(w, i)
Overlooking(w) == Private(w) /\ UNCHANGED <<provisioner, nextId, clock>> /\ Overlooked(w)
Adding(w) == Private(w) /\ UNCHANGED <<provisioner, clock>> /\ Added(w)
Ending(w) == Private(w) /\ UNCHANGED <<nextId, clock>> /\ NoneSucceeds /\ Open(w) /\ run'[w] = Idle
Publishing(w) ==
  /\ UNCHANGED <<nextId, clock>> /\ Publishes(w)
  /\ \A q \in Provisioner : provisioner'[q] # None =>
       /\ provisioner[q] # None
       /\ provisioner'[q].lastSuccess = IF q = run[w].prov THEN run[w].at ELSE provisioner[q].lastSuccess
Removing(ids) == UNCHANGED <<provisioner, nextId, clock>> /\ Removes(ids)
Releasing(ids) == UNCHANGED <<nextId, clock>> /\ NoneSucceeds /\ Releases(ids)
Resting == UNCHANGED <<provisioner, machine, history, optimized, run, nextId, clock, raced>>

LEMMA Steps ==
  ASSUME TInv, [Next]_vars
  PROVE  \/ \E w \in Worker, p \in Provisioner : Starting(w, p)
         \/ \E w \in Worker : \/ Entering(w) \/ Taking(w) \/ Overlooking(w) \/ Adding(w)
                              \/ Ending(w) \/ Publishing(w)
         \/ \E ids \in SUBSET Id : Removing(ids) \/ Releasing(ids)
         \/ Resting
<1>1. ASSUME NEW w \in Worker, NEW p \in Provisioner, Start(w, p)
      PROVE  Starting(w, p)
  BY <1>1, StartStep DEF Starting
<1>2. ASSUME NEW w \in Worker, Update(w)
      PROVE  Taking(w)
  BY <1>2, UpdateStep DEF Taking
<1>3. ASSUME NEW w \in Worker, Miss(w)
      PROVE  Overlooking(w)
  BY <1>3, MissStep DEF Overlooking
<1>4. ASSUME NEW w \in Worker, Insert(w)
      PROVE  Adding(w)
  BY <1>4, InsertStep DEF Adding
<1>5. ASSUME NEW w \in Worker, Reject(w) \/ Fail(w) \/ Crash(w) \/ StartFails(w)
      PROVE  Ending(w)
  BY <1>5, EndStep DEF Ending
<1>6. ASSUME NEW w \in Worker, Commit(w)
      PROVE  Publishing(w)
  BY <1>6, CommitStep DEF Publishing
<1>7. ASSUME NEW ids, ids \subseteq Live, Remove(ids)
      PROVE  ids \in SUBSET Id /\ Removing(ids)
  BY <1>7, RemoveStep DEF Removing, Live
<1>8. ASSUME NEW p \in Provisioner, DeleteProvisioner(p)
      PROVE  \E ids \in SUBSET Id : Releasing(ids)
  <2> DEFINE ids == {i \in Live : machine[i].prov = p}
  <2>1. ids \in SUBSET Id
    BY DEF Live
  <2>2. Releasing(ids)
    BY <1>8, ReleaseStep DEF Releasing
  <2> QED
    BY <2>1, <2>2
<1>9. PurgeStaleMachines => \E ids \in SUBSET Id : Removing(ids)
  BY <1>7 DEF PurgeStaleMachines, TInv, HistoryIsOfLive
<1>10. \A i \in Id : DeleteMachine(i) => \E ids \in SUBSET Id : Removing(ids)
  <2> TAKE i \in Id
  <2>1. DeleteMachine(i) => {i} \subseteq Live /\ Remove({i})
    BY DEF DeleteMachine
  <2> QED
    BY <1>7, <2>1
<1>11. RetentionPasses \/ UNCHANGED vars => Resting
  BY DEF RetentionPasses, vars, Resting
<1>12. ASSUME NEW w \in Worker, Enter(w)
       PROVE  Entering(w) \/ Ending(w)
  BY <1>12, EnterStep DEF Entering, Ending
<1> QED
  BY <1>1, <1>2, <1>3, <1>4, <1>5, <1>6, <1>8, <1>9, <1>10, <1>11, <1>12 DEF Next

-----------------------------------------------------------------------------
(* Ids and locks *)

(* No id is given twice. *)
IdsAreOld ==
  /\ \A i \in Id : machine[i] # None => i < nextId
  /\ \A w \in Worker : \A i \in DOMAIN run[w].base : i < nextId

(* Two sessions have not written the same row; a row that only one session sees is *)
(* one it has inserted.                                                            *)
LocksAreExclusive ==
  \A w \in Worker : \A x \in Worker \ {w} : DOMAIN run[w].written \cap DOMAIN run[x].written = {}

NewRowsAreOwn ==
  \A w \in Worker : \A i \in DOMAIN run[w].written : machine[i] = None =>
    i \in run[w].refresh /\ \A x \in Worker \ {w} : i \notin DOMAIN run[x].base

OwnInv == IdsAreOld /\ LocksAreExclusive /\ NewRowsAreOwn

(* An update or an insert flushes rows that no other session has locked. *)
LEMMA FlushIsFree ==
  ASSUME NEW w \in Worker, NEW rows, ~Blocked(w, rows), NEW x \in Worker \ {w}
  PROVE  /\ DOMAIN run[x].written \cap Dirty(w) = {}
         /\ \A k \in DOMAIN run[x].written, r \in rows :
              ~Collide(r, run[x].written[k]) /\ (machine[k] # None => ~Collide(r, machine[k]))
  BY DEF Blocked, BlockedBy

LEMMA PrivateFields ==
  ASSUME NEW w \in Worker, Private(w), NEW x \in Worker \ {w}
  PROVE  run'[x] = run[x]
  BY DEF Private

LEMMA TakingOwn ==
  ASSUME TInv, OwnInv, NEW w \in Worker, Taking(w)
  PROVE  OwnInv'
<1>1. PICK i \in Found(w) : Took(w, i)
  BY DEF Taking
<1>2. Typed /\ Coherent(w) /\ UNCHANGED <<machine, nextId>> /\ \A x \in Worker \ {w} : run'[x] = run[x]
  BY DEF TInv, Taking, Private, Tables
<1>3. i \in Id /\ View(w)[i] # None
  BY <1>2, FoundType
<1>4. DOMAIN run'[w].base = DOMAIN run[w].base \cup {i} /\ run'[w].written = run[w].written
      /\ run[w].refresh \subseteq run'[w].refresh
  BY <1>1 DEF Took
<1>5. i \notin DOMAIN run[w].written => machine[i] # None
  BY <1>2, <1>3, ViewType
<1>6. i < nextId
  BY <1>2, <1>3, <1>5 DEF OwnInv, IdsAreOld, Coherent
<1>7. IdsAreOld'
  BY <1>2, <1>4, <1>6 DEF OwnInv, IdsAreOld
<1>8. LocksAreExclusive'
  BY <1>2, <1>4 DEF OwnInv, LocksAreExclusive
<1>9. NewRowsAreOwn'
  BY <1>2, <1>4, <1>5 DEF OwnInv, LocksAreExclusive, NewRowsAreOwn
<1> QED
  BY <1>7, <1>8, <1>9 DEF OwnInv

LEMMA AddingOwn ==
  ASSUME TInv, OwnInv, NEW w \in Worker, Adding(w)
  PROVE  OwnInv'
<1>1. Typed /\ Coherent(w) /\ UNCHANGED machine /\ \A x \in Worker \ {w} : run'[x] = run[x]
  BY DEF TInv, Adding, Private, Tables
<1>2. /\ nextId' = nextId + 1 /\ nextId \in Id /\ nextId \in Nat
      /\ ~InsertConflict(w) /\ ~Blocked(w, FlushedRows(w) \cup {Inserted(w)})
      /\ DOMAIN run'[w].base = DOMAIN run[w].base \cup {nextId}
      /\ DOMAIN run'[w].written = DOMAIN run[w].written \cup Dirty(w) \cup {nextId}
      /\ run'[w].refresh = run[w].refresh \cup {nextId}
  BY DEF Adding, Added, Id
<1>3. \A x \in Worker \ {w} : DOMAIN run[x].written \cap Dirty(w) = {}
  BY <1>2, FlushIsFree
<1>4. \A x \in Worker : \A i \in DOMAIN run[x].base : i \in Nat /\ i < nextId
  BY <1>1, SessionFields DEF OwnInv, IdsAreOld, Id
<1>5. \A x \in Worker : nextId \notin DOMAIN run[x].base /\ nextId \notin DOMAIN run[x].written
  BY <1>2, <1>4 DEF TInv, Coherent
<1>6. IdsAreOld'
  <2>1. \A i \in Id : i \in Nat
    BY DEF Id
  <2> QED
    BY <1>1, <1>2, <1>4, <2>1 DEF OwnInv, IdsAreOld
<1>7. LocksAreExclusive'
  BY <1>1, <1>2, <1>3, <1>5 DEF OwnInv, LocksAreExclusive
<1>8. NewRowsAreOwn'
  <2>1. \A i \in Dirty(w) : View(w)[i] # None /\ i \in Id
    BY <1>1, <1>2, NoConflict, FlushedType DEF InsertConflict
  <2>2. \A i \in Dirty(w) : machine[i] = None => i \in DOMAIN run[w].written
    BY <1>1, <2>1, ViewType
  <2>3. \A i \in DOMAIN run'[w].written : machine[i] = None =>
          i \in run'[w].refresh /\ \A x \in Worker \ {w} : i \notin DOMAIN run'[x].base
    BY <1>1, <1>2, <1>5, <2>2 DEF OwnInv, NewRowsAreOwn
  <2>4. \A x \in Worker \ {w} : \A i \in DOMAIN run'[x].written : machine[i] = None =>
          i \in run'[x].refresh /\ \A y \in Worker \ {x} : i \notin DOMAIN run'[y].base
    BY <1>1, <1>2, <1>5 DEF OwnInv, NewRowsAreOwn
  <2> QED
    BY <1>1, <2>3, <2>4 DEF NewRowsAreOwn
<1> QED
  BY <1>6, <1>7, <1>8 DEF OwnInv

(* Rows of a commit that another session has not seen, and rows that stay *)
LEMMA CommittedRows ==
  ASSUME TInv, NEW w \in Worker, Publishing(w)
  PROVE  /\ \A i \in Id : machine[i] # None => machine'[i] # None
         /\ \A i \in Id : machine'[i] # None /\ machine[i] = None => i \in DOMAIN run[w].written
         /\ \A i \in Id \ Updated(w) : machine'[i] = machine[i]
         /\ \A i \in Updated(w) : i \in Id /\ machine'[i] # None
<1>1. Typed /\ Coherent(w) /\ ~Conflict(w)
  BY DEF TInv, Publishing, Publishes
<1>2. \A i \in Id : machine'[i] = IF i \in Dirty(w) THEN Flushed(w)[i] ELSE View(w)[i]
  BY DEF Publishing, Publishes
<1>3. \A i \in Dirty(w) : i \in Id /\ Flushed(w)[i] \in Row /\ View(w)[i] # None
  BY <1>1, NoConflict, FlushedType
<1>4. \A i \in DOMAIN run[w].written : i \in Id /\ View(w)[i] # None
  BY <1>1, ViewType, SessionFields
<1> QED
  BY <1>1, <1>2, <1>3, <1>4, ViewType, InventoryAssumption DEF Updated

LEMMA OwnInvariance == TInv /\ OwnInv /\ [Next]_vars => OwnInv'
<1> SUFFICES ASSUME TInv, OwnInv, [Next]_vars PROVE OwnInv'
  OBVIOUS
<1>1. ASSUME NEW w \in Worker, Private(w), nextId' = nextId,
             \/ DOMAIN run'[w].base = {} /\ DOMAIN run'[w].written = {}
             \/ run'[w].base = run[w].base /\ run'[w].written = run[w].written /\ run'[w].refresh = run[w].refresh
      PROVE  OwnInv'
  <2>1. UNCHANGED <<machine, nextId>> /\ \A x \in Worker \ {w} : run'[x] = run[x]
    BY <1>1 DEF Private, Tables
  <2>2. IdsAreOld'
    BY <1>1, <2>1 DEF OwnInv, IdsAreOld
  <2>3. LocksAreExclusive'
    BY <1>1, <2>1 DEF OwnInv, LocksAreExclusive
  <2>4. NewRowsAreOwn'
    BY <1>1, <2>1 DEF OwnInv, NewRowsAreOwn
  <2> QED
    BY <2>2, <2>3, <2>4 DEF OwnInv
<1>2. ASSUME NEW ids, \A x \in Worker : Told(x, ids) /\ DOMAIN run[x].written \cap ids = {},
             nextId' = nextId, \A i \in Id \ ids : machine'[i] = machine[i],
             \A i \in ids : machine[i] # None
      PROVE  OwnInv'
  <2>1. \A x \in Worker : run'[x].base = run[x].base /\ run'[x].written = run[x].written
                          /\ run'[x].refresh = run[x].refresh /\ DOMAIN run[x].written \subseteq Id
    BY <1>2, SessionFields DEF Told, TInv
  <2>2. IdsAreOld'
    BY <1>2, <2>1 DEF OwnInv, IdsAreOld
  <2>3. LocksAreExclusive'
    BY <2>1 DEF OwnInv, LocksAreExclusive
  <2>4. NewRowsAreOwn'
    BY <1>2, <2>1 DEF OwnInv, NewRowsAreOwn
  <2> QED
    BY <2>2, <2>3, <2>4 DEF OwnInv
<1>3. ASSUME NEW w \in Worker, NEW p \in Provisioner, Starting(w, p)
      PROVE  OwnInv'
  BY <1>1, <1>3 DEF Starting, Began
<1>4. ASSUME NEW w \in Worker, Publishing(w)
      PROVE  OwnInv'
  <2>1. /\ \A x \in Worker \ {w} : Told(x, Touched(w))
        /\ DOMAIN run'[w].base = {} /\ DOMAIN run'[w].written = {} /\ nextId' = nextId
    BY <1>4, IdleType DEF Publishing, Publishes
  <2>2. \A x \in Worker \ {w} : run'[x].base = run[x].base /\ run'[x].written = run[x].written
                                /\ run'[x].refresh = run[x].refresh /\ DOMAIN run[x].written \subseteq Id
    BY <2>1, SessionFields DEF Told, TInv
  <2>3. IdsAreOld'
    <3>1. \A i \in DOMAIN run[w].written : i < nextId
      BY DEF TInv, Coherent, OwnInv, IdsAreOld
    <3> QED
      BY <1>4, <2>1, <2>2, <3>1, CommittedRows DEF OwnInv, IdsAreOld
  <2>4. LocksAreExclusive'
    BY <2>1, <2>2 DEF OwnInv, LocksAreExclusive
  <2>5. NewRowsAreOwn'
    BY <1>4, <2>1, <2>2, CommittedRows DEF OwnInv, NewRowsAreOwn
  <2> QED
    BY <2>3, <2>4, <2>5 DEF OwnInv
<1>5. ASSUME NEW ids \in SUBSET Id, Removing(ids) \/ Releasing(ids)
      PROVE  OwnInv'
  BY <1>2, <1>5 DEF Removing, Releasing, Removes, Releases, Live
<1>6. ASSUME NEW w \in Worker, Overlooking(w) \/ Ending(w) \/ Entering(w)
      PROVE  OwnInv'
  BY <1>1, <1>6, IdleType DEF Overlooking, Overlooked, Ending, Entering, Entered
<1>7. Resting => OwnInv'
  BY DEF Resting, OwnInv, IdsAreOld, LocksAreExclusive, NewRowsAreOwn
<1> QED
  BY <1>3, <1>4, <1>5, <1>6, <1>7, TakingOwn, AddingOwn, Steps

-----------------------------------------------------------------------------
(* Every capacity is in the history *)

Seen(w) == history \cup run[w].snaps
Shown(hs, i, c, v) == \E h \in hs : h.machine = i /\ h.flavor[c] = v

(* What a session may still write shows in the history or in its own snapshots. *)
ObjectsAreShown ==
  \A w \in Worker : \A i \in DOMAIN run[w].obj : View(w)[i] # None =>
    \A c \in Resource :
      /\ Shown(Seen(w), i, c, run[w].obj[i].flavor[c])
      /\ i \in DOMAIN run[w].written => Shown(Seen(w), i, c, run[w].written[i].flavor[c])

ShownInv == ValuesAreRecorded /\ ObjectsAreShown

LEMMA FlushedShown ==
  ASSUME TInv, ShownInv, NEW w \in Worker, ~Conflict(w), NEW i \in Dirty(w), NEW c \in Resource
  PROVE  Shown(Seen(w), i, c, Flushed(w)[i].flavor[c])
<1>1. Typed /\ Coherent(w)
  BY DEF TInv
<1>2. /\ i \in Id /\ i \in DOMAIN run[w].obj
      /\ Flushed(w)[i] = Write(run[w].base[i], run[w].obj[i], View(w)[i])
      /\ run[w].base[i] \in Row /\ run[w].obj[i] \in Row
  BY <1>1, FlushedType
<1>3. View(w)[i] # None /\ View(w)[i] \in Row
  BY <1>1, <1>2, NoConflict, ViewType
<1>4. Flushed(w)[i].flavor[c] \in {run[w].obj[i].flavor[c], View(w)[i].flavor[c]}
  BY <1>2, <1>3, WriteType
<1>5. Shown(Seen(w), i, c, run[w].obj[i].flavor[c])
  BY <1>2, <1>3 DEF ShownInv, ObjectsAreShown
<1>6. Shown(Seen(w), i, c, View(w)[i].flavor[c])
  <2>1. CASE i \in DOMAIN run[w].written
    BY <1>1, <1>2, <1>3, <2>1, ViewType DEF ShownInv, ObjectsAreShown
  <2>2. CASE i \notin DOMAIN run[w].written
    <3>1. i \in Live /\ View(w)[i] = machine[i]
      BY <1>1, <1>2, <1>3, <2>2, ViewType DEF Live
    <3> QED
      BY <3>1 DEF ShownInv, ValuesAreRecorded, Shown, Seen
  <2> QED
    BY <2>1, <2>2
<1> QED
  BY <1>4, <1>5, <1>6

(* Sessions that a step leaves alone, together with the tables *)
LEMMA SameShown ==
  ASSUME ShownInv, UNCHANGED <<machine, history>>, NEW x \in Worker, run'[x] = run[x],
         NEW i \in DOMAIN run'[x].obj, View(x)'[i] # None, NEW c \in Resource
  PROVE  /\ Shown(Seen(x)', i, c, run'[x].obj[i].flavor[c])
         /\ i \in DOMAIN run'[x].written => Shown(Seen(x)', i, c, run'[x].written[i].flavor[c])
<1>1. View(x)' = View(x)
  BY DEF View
<1> QED
  BY <1>1 DEF ShownInv, ObjectsAreShown, Shown, Seen

LEMMA TakingShown ==
  ASSUME TInv, ShownInv, NEW w \in Worker, Taking(w)
  PROVE  ShownInv'
<1>1. PICK i \in Found(w) : Took(w, i)
  BY DEF Taking
<1>2. /\ Typed /\ Coherent(w) /\ Open(w) /\ UNCHANGED <<machine, history>>
      /\ \A x \in Worker \ {w} : run'[x] = run[x]
  BY <1>1 DEF TInv, Taking, Private, Tables, Took, Open
<1>3. i \in Id /\ View(w)[i] # None /\ View(w)[i] \in Row
  BY <1>2, FoundType
<1>4. /\ DOMAIN run'[w].obj = DOMAIN run[w].obj \cup {i} /\ run'[w].obj[i].flavor = Current(w).flavor
      /\ \A j \in DOMAIN run[w].obj \ {i} : run'[w].obj[j] = run[w].obj[j]
      /\ run'[w].written = run[w].written /\ run[w].snaps \subseteq run'[w].snaps
  BY <1>1, <1>2, CurrentType DEF Took
<1>5. View(w)' = View(w)
  BY <1>2, <1>4 DEF View
<1>6. \A j, c, v : Shown(Seen(w), j, c, v) => Shown(Seen(w)', j, c, v)
  BY <1>2, <1>4 DEF Shown, Seen
<1>7. ASSUME NEW c \in Resource
      PROVE  Shown(Seen(w)', i, c, Current(w).flavor[c])
  <2> DEFINE object == IF i \in DOMAIN run[w].obj THEN run[w].obj[i] ELSE View(w)[i]
  <2>1. CASE object.flavor # Current(w).flavor
    <3>1. run'[w].snaps = run[w].snaps \cup {Snap(w, i)}
      BY <1>1, <2>1 DEF Took
    <3>2. Snap(w, i).machine = i /\ Snap(w, i).flavor = Current(w).flavor
      BY DEF Snap
    <3> QED
      BY <3>1, <3>2 DEF Shown, Seen
  <2>2. CASE object.flavor = Current(w).flavor /\ i \in DOMAIN run[w].obj
    BY <1>3, <1>6, <2>2 DEF ShownInv, ObjectsAreShown
  <2>3. CASE object.flavor = Current(w).flavor /\ i \notin DOMAIN run[w].obj
    <3>1. i \in Live /\ View(w)[i] = machine[i]
      BY <1>2, <1>3, <2>3, ViewType DEF Coherent, Live
    <3>2. Shown(Seen(w), i, c, Current(w).flavor[c])
      BY <2>3, <3>1 DEF ShownInv, ValuesAreRecorded, Shown, Seen
    <3> QED
      BY <1>6, <3>2
  <2> QED
    BY <2>1, <2>2, <2>3
<1>8. ASSUME NEW j \in DOMAIN run'[w].obj, View(w)'[j] # None, NEW c \in Resource
      PROVE  /\ Shown(Seen(w)', j, c, run'[w].obj[j].flavor[c])
             /\ j \in DOMAIN run'[w].written => Shown(Seen(w)', j, c, run'[w].written[j].flavor[c])
  <2>1. CASE j = i
    <3>1. i \in DOMAIN run[w].written => i \in DOMAIN run[w].obj
      BY <1>2 DEF Coherent
    <3> QED
      BY <1>3, <1>4, <1>5, <1>6, <1>7, <2>1, <3>1 DEF ShownInv, ObjectsAreShown
  <2>2. CASE j # i
    BY <1>4, <1>5, <1>6, <1>8, <2>2 DEF ShownInv, ObjectsAreShown
  <2> QED
    BY <2>1, <2>2
<1>9. ObjectsAreShown'
  BY <1>2, <1>8, SameShown DEF ObjectsAreShown
<1>10. ValuesAreRecorded'
  BY <1>2 DEF ShownInv, ValuesAreRecorded, Live
<1> QED
  BY <1>9, <1>10 DEF ShownInv

LEMMA AddingShown ==
  ASSUME TInv, OwnInv, ShownInv, NEW w \in Worker, Adding(w)
  PROVE  ShownInv'
<1>1. /\ Typed /\ Coherent(w) /\ Open(w) /\ UNCHANGED <<machine, history>>
      /\ \A x \in Worker \ {w} : run'[x] = run[x]
  BY DEF TInv, Adding, Private, Tables, Added, Open
<1>2. /\ run[w].next <= Len(run[w].report) /\ nextId \in Id /\ ~Conflict(w)
      /\ DOMAIN run'[w].obj = DOMAIN run[w].obj \cup {nextId} /\ run'[w].obj[nextId] = Inserted(w)
      /\ \A j \in DOMAIN run[w].obj \ {nextId} : run'[w].obj[j] = run[w].obj[j]
      /\ DOMAIN run'[w].written = DOMAIN run[w].written \cup Dirty(w) \cup {nextId}
      /\ run'[w].written[nextId] = Inserted(w)
      /\ \A j \in Dirty(w) \ {nextId} : run'[w].written[j] = Flushed(w)[j]
      /\ \A j \in DOMAIN run[w].written \ (Dirty(w) \cup {nextId}) : run'[w].written[j] = run[w].written[j]
      /\ run'[w].snaps = run[w].snaps \cup {Snap(w, nextId)}
  BY DEF Adding, Added, InsertConflict
<1>3. \A j, c, v : Shown(Seen(w), j, c, v) => Shown(Seen(w)', j, c, v)
  BY <1>1, <1>2 DEF Shown, Seen
<1>4. \A c \in Resource : Shown(Seen(w)', nextId, c, Inserted(w).flavor[c])
  <2>1. Snap(w, nextId).machine = nextId /\ Snap(w, nextId).flavor = Inserted(w).flavor
    BY <1>1, <1>2, CurrentType DEF Snap, Inserted
  <2> QED
    BY <1>2, <2>1 DEF Shown, Seen
<1>5. \A j \in Dirty(w) : View(w)[j] # None /\ j \in Id
  BY <1>1, <1>2, NoConflict, FlushedType
<1>6. \A j \in Id \ {nextId} : View(w)'[j] # None => View(w)[j] # None
  <2>1. \A j \in Id : j \notin DOMAIN run'[w].written => View(w)'[j] = machine[j]
    BY <1>1 DEF View
  <2>2. \A j \in Id : j \notin DOMAIN run[w].written => View(w)[j] = machine[j]
    BY <1>1, ViewType
  <2>3. \A j \in DOMAIN run[w].written : View(w)[j] # None
    BY <1>1, ViewType
  <2> QED
    BY <1>2, <1>5, <2>1, <2>2, <2>3
<1>7. ASSUME NEW j \in DOMAIN run'[w].obj, View(w)'[j] # None, NEW c \in Resource
      PROVE  /\ Shown(Seen(w)', j, c, run'[w].obj[j].flavor[c])
             /\ j \in DOMAIN run'[w].written => Shown(Seen(w)', j, c, run'[w].written[j].flavor[c])
  <2>1. CASE j = nextId
    BY <1>2, <1>4, <2>1
  <2>2. CASE j # nextId
    <3>1. j \in DOMAIN run[w].obj /\ View(w)[j] # None
      BY <1>1, <1>2, <1>6, <1>7, <2>2, SessionFields
    <3>2. Shown(Seen(w)', j, c, run'[w].obj[j].flavor[c])
      BY <1>2, <1>3, <2>2, <3>1 DEF ShownInv, ObjectsAreShown
    <3>3. j \in Dirty(w) => Shown(Seen(w), j, c, Flushed(w)[j].flavor[c])
      BY <1>2, FlushedShown
    <3>4. j \in DOMAIN run[w].written => Shown(Seen(w), j, c, run[w].written[j].flavor[c])
      BY <3>1 DEF ShownInv, ObjectsAreShown
    <3> QED
      BY <1>2, <1>3, <2>2, <3>2, <3>3, <3>4
  <2> QED
    BY <2>1, <2>2
<1>8. ObjectsAreShown'
  BY <1>1, <1>7, SameShown DEF ObjectsAreShown
<1>9. ValuesAreRecorded'
  BY <1>1 DEF ShownInv, ValuesAreRecorded, Live
<1> QED
  BY <1>8, <1>9 DEF ShownInv

LEMMA PublishingShown ==
  ASSUME TInv, OwnInv, ShownInv, NEW w \in Worker, Publishing(w)
  PROVE  ShownInv'
<1>1. /\ Typed /\ Coherent(w) /\ ~Conflict(w) /\ history' = history \cup run[w].snaps
      /\ \A i \in Id : machine'[i] = IF i \in Dirty(w) THEN Flushed(w)[i] ELSE View(w)[i]
      /\ DOMAIN run'[w].obj = {} /\ \A x \in Worker \ {w} : Told(x, Touched(w))
  BY IdleType DEF TInv, Publishing, Publishes
<1>2. ASSUME NEW i \in Live', NEW c \in Resource
      PROVE  \E h \in history' : h.machine = i /\ h.flavor[c] = machine'[i].flavor[c]
  <2>1. i \in Id /\ machine'[i] # None
    BY DEF Live
  <2>2. CASE i \in Dirty(w)
    BY <1>1, <2>1, <2>2, FlushedShown DEF Shown, Seen
  <2>3. CASE i \notin Dirty(w) /\ i \in DOMAIN run[w].written
    <3>1. machine'[i] = run[w].written[i] /\ View(w)[i] # None /\ i \in DOMAIN run[w].obj
      BY <1>1, <2>1, <2>3, ViewType DEF Coherent
    <3>2. Shown(Seen(w), i, c, run[w].written[i].flavor[c])
      BY <2>3, <3>1 DEF ShownInv, ObjectsAreShown
    <3> QED
      BY <1>1, <3>1, <3>2 DEF Shown, Seen
  <2>4. CASE i \notin Dirty(w) /\ i \notin DOMAIN run[w].written
    <3>1. machine'[i] = machine[i] /\ i \in Live
      BY <1>1, <2>1, <2>4, ViewType DEF Live
    <3> QED
      BY <1>1, <3>1 DEF ShownInv, ValuesAreRecorded
  <2> QED
    BY <2>2, <2>3, <2>4
<1>3. ASSUME NEW x \in Worker \ {w}, NEW i \in DOMAIN run'[x].obj, View(x)'[i] # None, NEW c \in Resource
      PROVE  /\ Shown(Seen(x)', i, c, run'[x].obj[i].flavor[c])
             /\ i \in DOMAIN run'[x].written => Shown(Seen(x)', i, c, run'[x].written[i].flavor[c])
  <2>1. /\ run'[x].obj = run[x].obj /\ run'[x].written = run[x].written /\ run'[x].snaps = run[x].snaps
        /\ i \in DOMAIN run[x].base /\ i \in Id
    BY <1>1, <1>3, SessionFields DEF Told, TInv, Coherent
  <2>2. View(x)[i] # None
    <3>1. CASE i \in DOMAIN run[x].written
      BY <1>1, <3>1, ViewType
    <3>2. CASE i \notin DOMAIN run[x].written
      <4>1. machine'[i] # None
        BY <1>3, <2>1, <3>2 DEF View
      <4>2. machine[i] # None
        BY <2>1, <4>1, CommittedRows DEF OwnInv, NewRowsAreOwn
      <4> QED
        BY <1>1, <2>1, <3>2, <4>2, ViewType
    <3> QED
      BY <3>1, <3>2
  <2>3. /\ Shown(Seen(x), i, c, run[x].obj[i].flavor[c])
        /\ i \in DOMAIN run[x].written => Shown(Seen(x), i, c, run[x].written[i].flavor[c])
    BY <1>3, <2>1, <2>2 DEF ShownInv, ObjectsAreShown
  <2> QED
    BY <1>1, <2>1, <2>3 DEF Shown, Seen
<1>4. ObjectsAreShown'
  BY <1>1, <1>3 DEF ObjectsAreShown
<1> QED
  BY <1>2, <1>4 DEF ShownInv, ValuesAreRecorded

(* Rows that go take their history with them; no session has written them. *)
LEMMA RemovingShown ==
  ASSUME TInv, ShownInv, NEW ids \in SUBSET Id, Removing(ids) \/ Releasing(ids)
  PROVE  ShownInv'
<1>1. /\ Typed
      /\ \A x \in Worker : DOMAIN run[x].written \cap ids = {} /\ Told(x, ids)
      /\ \A i \in Id : machine'[i] # None =>
           /\ machine[i] # None /\ machine'[i].flavor = machine[i].flavor
           /\ \A h \in history : h.machine = i => h \in history'
  <2>1. Typed
    BY DEF TInv
  <2>2. CASE Removing(ids)
    BY <2>1, <2>2 DEF Removing, Removes
  <2>3. CASE Releasing(ids)
    <3>1. \A i \in ids : i \in Id /\ machine[i] # None
      BY <2>3 DEF Releasing, Releases, Live
    <3>2. \A i \in ids : machine[i] \in Row /\ machine'[i] = [machine[i] EXCEPT !.prov = None]
      BY <2>1, <2>3, <3>1 DEF Typed, Releasing, Releases
    <3>3. \A i \in ids : machine'[i].flavor = machine[i].flavor
      BY <3>2 DEF Row
    <3> QED
      BY <2>1, <2>3, <3>1, <3>3 DEF Releasing, Releases
  <2> QED
    BY <2>2, <2>3
<1>2. ValuesAreRecorded'
  BY <1>1 DEF ShownInv, ValuesAreRecorded, Live
<1>3. ASSUME NEW x \in Worker, NEW i \in DOMAIN run'[x].obj, View(x)'[i] # None, NEW c \in Resource
      PROVE  /\ Shown(Seen(x)', i, c, run'[x].obj[i].flavor[c])
             /\ i \in DOMAIN run'[x].written => Shown(Seen(x)', i, c, run'[x].written[i].flavor[c])
  <2>1. /\ run'[x].obj = run[x].obj /\ run'[x].written = run[x].written /\ run'[x].snaps = run[x].snaps
        /\ i \in DOMAIN run[x].obj /\ i \in Id
    BY <1>1, <1>3, SessionFields DEF Told
  <2>2. View(x)[i] # None /\ \A h \in history : h.machine = i => h \in history'
    <3>1. CASE i \in DOMAIN run[x].written
      <4>1. i \notin ids /\ View(x)[i] # None
        BY <1>1, <3>1, ViewType
      <4>2. \A h \in history : h.machine = i => h \in history'
        BY <4>1 DEF Removing, Removes, Releasing, Releases
      <4> QED
        BY <4>1, <4>2
    <3>2. CASE i \notin DOMAIN run[x].written
      <4>1. machine'[i] # None
        BY <1>3, <2>1, <3>2 DEF View
      <4> QED
        BY <1>1, <2>1, <3>2, <4>1, ViewType
    <3> QED
      BY <3>1, <3>2
  <2>3. /\ Shown(Seen(x), i, c, run[x].obj[i].flavor[c])
        /\ i \in DOMAIN run[x].written => Shown(Seen(x), i, c, run[x].written[i].flavor[c])
    BY <2>1, <2>2 DEF ShownInv, ObjectsAreShown
  <2> QED
    BY <2>1, <2>2, <2>3 DEF Shown, Seen
<1>4. ObjectsAreShown'
  BY <1>3 DEF ObjectsAreShown
<1> QED
  BY <1>2, <1>4 DEF ShownInv

LEMMA ShownInvariance == TInv /\ OwnInv /\ ShownInv /\ [Next]_vars => ShownInv'
<1> SUFFICES ASSUME TInv, OwnInv, ShownInv, [Next]_vars PROVE ShownInv'
  OBVIOUS
<1>1. ASSUME NEW w \in Worker, Private(w),
             \/ DOMAIN run'[w].obj = {}
             \/ /\ run'[w].obj = run[w].obj /\ run'[w].written = run[w].written
                /\ run'[w].snaps = run[w].snaps
      PROVE  ShownInv'
  <2>1. UNCHANGED <<machine, history>> /\ \A x \in Worker \ {w} : run'[x] = run[x]
    BY <1>1 DEF Private, Tables
  <2>2. ASSUME NEW i \in DOMAIN run'[w].obj, View(w)'[i] # None, NEW c \in Resource
        PROVE  /\ Shown(Seen(w)', i, c, run'[w].obj[i].flavor[c])
               /\ i \in DOMAIN run'[w].written => Shown(Seen(w)', i, c, run'[w].written[i].flavor[c])
    <3>1. run'[w].obj = run[w].obj /\ run'[w].written = run[w].written /\ run'[w].snaps = run[w].snaps
      BY <1>1, <2>2
    <3>2. View(w)' = View(w)
      BY <2>1, <3>1 DEF View
    <3> QED
      BY <2>1, <2>2, <3>1, <3>2 DEF ShownInv, ObjectsAreShown, Shown, Seen
  <2>3. ObjectsAreShown'
    BY <2>1, <2>2, SameShown DEF ObjectsAreShown
  <2>4. ValuesAreRecorded'
    BY <2>1 DEF ShownInv, ValuesAreRecorded, Live
  <2> QED
    BY <2>3, <2>4 DEF ShownInv
<1>2. ASSUME UNCHANGED <<machine, history, run>>
      PROVE  ShownInv'
  <2>1. ObjectsAreShown'
    BY <1>2, SameShown DEF ObjectsAreShown
  <2> QED
    BY <1>2, <2>1 DEF ShownInv, ValuesAreRecorded, Live
<1>3. ASSUME NEW w \in Worker, NEW p \in Provisioner, Starting(w, p)
      PROVE  ShownInv'
  BY <1>1, <1>3 DEF Starting, Began
<1>4. ASSUME NEW w \in Worker, Overlooking(w) \/ Ending(w) \/ Entering(w)
      PROVE  ShownInv'
  BY <1>1, <1>4, IdleType DEF Overlooking, Overlooked, Ending, Entering, Entered
<1>5. Resting => ShownInv'
  BY <1>2 DEF Resting
<1> QED
  BY <1>3, <1>4, <1>5, TakingShown, AddingShown, PublishingShown, RemovingShown, Steps

(* No run writes a capacity that the history of the machine does not show, however *)
(* many runs overlap and whatever is deleted meanwhile (run_provisioner_inventory, *)
(* _record_flavor_snapshot).                                                       *)
THEOREM NoCapacityUnrecorded == Spec => []ValuesAreRecorded
<1> DEFINE Inv == TInv /\ OwnInv /\ ShownInv
<1>1. Init => Inv
  <2>1. Init => OwnInv
    BY IdleType DEF Init, OwnInv, IdsAreOld, LocksAreExclusive, NewRowsAreOwn
  <2>2. Init => ShownInv
    BY IdleType DEF Init, ShownInv, ValuesAreRecorded, ObjectsAreShown, Live
  <2> QED
    BY <2>1, <2>2, InitTInv
<1>2. Inv /\ [Next]_vars => Inv'
  BY NextTInv, OwnInvariance, ShownInvariance
<1>3. Inv => ValuesAreRecorded
  BY DEF ShownInv
<1> QED
  BY <1>1, <1>2, <1>3, PTL DEF Spec

-----------------------------------------------------------------------------
(* The audit trail *)

(* While no other session has committed to a machine, the object was loaded from the *)
(* row as it still is, the newest snapshot that the session has taken is of the      *)
(* flavor that it has assigned, and without a snapshot the flavor is the row's.      *)
SessionAudit(w) ==
  LET r == run[w]
  IN  /\ \A i \in DOMAIN r.base \ r.others : View(w)[i] # None /\ r.base[i] = View(w)[i]
      /\ \A s \in r.snaps :
           (\A g \in r.snaps : g.machine = s.machine => g.no <= s.no) => s.flavor = r.obj[s.machine].flavor
      /\ \A i \in DOMAIN r.obj \ (r.others \cup r.refresh) :
           machine[i] # None /\ r.obj[i].flavor = machine[i].flavor

(* Snapshots that are committed are older than those a session will commit for the *)
(* same machine, unless it was told of them.                                       *)
HistoryIsOlder ==
  \A h \in history :
    /\ h.at <= clock
    /\ \A w \in Worker : Open(w) /\ h.machine \notin run[w].others => h.at < run[w].at

AuditInv == AuditIsExact /\ HistoryIsOlder /\ \A w \in Worker : SessionAudit(w)

LEMMA SameAudit ==
  ASSUME NEW x \in Worker, SessionAudit(x), run'[x] = run[x], UNCHANGED machine
  PROVE  SessionAudit(x)'
<1>1. View(x)' = View(x)
  BY DEF View
<1> QED
  BY <1>1 DEF SessionAudit

LEMMA ToldAudit ==
  ASSUME TInv, NEW x \in Worker, SessionAudit(x), NEW ids, Told(x, ids),
         \A i \in Id \ ids : machine'[i] = machine[i]
  PROVE  SessionAudit(x)'
<1>1. Typed /\ Coherent(x)
  BY DEF TInv
<1>2. /\ run'[x].base = run[x].base /\ run'[x].obj = run[x].obj /\ run'[x].written = run[x].written
      /\ run'[x].snaps = run[x].snaps /\ run'[x].refresh = run[x].refresh
      /\ DOMAIN run[x].base \subseteq Id /\ DOMAIN run[x].obj = DOMAIN run[x].base
  BY <1>1, SessionFields DEF Told, Coherent
<1>3. \A i \in DOMAIN run[x].base : i \notin run'[x].others => i \notin run[x].others /\ i \notin ids
  BY <1>1, IdleType DEF Told, Coherent, Open
<1>4. \A i \in Id \ ids : View(x)'[i] = View(x)[i]
  BY <1>2 DEF View
<1>5. \A i \in DOMAIN run'[x].base \ run'[x].others :
        View(x)'[i] # None /\ run'[x].base[i] = View(x)'[i]
  BY <1>2, <1>3, <1>4 DEF SessionAudit
<1>6. \A i \in DOMAIN run'[x].obj \ (run'[x].others \cup run'[x].refresh) :
        machine'[i] # None /\ run'[x].obj[i].flavor = machine'[i].flavor
  BY <1>2, <1>3 DEF SessionAudit
<1> QED
  BY <1>2, <1>5, <1>6 DEF SessionAudit

LEMMA IdleAudit ==
  ASSUME NEW w \in Worker, DOMAIN run'[w].base = {}, DOMAIN run'[w].obj = {}, run'[w].snaps = {}
  PROVE  SessionAudit(w)'
  BY DEF SessionAudit

LEMMA TakingAudit ==
  ASSUME TInv, NEW w \in Worker, Taking(w), SessionAudit(w)
  PROVE  SessionAudit(w)'
<1>1. PICK i \in Found(w) : Took(w, i)
  BY DEF Taking
<1>2. Typed /\ Coherent(w) /\ Open(w) /\ UNCHANGED machine
  BY <1>1 DEF TInv, Taking, Private, Tables, Took, Open
<1>3. i \in Id /\ View(w)[i] # None
  BY <1>2, FoundType
<1> DEFINE r == run[w]
           s == run'[w]
           object == IF i \in DOMAIN r.obj THEN r.obj[i] ELSE View(w)[i]
<1>4. /\ DOMAIN s.base = DOMAIN r.base \cup {i} /\ s.others = r.others /\ s.written = r.written
      /\ i \in DOMAIN r.base => s.base[i] = r.base[i]
      /\ i \notin DOMAIN r.base => s.base[i] = View(w)[i]
      /\ \A j \in DOMAIN r.base \ {i} : s.base[j] = r.base[j]
      /\ DOMAIN s.obj = DOMAIN r.obj \cup {i} /\ s.obj[i].flavor = Current(w).flavor
      /\ \A j \in DOMAIN r.obj \ {i} : s.obj[j] = r.obj[j]
      /\ IF object.flavor # Current(w).flavor
         THEN s.snaps = r.snaps \cup {Snap(w, i)} /\ s.refresh = r.refresh \cup {i}
         ELSE s.snaps = r.snaps /\ s.refresh = r.refresh
  BY <1>1, <1>2, CurrentType DEF Took, Kept
<1>5. /\ DOMAIN r.obj = DOMAIN r.base /\ DOMAIN r.written \subseteq DOMAIN r.base
      /\ r.refresh \subseteq DOMAIN r.obj
      /\ \A g \in r.snaps : g.machine \in r.refresh /\ g.no < r.next /\ g.no \in Nat
      /\ r.next \in Nat
  BY <1>2, SessionFields DEF Coherent, Snapshot
<1>6. Snap(w, i).machine = i /\ Snap(w, i).no = r.next /\ Snap(w, i).flavor = Current(w).flavor
  BY DEF Snap
<1> HIDE DEF r, s
<1>7. View(w)' = View(w)
  BY <1>2, <1>4 DEF View, s, r
<1>8. \A j \in DOMAIN s.base \ s.others : View(w)'[j] # None /\ s.base[j] = View(w)'[j]
  BY <1>3, <1>4, <1>7 DEF SessionAudit, r
<1>9. i \notin DOMAIN r.obj => machine[i] # None /\ View(w)[i] = machine[i]
  BY <1>2, <1>3, <1>5, ViewType DEF r
<1>10. \A j \in DOMAIN s.obj \ (s.others \cup s.refresh) :
         machine'[j] # None /\ s.obj[j].flavor = machine'[j].flavor
  BY <1>2, <1>4, <1>5, <1>9 DEF SessionAudit, r
<1>11. ASSUME NEW g \in s.snaps, \A h \in s.snaps : h.machine = g.machine => h.no <= g.no
       PROVE  g.flavor = s.obj[g.machine].flavor
  <2>1. CASE object.flavor = Current(w).flavor
    <3>1. g \in r.snaps /\ g.flavor = r.obj[g.machine].flavor
      BY <1>4, <1>11, <2>1 DEF SessionAudit, r
    <3> QED
      BY <1>4, <1>5, <2>1, <3>1
  <2>2. CASE object.flavor # Current(w).flavor /\ g = Snap(w, i)
    BY <1>4, <1>6, <2>2
  <2>3. CASE object.flavor # Current(w).flavor /\ g # Snap(w, i)
    <3>1. g \in r.snaps /\ Snap(w, i) \in s.snaps /\ r.snaps \subseteq s.snaps
      BY <1>4, <1>11, <2>3
    <3>2. g.machine # i
      BY <1>5, <1>6, <1>11, <3>1
    <3>3. g.flavor = r.obj[g.machine].flavor
      BY <1>11, <3>1 DEF SessionAudit, r
    <3> QED
      BY <1>4, <1>5, <3>1, <3>2, <3>3
  <2> QED
    BY <2>1, <2>2, <2>3
<1> QED
  BY <1>8, <1>10, <1>11 DEF SessionAudit, s

LEMMA AddingAudit ==
  ASSUME TInv, OwnInv, NEW w \in Worker, Adding(w), SessionAudit(w)
  PROVE  SessionAudit(w)'
<1> DEFINE r == run[w]
           s == run'[w]
           n == nextId
<1>1. Typed /\ Coherent(w) /\ Open(w) /\ UNCHANGED machine /\ ~Conflict(w)
  BY DEF TInv, Adding, Private, Tables, Added, Open, InsertConflict
<1>2. /\ n \in Id /\ s.others = r.others /\ s.base = s.obj /\ r.next <= Len(r.report)
      /\ DOMAIN s.obj = DOMAIN r.obj \cup {n} /\ s.obj[n] = Inserted(w)
      /\ \A j \in DOMAIN r.obj \ {n} : s.obj[j] = r.obj[j]
      /\ DOMAIN s.written = DOMAIN r.written \cup Dirty(w) \cup {n} /\ s.written[n] = Inserted(w)
      /\ \A j \in Dirty(w) \ {n} : s.written[j] = Flushed(w)[j]
      /\ \A j \in DOMAIN r.written \ (Dirty(w) \cup {n}) : s.written[j] = r.written[j]
      /\ s.snaps = r.snaps \cup {Snap(w, n)} /\ s.refresh = r.refresh \cup {n}
  BY DEF Adding, Added, Kept
<1>3. /\ DOMAIN r.obj = DOMAIN r.base /\ DOMAIN r.obj \subseteq Id
      /\ r.refresh \subseteq DOMAIN r.obj /\ n \notin DOMAIN r.obj
      /\ \A g \in r.snaps : g.machine \in r.refresh
      /\ \A j \in DOMAIN r.obj : r.obj[j] \in Row /\ r.base[j] \in Row
  <2>1. \A j \in DOMAIN r.base : j < nextId
    BY DEF OwnInv, IdsAreOld
  <2>2. \A g \in r.snaps : g.machine \in r.refresh
    BY <1>1, SessionFields DEF Coherent, Snapshot
  <2> QED
    BY <1>1, <1>2, <2>1, <2>2, SessionFields DEF Coherent, Id
<1>4. Inserted(w) \in Row /\ Inserted(w).flavor = Current(w).flavor
  BY <1>1, <1>2, CurrentType DEF Inserted
<1>5. Snap(w, n).machine = n /\ Snap(w, n).flavor = Inserted(w).flavor
  BY <1>4 DEF Snap
<1>6. \A j \in DOMAIN r.obj \ r.others : View(w)[j] # None /\ r.base[j] = View(w)[j]
  BY <1>3 DEF SessionAudit
<1>7. \A j \in DOMAIN r.obj : j \notin Dirty(w) => r.obj[j] = r.base[j]
  BY DEF Dirty
<1>8. \A j \in Dirty(w) \ r.others : Flushed(w)[j] = r.obj[j] /\ j \in DOMAIN r.obj
  BY <1>1, <1>6, FlushedType, WriteType DEF Dirty
<1>9. \A j \in Id : View(w)'[j] = IF j \in DOMAIN s.written THEN s.written[j] ELSE machine[j]
  BY <1>1 DEF View
<1>10. \A j \in Id : View(w)[j] = IF j \in DOMAIN r.written THEN r.written[j] ELSE machine[j]
  BY DEF View
<1> HIDE DEF r, s, n
<1>11. \A j \in DOMAIN s.base \ s.others : View(w)'[j] # None /\ s.base[j] = View(w)'[j]
  <2> SUFFICES ASSUME NEW j \in DOMAIN s.base \ s.others
               PROVE  View(w)'[j] # None /\ s.base[j] = View(w)'[j]
    OBVIOUS
  <2>1. CASE j = n
    BY <1>2, <1>4, <1>9, <2>1, InventoryAssumption
  <2>2. CASE j # n /\ j \in Dirty(w)
    BY <1>2, <1>3, <1>8, <1>9, <2>2, InventoryAssumption
  <2>3. CASE j # n /\ j \notin Dirty(w)
    BY <1>2, <1>3, <1>6, <1>7, <1>9, <1>10, <2>3
  <2> QED
    BY <2>1, <2>2, <2>3
<1>12. \A j \in DOMAIN s.obj \ (s.others \cup s.refresh) :
         machine'[j] # None /\ s.obj[j].flavor = machine'[j].flavor
  BY <1>1, <1>2 DEF SessionAudit, r
<1>13. ASSUME NEW g \in s.snaps, \A h \in s.snaps : h.machine = g.machine => h.no <= g.no
       PROVE  g.flavor = s.obj[g.machine].flavor
  <2>1. CASE g = Snap(w, n)
    BY <1>2, <1>5, <2>1
  <2>2. CASE g \in r.snaps
    <3>1. g.flavor = r.obj[g.machine].flavor
      BY <1>2, <1>13, <2>2 DEF SessionAudit, r
    <3> QED
      BY <1>2, <1>3, <2>2, <3>1
  <2> QED
    BY <1>2, <2>1, <2>2
<1> QED
  BY <1>11, <1>12, <1>13 DEF SessionAudit, s

(* What a session that nobody has raced publishes of an object is the object. *)
LEMMA PublishedObject ==
  ASSUME TInv, NEW w \in Worker, Publishing(w), SessionAudit(w),
         NEW i \in DOMAIN run[w].obj, i \notin run[w].others
  PROVE  machine'[i] = run[w].obj[i]
<1>1. Typed /\ Coherent(w)
  BY DEF TInv
<1>2. i \in Id /\ i \in DOMAIN run[w].base /\ run[w].obj[i] \in Row /\ run[w].base[i] \in Row
  BY <1>1, SessionFields DEF Coherent
<1>3. View(w)[i] = run[w].base[i]
  BY <1>2 DEF SessionAudit
<1>4. machine'[i] = IF i \in Dirty(w) THEN Flushed(w)[i] ELSE View(w)[i]
  BY <1>2 DEF Publishing, Publishes
<1>5. i \in Dirty(w) => Flushed(w)[i] = run[w].obj[i]
  BY <1>1, <1>2, <1>3, FlushedType, WriteType
<1>6. i \notin Dirty(w) => run[w].obj[i] = run[w].base[i]
  BY DEF Dirty
<1> QED
  BY <1>3, <1>4, <1>5, <1>6

LEMMA PublishingAudit ==
  ASSUME TInv, NEW w \in Worker, Publishing(w), AuditInv
  PROVE  AuditIsExact'
<1>1. /\ Typed /\ Coherent(w) /\ Open(w) /\ SessionAudit(w)
      /\ run[w].at \in Nat
  BY SessionFields DEF TInv, AuditInv, Publishing, Publishes, Open
<1>2. /\ history' = history \cup run[w].snaps /\ raced' = raced \cup (Touched(w) \cap run[w].others)
      /\ \A i \in Id : optimized'[i] = IF i \in run[w].refresh THEN run[w].obj[i].flavor ELSE optimized[i]
      /\ Touched(w) \subseteq DOMAIN run[w].obj
  BY DEF Publishing, Publishes
<1>3. \A h \in history' : h.at \in Nat /\ h.no \in Nat
  BY <1>1, <1>2, SessionFields DEF Typed, Snapshot
<1>4. \A h \in run[w].snaps : h.machine \in run[w].refresh /\ h.at = run[w].at
  BY <1>1, SessionFields DEF Coherent, Snapshot
<1> SUFFICES ASSUME NEW i \in Live', i \notin raced'
             PROVE  /\ \A h \in history' : h.machine = i /\ Newest(h)' => h.flavor = machine'[i].flavor
                    /\ optimized'[i] = machine'[i].flavor
  BY DEF AuditIsExact
<1>5. i \in Id /\ machine'[i] # None
  BY DEF Live
<1>6. i \notin run[w].refresh =>
        /\ optimized'[i] = optimized[i]
        /\ \A h \in history' : h.machine = i => h \in history
        /\ \A h \in history' : h.machine = i /\ Newest(h)' => Newest(h)
  BY <1>2, <1>4, <1>5 DEF Newest
<1>7. CASE i \notin Touched(w)
  <2>1. machine'[i] = machine[i] /\ i \in Live /\ i \notin raced /\ i \notin run[w].refresh
    BY <1>2, <1>5, <1>7, CommittedRows DEF Live, Touched
  <2> QED
    BY <1>6, <2>1 DEF AuditInv, AuditIsExact
<1>8. CASE i \in Touched(w)
  <2>1. i \in DOMAIN run[w].obj /\ i \notin run[w].others /\ i \notin raced
    BY <1>2, <1>8
  <2>2. machine'[i] = run[w].obj[i]
    BY <1>1, <2>1, PublishedObject
  <2>3. CASE i \notin run[w].refresh
    <3>1. machine[i] # None /\ machine'[i].flavor = machine[i].flavor
      BY <1>1, <2>1, <2>2, <2>3 DEF SessionAudit
    <3>2. i \in Live
      BY <1>5, <3>1 DEF Live
    <3> QED
      BY <1>6, <2>1, <2>3, <3>1, <3>2 DEF AuditInv, AuditIsExact
  <2>4. CASE i \in run[w].refresh
    <3>1. optimized'[i] = machine'[i].flavor
      BY <1>2, <1>5, <2>2, <2>4
    <3>2. PICK s \in run[w].snaps : s.machine = i
      BY <1>1, <1>5, <2>4 DEF Coherent
    <3>3. ASSUME NEW h \in history', h.machine = i, Newest(h)'
          PROVE  h.flavor = machine'[i].flavor
      <4>1. s \in history' /\ s.at = run[w].at
        BY <1>2, <1>4, <3>2
      <4>2. s.at < h.at \/ (s.at = h.at /\ s.no <= h.no)
        BY <3>2, <3>3, <4>1 DEF Newest
      <4>3. h \notin history
        <5>1. h \in history => h.at < run[w].at
          BY <1>1, <2>1, <3>3 DEF AuditInv, HistoryIsOlder
        <5> QED
          BY <1>1, <1>3, <4>1, <4>2, <5>1
      <4>4. h \in run[w].snaps /\ h.at = run[w].at
        BY <1>2, <1>4, <4>3
      <4>5. \A g \in run[w].snaps : g.machine = h.machine => g.no <= h.no
        <5> TAKE g \in run[w].snaps
        <5>1. g \in history' /\ g.at = h.at
          BY <1>2, <1>4, <4>4
        <5> QED
          BY <1>1, <1>3, <3>3, <4>4, <5>1 DEF Newest
      <4> QED
        BY <1>1, <2>2, <3>3, <4>4, <4>5 DEF SessionAudit
    <3> QED
      BY <3>1, <3>3
  <2> QED
    BY <2>3, <2>4
<1> QED
  BY <1>7, <1>8

LEMMA AuditInvariance == TInv /\ OwnInv /\ AuditInv /\ [Next]_vars => AuditInv'
<1> SUFFICES ASSUME TInv, OwnInv, AuditInv, [Next]_vars PROVE AuditInv'
  OBVIOUS
<1>1. /\ Typed /\ clock \in Nat /\ \A h \in history : h.at \in Nat
      /\ \A w \in Worker : run[w].at \in Nat /\ (Open(w) => run[w].at <= clock)
  BY SessionFields, InventoryAssumption DEF TInv, Typed, Snapshot, Coherent
<1>2. ASSUME NEW w \in Worker, Private(w), SessionAudit(w)'
      PROVE  AuditIsExact' /\ \A x \in Worker : SessionAudit(x)'
  <2>1. /\ UNCHANGED <<machine, history, optimized, raced>>
        /\ \A x \in Worker \ {w} : run'[x] = run[x]
    BY <1>2 DEF Private, Tables
  <2>2. \A x \in Worker : SessionAudit(x)'
    BY <1>2, <2>1, SameAudit DEF AuditInv
  <2> QED
    BY <2>1, <2>2 DEF AuditInv, AuditIsExact, Newest, Live
<1>3. ASSUME NEW w \in Worker, Private(w), clock' = clock,
             \/ run'[w].pc = "idle"
             \/ Open(w) /\ run'[w].at = run[w].at /\ run'[w].others = run[w].others
      PROVE  HistoryIsOlder'
  BY <1>3 DEF AuditInv, HistoryIsOlder, Private, Tables, Open
<1>4. ASSUME NEW w \in Worker, NEW p \in Provisioner, Starting(w, p)
      PROVE  AuditInv'
  <2>1. AuditIsExact' /\ \A x \in Worker : SessionAudit(x)'
    BY <1>2, <1>4, IdleAudit DEF Starting, Began
  <2>2. clock' = clock + 1 /\ run'[w].at = clock + 1 /\ history' = history
        /\ \A x \in Worker \ {w} : run'[x] = run[x]
    BY <1>4 DEF Starting, Began, Private, Tables
  <2>3. HistoryIsOlder'
    BY <1>1, <2>2 DEF AuditInv, HistoryIsOlder, Open
  <2> QED
    BY <2>1, <2>3 DEF AuditInv
<1>5. ASSUME NEW w \in Worker, Taking(w)
      PROVE  AuditInv'
  <2>1. /\ Private(w) /\ clock' = clock /\ Open(w)
        /\ run'[w].at = run[w].at /\ run'[w].others = run[w].others
    BY <1>5 DEF Taking, Took, Kept, Open
  <2> QED
    BY <1>2, <1>3, <1>5, <2>1, TakingAudit DEF AuditInv
<1>6. ASSUME NEW w \in Worker, Adding(w)
      PROVE  AuditInv'
  <2>1. /\ Private(w) /\ clock' = clock /\ Open(w)
        /\ run'[w].at = run[w].at /\ run'[w].others = run[w].others
    BY <1>6 DEF Adding, Added, Kept, Open
  <2> QED
    BY <1>2, <1>3, <1>6, <2>1, AddingAudit DEF AuditInv
<1>7. ASSUME NEW w \in Worker, Overlooking(w)
      PROVE  AuditInv'
  <2>1. /\ Private(w) /\ clock' = clock /\ Open(w) /\ UNCHANGED machine
        /\ run'[w].at = run[w].at /\ run'[w].others = run[w].others
        /\ run'[w].base = run[w].base /\ run'[w].obj = run[w].obj /\ run'[w].written = run[w].written
        /\ run'[w].snaps = run[w].snaps /\ run'[w].refresh = run[w].refresh
    BY <1>7 DEF Overlooking, Overlooked, Kept, Open, Private, Tables
  <2>2. View(w)' = View(w)
    BY <2>1 DEF View
  <2>3. SessionAudit(w)'
    BY <2>1, <2>2 DEF AuditInv, SessionAudit
  <2> QED
    BY <1>2, <1>3, <2>1, <2>3 DEF AuditInv
<1>8. ASSUME NEW w \in Worker, Ending(w)
      PROVE  AuditInv'
  <2>1. Private(w) /\ clock' = clock /\ run'[w].pc = "idle" /\ SessionAudit(w)'
    BY <1>8, IdleType, IdleAudit DEF Ending
  <2> QED
    BY <1>2, <1>3, <2>1 DEF AuditInv
<1>9. ASSUME NEW w \in Worker, Publishing(w)
      PROVE  AuditInv'
  <2>1. /\ run'[w] = Idle /\ \A x \in Worker \ {w} : Told(x, Touched(w))
        /\ history' = history \cup run[w].snaps /\ clock' = clock /\ Open(w)
    BY <1>9 DEF Publishing, Publishes, Open
  <2>2. \A i \in Id \ Touched(w) : machine'[i] = machine[i]
    BY <1>9, CommittedRows DEF Touched
  <2>3. SessionAudit(w)'
    BY <2>1, IdleType, IdleAudit
  <2>4. \A x \in Worker \ {w} : SessionAudit(x)'
    BY <2>1, <2>2, ToldAudit DEF AuditInv
  <2>5. HistoryIsOlder'
    <3>1. \A h \in run[w].snaps : h.at = run[w].at /\ h.machine \in Touched(w)
      BY <1>1, SessionFields DEF TInv, Coherent, Snapshot, Touched
    <3>2. \A h \in history' : h.at <= clock
      BY <1>1, <2>1, <3>1 DEF AuditInv, HistoryIsOlder
    <3>3. ASSUME NEW h \in history', NEW x \in Worker, Open(x)', h.machine \notin run'[x].others
          PROVE  h.at < run'[x].at
      <4>1. x # w /\ Open(x) /\ run'[x].at = run[x].at /\ run'[x].others = run[x].others \cup Touched(w)
        BY <2>1, <3>3, IdleType DEF Told, Open
      <4> QED
        BY <2>1, <3>1, <3>3, <4>1 DEF AuditInv, HistoryIsOlder
    <3> QED
      BY <2>1, <3>2, <3>3 DEF HistoryIsOlder
  <2> QED
    BY <1>9, <2>3, <2>4, <2>5, PublishingAudit DEF AuditInv
<1>10. ASSUME NEW ids \in SUBSET Id, Removing(ids) \/ Releasing(ids)
       PROVE  AuditInv'
  <2>1. /\ clock' = clock /\ history' \subseteq history
        /\ \A x \in Worker : Told(x, ids)
        /\ \A i \in Id \ ids : machine'[i] = machine[i]
    BY <1>10 DEF Removing, Removes, Releasing, Releases
  <2>2. \A x \in Worker : SessionAudit(x)'
    BY <2>1, ToldAudit DEF AuditInv
  <2>3. HistoryIsOlder'
    <3>1. \A x \in Worker : Open(x)' => Open(x) /\ run'[x].at = run[x].at /\ run[x].others \subseteq run'[x].others
      BY <2>1 DEF Told, Open
    <3> QED
      BY <2>1, <3>1 DEF AuditInv, HistoryIsOlder
  <2>4. CASE Removing(ids)
    <3>1. /\ \A i \in Id : machine'[i] # None => /\ i \notin ids /\ machine'[i] = machine[i]
                                                 /\ optimized'[i] = optimized[i]
          /\ history' = {h \in history : h.machine \notin ids} /\ raced' = raced \ ids
      BY <2>4 DEF Removing, Removes
    <3>2. AuditIsExact'
      <4> SUFFICES ASSUME NEW i \in Live', i \notin raced'
                   PROVE  /\ \A h \in history' : h.machine = i /\ Newest(h)' => h.flavor = machine'[i].flavor
                          /\ optimized'[i] = machine'[i].flavor
        BY DEF AuditIsExact
      <4>1. i \in Live /\ i \notin raced /\ i \notin ids /\ machine'[i] = machine[i] /\ optimized'[i] = optimized[i]
        BY <3>1 DEF Live
      <4>2. \A h \in history' : h.machine = i /\ Newest(h)' => h \in history /\ Newest(h)
        BY <3>1, <4>1 DEF Newest
      <4> QED
        BY <4>1, <4>2 DEF AuditInv, AuditIsExact
    <3> QED
      BY <2>2, <2>3, <3>2 DEF AuditInv
  <2>5. CASE Releasing(ids)
    <3>1. UNCHANGED <<history, optimized, raced>> /\ \A i \in ids : machine[i] # None
      BY <2>5 DEF Releasing, Releases, Live
    <3>2. \A i \in Id : machine'[i] # None => machine[i] # None /\ machine'[i].flavor = machine[i].flavor
      <4>1. \A i \in ids : machine[i] \in Row /\ machine'[i] = [machine[i] EXCEPT !.prov = None]
        BY <1>1, <2>5, <3>1 DEF Typed, Releasing, Releases
      <4>2. \A i \in ids : machine'[i].flavor = machine[i].flavor
        BY <4>1 DEF Row
      <4> QED
        BY <2>1, <3>1, <4>2
    <3>3. AuditIsExact'
      BY <3>1, <3>2 DEF AuditInv, AuditIsExact, Newest, Live
    <3> QED
      BY <2>2, <2>3, <3>3 DEF AuditInv
  <2> QED
    BY <1>10, <2>4, <2>5
<1>11. ASSUME Resting
       PROVE  AuditInv'
  <2>1. \A x \in Worker : SessionAudit(x)'
    BY <1>11, SameAudit DEF AuditInv, Resting
  <2> QED
    BY <1>11, <2>1 DEF Resting, AuditInv, AuditIsExact, HistoryIsOlder, Newest, Live, Open
<1>12. ASSUME NEW w \in Worker, Entering(w)
       PROVE  AuditInv'
  <2>1. /\ Private(w) /\ clock' = clock /\ Open(w)
        /\ run'[w].at = run[w].at /\ run'[w].others = run[w].others
        /\ DOMAIN run'[w].base = {} /\ DOMAIN run'[w].obj = {} /\ run'[w].snaps = {}
    BY <1>12 DEF Entering, Entered, TInv, Coherent
  <2> QED
    BY <1>2, <1>3, <2>1, IdleAudit DEF AuditInv
<1> QED
  BY <1>4, <1>5, <1>6, <1>7, <1>8, <1>9, <1>10, <1>11, <1>12, Steps

(* The newest snapshot of a machine shows the capacities that the machine has, and  *)
(* that its optimization was built for, as long as no two overlapping runs have     *)
(* written about it (_record_flavor_snapshot, the refresh before the commit).       *)
THEOREM AuditTrailIsExact == Spec => []AuditIsExact
<1> DEFINE Inv == TInv /\ OwnInv /\ AuditInv
<1>1. Init => Inv
  <2>1. Init => OwnInv
    BY IdleType DEF Init, OwnInv, IdsAreOld, LocksAreExclusive, NewRowsAreOwn
  <2>2. Init => AuditInv
    BY IdleType DEF Init, AuditInv, AuditIsExact, HistoryIsOlder, SessionAudit, Live
  <2> QED
    BY <2>1, <2>2, InitTInv
<1>2. Inv /\ [Next]_vars => Inv'
  BY NextTInv, OwnInvariance, AuditInvariance
<1>3. Inv => AuditIsExact
  BY DEF AuditInv
<1> QED
  BY <1>1, <1>2, <1>3, PTL DEF Spec

-----------------------------------------------------------------------------
(* The unique constraints: what is checked where a row is flushed, and the waiting *)
(* for rows and keys of other sessions, is enough for all rows at all times.       *)

Unique(rows) ==
  \A i, j \in Id : i # j /\ rows[i] # None /\ rows[j] # None => ~Collide(rows[i], rows[j])

UniqueInv ==
  /\ Unique(machine)
  /\ \A w \in Worker : Unique(View(w))
  /\ \A w \in Worker : \A x \in Worker \ {w} :
       \A i \in DOMAIN run[w].written, j \in DOMAIN run[x].written :
         ~Collide(run[w].written[i], run[x].written[j])

LEMMA CollideSymmetric ==
  ASSUME NEW r, NEW s
  PROVE  Collide(r, s) <=> Collide(s, r)
  BY DEF Collide

(* The rows as a session sees them after its flush *)
AfterFlush(w) == [i \in Id |-> IF i \in Dirty(w) THEN Flushed(w)[i] ELSE View(w)[i]]

LEMMA FlushIsUnique ==
  ASSUME TInv, UniqueInv, NEW w \in Worker, ~Conflict(w)
  PROVE  Unique(AfterFlush(w))
<1>1. Typed /\ Coherent(w) /\ Unique(View(w)) /\ ~Duplicate(w)
  BY NoConflict DEF TInv, UniqueInv
<1>2. \A i \in Dirty(w) : i \in Id /\ Flushed(w)[i] \in Row /\ Flushed(w)[i] # None
  BY <1>1, NoConflict, FlushedType, InventoryAssumption
<1>3. \A i \in Dirty(w) : \A j \in Id \ {i} :
        LET row == IF j \in Dirty(w) /\ j < i THEN Flushed(w)[j] ELSE View(w)[j]
        IN  row # None => ~Collide(Flushed(w)[i], row)
  BY <1>1 DEF Duplicate
<1>4. \A i \in Dirty(w), j \in Id \ Dirty(w) : View(w)[j] # None => ~Collide(Flushed(w)[i], View(w)[j])
  BY <1>3
<1>5. \A i, j \in Dirty(w) : j < i => ~Collide(Flushed(w)[i], Flushed(w)[j])
  <2> TAKE i, j \in Dirty(w)
  <2>1. j < i => j \in Id \ {i}
    BY <1>2 DEF Id
  <2> QED
    BY <1>2, <1>3, <2>1
<1>6. \A i, j \in Id : i # j => i < j \/ j < i
  BY InventoryAssumption DEF Id
<1> SUFFICES ASSUME NEW i \in Id, NEW j \in Id, i # j, AfterFlush(w)[i] # None, AfterFlush(w)[j] # None
             PROVE  ~Collide(AfterFlush(w)[i], AfterFlush(w)[j])
  BY DEF Unique
<1>7. /\ i \in Dirty(w) => AfterFlush(w)[i] = Flushed(w)[i]
      /\ j \in Dirty(w) => AfterFlush(w)[j] = Flushed(w)[j]
      /\ i \notin Dirty(w) => AfterFlush(w)[i] = View(w)[i]
      /\ j \notin Dirty(w) => AfterFlush(w)[j] = View(w)[j]
  BY DEF AfterFlush
<1>8. CASE i \in Dirty(w) /\ j \in Dirty(w)
  BY <1>5, <1>6, <1>7, <1>8, CollideSymmetric
<1>9. CASE i \in Dirty(w) /\ j \notin Dirty(w)
  BY <1>4, <1>7, <1>9
<1>10. CASE i \notin Dirty(w) /\ j \in Dirty(w)
  BY <1>4, <1>7, <1>10, CollideSymmetric
<1>11. CASE i \notin Dirty(w) /\ j \notin Dirty(w)
  BY <1>1, <1>7, <1>11 DEF Unique
<1> QED
  BY <1>8, <1>9, <1>10, <1>11

LEMMA AddingUnique ==
  ASSUME TInv, OwnInv, UniqueInv, NEW w \in Worker, Adding(w)
  PROVE  UniqueInv'
<1> DEFINE n == nextId
           row == Inserted(w)
<1>1. /\ Typed /\ Coherent(w) /\ Open(w) /\ UNCHANGED machine /\ ~Conflict(w) /\ n \in Id
      /\ \A x \in Worker \ {w} : run'[x] = run[x]
      /\ ~Blocked(w, FlushedRows(w) \cup {row}) /\ run[w].next <= Len(run[w].report)
      /\ DOMAIN run'[w].written = DOMAIN run[w].written \cup Dirty(w) \cup {n} /\ run'[w].written[n] = row
      /\ \A j \in Dirty(w) \ {n} : run'[w].written[j] = Flushed(w)[j]
      /\ \A j \in DOMAIN run[w].written \ (Dirty(w) \cup {n}) : run'[w].written[j] = run[w].written[j]
  BY DEF TInv, Adding, Private, Tables, Added, Open, InsertConflict
<1>2. \A j \in Id : LET r == IF j \in Dirty(w) THEN Flushed(w)[j] ELSE View(w)[j]
                    IN  r # None => ~Collide(row, r)
  BY DEF Adding, Added, InsertConflict
<1>3. \A j \in Id : AfterFlush(w)[j] = IF j \in Dirty(w) THEN Flushed(w)[j] ELSE View(w)[j]
  BY DEF AfterFlush
<1>4. \A j \in Id : AfterFlush(w)[j] # None => ~Collide(row, AfterFlush(w)[j])
  BY <1>2, <1>3
<1>5. /\ \A j \in Id : View(w)'[j] = IF j \in DOMAIN run'[w].written THEN run'[w].written[j] ELSE machine[j]
      /\ \A j \in Id : View(w)[j] = IF j \in DOMAIN run[w].written THEN run[w].written[j] ELSE machine[j]
  BY <1>1 DEF View
<1>6. View(w)'[n] = row /\ \A j \in Id \ {n} : View(w)'[j] = AfterFlush(w)[j]
  BY <1>1, <1>3, <1>5
<1>7. Unique(View(w)')
  <2>1. Unique(AfterFlush(w))
    BY <1>1, FlushIsUnique
  <2> QED
    BY <1>4, <1>6, <2>1, CollideSymmetric DEF Unique
<1>8. \A x \in Worker \ {w} : View(x)' = View(x)
  BY <1>1 DEF View
<1>9. \A x \in Worker \ {w} : \A i \in DOMAIN run'[w].written, j \in DOMAIN run[x].written :
        ~Collide(run'[w].written[i], run[x].written[j])
  <2> SUFFICES ASSUME NEW x \in Worker \ {w}, NEW i \in DOMAIN run'[w].written, NEW j \in DOMAIN run[x].written
               PROVE  ~Collide(run'[w].written[i], run[x].written[j])
    OBVIOUS
  <2>1. CASE i = n \/ i \in Dirty(w)
    <3>1. run'[w].written[i] \in FlushedRows(w) \cup {row}
      BY <1>1, <2>1 DEF FlushedRows
    <3> QED
      BY <1>1, <3>1, FlushIsFree
  <2>2. CASE i # n /\ i \notin Dirty(w)
    <3>1. i \in DOMAIN run[w].written /\ run'[w].written[i] = run[w].written[i]
      BY <1>1, <2>2
    <3> QED
      BY <3>1 DEF UniqueInv
  <2> QED
    BY <2>1, <2>2
<1>10. \A x \in Worker : \A y \in Worker \ {x} :
         \A i \in DOMAIN run'[x].written, j \in DOMAIN run'[y].written :
           ~Collide(run'[x].written[i], run'[y].written[j])
  BY <1>1, <1>9, CollideSymmetric DEF UniqueInv
<1> QED
  BY <1>1, <1>7, <1>8, <1>10 DEF UniqueInv

LEMMA PublishingUnique ==
  ASSUME TInv, OwnInv, UniqueInv, NEW w \in Worker, Publishing(w)
  PROVE  UniqueInv'
<1>1. /\ Typed /\ Coherent(w) /\ ~Conflict(w) /\ ~Blocked(w, FlushedRows(w))
      /\ machine' \in [Id -> Row \cup {None}]
      /\ \A i \in Id : machine'[i] = IF i \in Dirty(w) THEN Flushed(w)[i] ELSE View(w)[i]
      /\ DOMAIN run'[w].written = {} /\ \A x \in Worker \ {w} : run'[x].written = run[x].written
  BY IdleType DEF TInv, Publishing, Publishes, Told
<1>2. machine' = AfterFlush(w)
  BY <1>1 DEF AfterFlush
<1>3. Unique(machine')
  BY <1>1, <1>2, FlushIsUnique
<1>4. \A i \in Id : View(w)'[i] = machine'[i]
  BY <1>1 DEF View
<1>5. Unique(View(w)')
  BY <1>3, <1>4 DEF Unique
<1>6. ASSUME NEW x \in Worker \ {w}
      PROVE  Unique(View(x)')
  <2>1. /\ \A i \in Id : View(x)'[i] = IF i \in DOMAIN run[x].written THEN run[x].written[i] ELSE machine'[i]
        /\ \A i \in Id : View(x)[i] = IF i \in DOMAIN run[x].written THEN run[x].written[i] ELSE machine[i]
        /\ DOMAIN run[x].written \subseteq Id
    BY <1>1, SessionFields DEF View
  <2>2. ASSUME NEW i \in DOMAIN run[x].written, NEW j \in Id \ DOMAIN run[x].written, machine'[j] # None
        PROVE  ~Collide(run[x].written[i], machine'[j])
    <3>1. CASE j \in Dirty(w)
      <4>1. machine'[j] \in FlushedRows(w)
        BY <1>1, <3>1 DEF FlushedRows
      <4> QED
        BY <1>1, <4>1, FlushIsFree, CollideSymmetric
    <3>2. CASE j \notin Dirty(w) /\ j \in DOMAIN run[w].written
      <4>1. machine'[j] = run[w].written[j]
        BY <1>1, <3>2, ViewType
      <4> QED
        BY <3>2, <4>1, CollideSymmetric DEF UniqueInv
    <3>3. CASE j \notin Dirty(w) /\ j \notin DOMAIN run[w].written
      <4>1. machine'[j] = machine[j]
        BY <3>3, CommittedRows DEF Updated
      <4>2. View(x)[j] = machine'[j] /\ View(x)[i] = run[x].written[i] /\ View(x)[i] # None /\ i \in Id
        BY <1>1, <2>1, <4>1, ViewType
      <4> QED
        BY <2>2, <4>2 DEF UniqueInv, Unique
    <3> QED
      BY <3>1, <3>2, <3>3
  <2>3. \A i, j \in DOMAIN run[x].written : i # j => ~Collide(run[x].written[i], run[x].written[j])
    BY <1>1, <2>1, ViewType DEF UniqueInv, Unique
  <2> QED
    BY <1>3, <2>1, <2>2, <2>3, CollideSymmetric DEF Unique
<1>7. \A x \in Worker : \A y \in Worker \ {x} :
        \A i \in DOMAIN run'[x].written, j \in DOMAIN run'[y].written :
          ~Collide(run'[x].written[i], run'[y].written[j])
  BY <1>1 DEF UniqueInv
<1> QED
  BY <1>3, <1>5, <1>6, <1>7 DEF UniqueInv

LEMMA RemovingUnique ==
  ASSUME TInv, UniqueInv, NEW ids \in SUBSET Id, Removing(ids) \/ Releasing(ids)
  PROVE  UniqueInv'
<1>1. /\ \A x \in Worker : run'[x].written = run[x].written /\ DOMAIN run[x].written \subseteq Id
      /\ \A i \in Id : machine'[i] # None =>
           /\ machine[i] # None
           /\ machine'[i].host = machine[i].host /\ machine'[i].ext = machine[i].ext
           /\ machine'[i].prov \in {machine[i].prov, None}
  <2>1. \A x \in Worker : run'[x].written = run[x].written /\ DOMAIN run[x].written \subseteq Id
    BY SessionFields DEF TInv, Removing, Removes, Releasing, Releases, Told
  <2>2. CASE Removing(ids)
    BY <2>1, <2>2 DEF Removing, Removes
  <2>3. CASE Releasing(ids)
    <3>1. \A i \in ids : machine[i] # None /\ machine'[i] = [machine[i] EXCEPT !.prov = None]
      BY <2>3 DEF Releasing, Releases, Live
    <3>2. \A i \in ids : machine[i] \in Row
      BY <3>1 DEF TInv, Typed
    <3>3. \A i \in ids : /\ machine'[i].host = machine[i].host /\ machine'[i].ext = machine[i].ext
                         /\ machine'[i].prov = None
      BY <3>1, <3>2 DEF Row
    <3> QED
      BY <2>1, <2>3, <3>1, <3>3 DEF Releasing, Releases
  <2> QED
    BY <2>2, <2>3
<1>2. \A i, j \in Id : machine'[i] # None /\ machine'[j] # None /\ Collide(machine'[i], machine'[j]) =>
        Collide(machine[i], machine[j])
  BY <1>1 DEF Collide
<1>3. Unique(machine')
  BY <1>1, <1>2 DEF UniqueInv, Unique
<1>4. ASSUME NEW x \in Worker
      PROVE  Unique(View(x)')
  <2>1. /\ \A i \in Id : View(x)'[i] = IF i \in DOMAIN run[x].written THEN run[x].written[i] ELSE machine'[i]
        /\ \A i \in Id : View(x)[i] = IF i \in DOMAIN run[x].written THEN run[x].written[i] ELSE machine[i]
    BY <1>1 DEF View
  <2>2. \A i \in Id : View(x)'[i] # None =>
          /\ View(x)[i] # None
          /\ View(x)'[i].host = View(x)[i].host /\ View(x)'[i].ext = View(x)[i].ext
          /\ View(x)'[i].prov \in {View(x)[i].prov, None}
    BY <1>1, <2>1
  <2>3. \A i, j \in Id : View(x)'[i] # None /\ View(x)'[j] # None /\ Collide(View(x)'[i], View(x)'[j]) =>
          Collide(View(x)[i], View(x)[j])
    BY <2>2 DEF Collide
  <2> QED
    BY <2>2, <2>3 DEF UniqueInv, Unique
<1>5. \A x \in Worker : \A y \in Worker \ {x} :
        \A i \in DOMAIN run'[x].written, j \in DOMAIN run'[y].written :
          ~Collide(run'[x].written[i], run'[y].written[j])
  BY <1>1 DEF UniqueInv
<1> QED
  BY <1>3, <1>4, <1>5 DEF UniqueInv

LEMMA UniqueInvariance == TInv /\ OwnInv /\ UniqueInv /\ [Next]_vars => UniqueInv'
<1> SUFFICES ASSUME TInv, OwnInv, UniqueInv, [Next]_vars PROVE UniqueInv'
  OBVIOUS
<1>1. ASSUME NEW w \in Worker, UNCHANGED machine, \A x \in Worker \ {w} : run'[x] = run[x],
             DOMAIN run'[w].written = {} \/ run'[w].written = run[w].written
      PROVE  UniqueInv'
  <2>1. \A x \in Worker \ {w} : View(x)' = View(x)
    BY <1>1 DEF View
  <2>2. Unique(View(w)')
    <3>1. CASE run'[w].written = run[w].written
      <4>1. View(w)' = View(w)
        BY <1>1, <3>1 DEF View
      <4> QED
        BY <4>1 DEF UniqueInv
    <3>2. CASE DOMAIN run'[w].written = {}
      <4>1. \A i \in Id : View(w)'[i] = machine[i]
        BY <1>1, <3>2 DEF View
      <4> QED
        BY <4>1 DEF UniqueInv, Unique
    <3> QED
      BY <1>1, <3>1, <3>2
  <2>3. \A x \in Worker : \A y \in Worker \ {x} :
          \A i \in DOMAIN run'[x].written, j \in DOMAIN run'[y].written :
            ~Collide(run'[x].written[i], run'[y].written[j])
    BY <1>1 DEF UniqueInv
  <2> QED
    BY <1>1, <2>1, <2>2, <2>3 DEF UniqueInv
<1>2. ASSUME NEW w \in Worker, Taking(w) \/ Overlooking(w) \/ Ending(w) \/ Entering(w)
      PROVE  UniqueInv'
  BY <1>1, <1>2, IdleType
  DEF Taking, Took, Overlooking, Overlooked, Ending, Entering, Entered, Private, Tables
<1>3. ASSUME UNCHANGED <<machine, run>>
      PROVE  UniqueInv'
  BY <1>3 DEF UniqueInv, View
<1>4. ASSUME NEW w \in Worker, NEW p \in Provisioner, Starting(w, p)
      PROVE  UniqueInv'
  BY <1>1, <1>4 DEF Starting, Began, Private, Tables
<1>5. Resting => UniqueInv'
  BY <1>3 DEF Resting
<1> QED
  BY <1>2, <1>4, <1>5, AddingUnique, PublishingUnique, RemovingUnique, Steps

(* No two machines of the platform have the same hostname, or the same provisioner *)
(* and external id, whatever runs overlap: the rows that a commit publishes were   *)
(* checked against all others when they were flushed, and none of them can have    *)
(* changed since (uq_machines_platform_hostname,                                   *)
(* uq_machines_provisioner_external_id).                                           *)
THEOREM MachinesAreUnique == Spec => []Unique(machine)
<1> DEFINE Inv == TInv /\ OwnInv /\ UniqueInv
<1>1. Init => Inv
  <2>1. Init => OwnInv
    BY IdleType DEF Init, OwnInv, IdsAreOld, LocksAreExclusive, NewRowsAreOwn
  <2>2. ASSUME Init PROVE UniqueInv
    <3>1. \A w \in Worker : \A i \in Id : View(w)[i] = None
      BY <2>2, IdleType DEF Init, View
    <3> QED
      BY <2>2, <3>1, IdleType DEF Init, UniqueInv, Unique
  <2> QED
    BY <2>1, <2>2, InitTInv
<1>2. Inv /\ [Next]_vars => Inv'
  BY NextTInv, OwnInvariance, UniqueInvariance
<1>3. Inv => Unique(machine)
  BY DEF UniqueInv
<1> QED
  BY <1>1, <1>2, <1>3, PTL DEF Spec

-----------------------------------------------------------------------------
(* Runs that nothing disturbs.  What they have done is said of values, not of the  *)
(* state: a step that changes none of the values then changes nothing of it.       *)

PlainIn(rows, p, report) ==
  \A k \in 1..Len(report) :
    /\ ByHostname(rows, report[k].host) \subseteq Find(rows, p, report[k])
    /\ \A l \in 1..Len(report) \ {k} :
         /\ report[k].host # report[l].host
         /\ report[k].ext = None \/ report[k].ext # report[l].ext
         /\ Find(rows, p, report[k]) \cap Find(rows, p, report[l]) = {}

(* The row of a record that provisioner p reports *)
RowOf(p, rec) == [prov |-> p, ext |-> rec.ext, host |-> rec.host, flavor |-> rec.flavor]

(* Each record before the next has one object, that of the machine it was about or  *)
(* of a new one, and each object has a record.                                      *)
ExactIn(rows, p, report, next, obj) ==
  /\ \A k \in 1..Len(report) : k < next =>
       \E i \in DOMAIN obj : obj[i] = RowOf(p, report[k]) /\ Find(rows, p, report[k]) \subseteq {i}
  /\ \A i \in DOMAIN obj : \E k \in 1..Len(report) :
       /\ k < next /\ obj[i] = RowOf(p, report[k])
       /\ rows[i] # None => i \in Find(rows, p, report[k])
       /\ rows[i] = None => Find(rows, p, report[k]) = {}
  /\ \A i, j \in DOMAIN obj : i # j => ~Collide(obj[i], obj[j])

Undisturbed(w) == Open(w) /\ Alone(w) /\ PlainIn(machine, run[w].prov, run[w].report)

ExactState(w) ==
  /\ run[w].pc = "insert" => Found(w) = {}
  /\ ExactIn(machine, run[w].prov, run[w].report, run[w].next, run[w].obj)
  /\ \A i \in DOMAIN run[w].written : run[w].written[i] = run[w].obj[i]

ExactInv == \A w \in Worker : Undisturbed(w) => ExactState(w)

LEMMA PlainIsUndisturbed ==
  ASSUME TInv, NEW w \in Worker, Open(w), Alone(w), Plain(run[w].prov, run[w].report)
  PROVE  Undisturbed(w)
<1>1. DOMAIN run[w].report = 1..Len(run[w].report)
  BY SessionFields DEF TInv
<1> QED
  BY <1>1 DEF Undisturbed, Plain, PlainIn, Target

LEMMA AssignedRow ==
  ASSUME NEW w \in Worker, NEW rec
  PROVE  Assigned(w, rec) = RowOf(run[w].prov, rec)
  BY DEF Assigned, RowOf

(* One machine at most answers to a record, and one whose row collides with what is *)
(* assigned from the record is that machine.                                        *)
LEMMA TargetIsOne ==
  ASSUME NEW rows, Unique(rows), NEW p \in Provisioner, NEW rec,
         NEW i \in Find(rows, p, rec), NEW j \in Find(rows, p, rec)
  PROVE  i = j
<1>1. p # None
  BY InventoryAssumption
<1>2. i \in Id /\ j \in Id /\ rows[i] # None /\ rows[j] # None /\ Collide(rows[i], rows[j])
  BY <1>1 DEF Find, ByExternalId, ByHostname, Collide
<1> QED
  BY <1>2 DEF Unique

LEMMA CollidingIsTarget ==
  ASSUME NEW rows, NEW p, NEW rec, NEW j \in Id, rows[j] # None, Collide(RowOf(p, rec), rows[j]),
         ByHostname(rows, rec.host) \subseteq Find(rows, p, rec)
  PROVE  j \in Find(rows, p, rec)
<1>1. CASE rows[j].host = rec.host
  BY <1>1 DEF ByHostname
<1>2. CASE rows[j].ext = rec.ext /\ rec.ext # None /\ rows[j].prov = p
  BY <1>2 DEF Find, ByExternalId
<1> QED
  BY <1>1, <1>2 DEF Collide, RowOf

LEMMA PlainRecords ==
  ASSUME NEW rows, NEW p, NEW report, PlainIn(rows, p, report),
         NEW k \in 1..Len(report), NEW l \in 1..Len(report), l # k
  PROVE  /\ report[k].host # report[l].host
         /\ report[k].ext = None \/ report[k].ext # report[l].ext
         /\ Find(rows, p, report[k]) \cap Find(rows, p, report[l]) = {}
         /\ ~Collide(RowOf(p, report[k]), RowOf(p, report[l]))
<1>1. /\ report[k].host # report[l].host
      /\ report[k].ext = None \/ report[k].ext # report[l].ext
      /\ Find(rows, p, report[k]) \cap Find(rows, p, report[l]) = {}
  BY DEF PlainIn
<1> QED
  BY <1>1 DEF Collide, RowOf

(* The objects after the record n has been taken into the object i *)
LEMMA ExactGrows ==
  ASSUME NEW rows, Unique(rows), NEW p \in Provisioner, NEW report \in Seq(Record),
         NEW n \in 1..Len(report), PlainIn(rows, p, report), NEW obj, NEW obj2, NEW i,
         ExactIn(rows, p, report, n, obj),
         DOMAIN obj2 = DOMAIN obj \cup {i}, obj2[i] = RowOf(p, report[n]),
         \A j \in DOMAIN obj \ {i} : obj2[j] = obj[j],
         \/ rows[i] # None /\ i \in Find(rows, p, report[n])
         \/ rows[i] = None /\ Find(rows, p, report[n]) = {} /\ i \notin DOMAIN obj
  PROVE  i \notin DOMAIN obj /\ ExactIn(rows, p, report, n + 1, obj2)
<1>1. Len(report) \in Nat /\ n \in Nat
  OBVIOUS
<1>2. ASSUME NEW k \in 1..Len(report), k < n
      PROVE  /\ Find(rows, p, report[n]) \cap Find(rows, p, report[k]) = {}
             /\ ~Collide(RowOf(p, report[n]), RowOf(p, report[k]))
  <2>1. k # n
    BY <1>1, <1>2
  <2> QED
    BY <2>1, PlainRecords
<1>3. i \notin DOMAIN obj
  <2>1. \A j \in DOMAIN obj : \E k \in 1..Len(report) : k < n /\ (rows[j] # None => j \in Find(rows, p, report[k]))
    BY DEF ExactIn
  <2> QED
    BY <1>2, <2>1
<1>4. \A k \in 1..Len(report) : k < n + 1 =>
        \E j \in DOMAIN obj2 : obj2[j] = RowOf(p, report[k]) /\ Find(rows, p, report[k]) \subseteq {j}
  <2> SUFFICES ASSUME NEW k \in 1..Len(report), k < n + 1
               PROVE  \E j \in DOMAIN obj2 : obj2[j] = RowOf(p, report[k]) /\ Find(rows, p, report[k]) \subseteq {j}
    OBVIOUS
  <2>1. CASE k = n
    <3>1. Find(rows, p, report[n]) \subseteq {i}
      BY TargetIsOne
    <3> QED
      BY <2>1, <3>1
  <2>2. CASE k < n
    <3>1. PICK j \in DOMAIN obj : obj[j] = RowOf(p, report[k]) /\ Find(rows, p, report[k]) \subseteq {j}
      BY <2>2 DEF ExactIn
    <3> QED
      BY <1>3, <3>1
  <2> QED
    BY <1>1, <2>1, <2>2
<1>5. \A j \in DOMAIN obj2 : \E k \in 1..Len(report) :
        /\ k < n + 1 /\ obj2[j] = RowOf(p, report[k])
        /\ rows[j] # None => j \in Find(rows, p, report[k])
        /\ rows[j] = None => Find(rows, p, report[k]) = {}
  <2> SUFFICES ASSUME NEW j \in DOMAIN obj2
               PROVE  \E k \in 1..Len(report) :
                        /\ k < n + 1 /\ obj2[j] = RowOf(p, report[k])
                        /\ rows[j] # None => j \in Find(rows, p, report[k])
                        /\ rows[j] = None => Find(rows, p, report[k]) = {}
    OBVIOUS
  <2>1. CASE j = i
    <3>1. n < n + 1
      BY <1>1
    <3> QED
      BY <2>1, <3>1
  <2>2. CASE j # i
    <3>1. PICK k \in 1..Len(report) :
            /\ k < n /\ obj[j] = RowOf(p, report[k])
            /\ rows[j] # None => j \in Find(rows, p, report[k])
            /\ rows[j] = None => Find(rows, p, report[k]) = {}
      BY <2>2 DEF ExactIn
    <3>2. k < n + 1 /\ obj2[j] = RowOf(p, report[k])
      BY <1>1, <2>2, <3>1
    <3> QED
      BY <3>1, <3>2
  <2> QED
    BY <2>1, <2>2
<1>6. \A j, k \in DOMAIN obj2 : j # k => ~Collide(obj2[j], obj2[k])
  <2>1. \A j, k \in DOMAIN obj : j # k => ~Collide(obj[j], obj[k])
    BY DEF ExactIn
  <2>2. \A j \in DOMAIN obj : \E k \in 1..Len(report) : k < n /\ obj[j] = RowOf(p, report[k])
    BY DEF ExactIn
  <2>3. \A j \in DOMAIN obj : ~Collide(RowOf(p, report[n]), obj[j])
    BY <1>2, <2>2
  <2> QED
    BY <2>1, <2>3, CollideSymmetric
<1> QED
  BY <1>3, <1>4, <1>5, <1>6 DEF ExactIn

(* Such a run finds for a record what was there before it began. *)
LEMMA FoundIsTarget ==
  ASSUME TInv, NEW w \in Worker, Undisturbed(w), ExactState(w), run[w].next <= Len(run[w].report)
  PROVE  Found(w) = Find(machine, run[w].prov, Current(w))
<1> DEFINE r == run[w]
           n == r.next
           rec == Current(w)
           target == Find(machine, r.prov, rec)
<1>1. /\ Typed /\ Coherent(w) /\ Open(w) /\ n \in 1..Len(r.report) /\ rec = r.report[n]
      /\ DOMAIN r.written \subseteq DOMAIN r.obj /\ DOMAIN r.obj \subseteq Id
      /\ PlainIn(machine, r.prov, r.report)
  BY CurrentType, SessionFields DEF TInv, Undisturbed, Coherent, Current
<1>2. /\ \A i \in Id : View(w)[i] = IF i \in DOMAIN r.written THEN r.obj[i] ELSE machine[i]
      /\ \A i \in DOMAIN r.written : View(w)[i] # None
  BY <1>1, ViewType DEF ExactState
<1>3. ASSUME NEW i \in DOMAIN r.written
      PROVE  /\ r.obj[i].host # rec.host /\ (rec.ext = None \/ r.obj[i].ext # rec.ext)
             /\ i \notin target
  <2>1. PICK k \in 1..Len(r.report) :
          /\ k < n /\ r.obj[i] = RowOf(r.prov, r.report[k])
          /\ machine[i] # None => i \in Find(machine, r.prov, r.report[k])
    BY <1>1 DEF ExactState, ExactIn
  <2>2. k # n
    BY <1>1, <2>1
  <2>3. /\ rec.host # r.report[k].host /\ (rec.ext = None \/ rec.ext # r.report[k].ext)
        /\ target \cap Find(machine, r.prov, r.report[k]) = {}
    BY <1>1, <2>2 DEF PlainIn
  <2>4. i \in target => machine[i] # None
    BY DEF Find, ByExternalId, ByHostname
  <2> QED
    BY <2>1, <2>3, <2>4 DEF RowOf
<1>4. ByHostname(machine, rec.host) \subseteq target
  BY <1>1 DEF PlainIn
<1>5. ByHostname(View(w), rec.host) = ByHostname(machine, rec.host)
  <2>1. \A i \in DOMAIN r.written : i \notin ByHostname(machine, rec.host) /\ i \notin ByHostname(View(w), rec.host)
    BY <1>1, <1>2, <1>3, <1>4 DEF ByHostname
  <2> QED
    BY <1>2, <2>1 DEF ByHostname
<1>6. ByExternalId(View(w), r.prov, rec.ext) = ByExternalId(machine, r.prov, rec.ext)
  <2>1. ByExternalId(machine, r.prov, rec.ext) \subseteq target
    BY DEF Find
  <2>2. \A i \in DOMAIN r.written : /\ i \notin ByExternalId(machine, r.prov, rec.ext)
                                    /\ i \notin ByExternalId(View(w), r.prov, rec.ext)
    BY <1>1, <1>2, <1>3, <2>1 DEF ByExternalId
  <2> QED
    BY <1>2, <2>2 DEF ByExternalId
<1> QED
  BY <1>5, <1>6 DEF Found, Find

(* The rows it is about to write collide with nothing. *)
LEMMA ObjectsAreFree ==
  ASSUME NEW rows, Unique(rows), NEW p \in Provisioner, NEW report, NEW n, NEW obj,
         PlainIn(rows, p, report), ExactIn(rows, p, report, n, obj),
         NEW i \in DOMAIN obj, NEW j \in Id \ {i}, rows[j] # None
  PROVE  ~Collide(obj[i], rows[j])
<1>1. PICK k \in 1..Len(report) :
        /\ obj[i] = RowOf(p, report[k])
        /\ rows[i] # None => i \in Find(rows, p, report[k])
        /\ rows[i] = None => Find(rows, p, report[k]) = {}
  BY DEF ExactIn
<1>2. ByHostname(rows, report[k].host) \subseteq Find(rows, p, report[k])
  BY DEF PlainIn
<1>3. Collide(obj[i], rows[j]) => j \in Find(rows, p, report[k])
  BY <1>1, <1>2, CollidingIsTarget
<1> QED
  BY <1>1, <1>3, TargetIsOne

(* A flush of a run that nobody has raced writes its objects. *)
LEMMA FlushedObject ==
  ASSUME TInv, NEW w \in Worker, SessionAudit(w), run[w].others = {}, NEW i \in Dirty(w)
  PROVE  Flushed(w)[i] = run[w].obj[i] /\ View(w)[i] # None /\ i \in DOMAIN run[w].obj /\ i \in Id
<1>1. Typed /\ Coherent(w)
  BY DEF TInv
<1>2. /\ i \in Id /\ i \in DOMAIN run[w].obj /\ run[w].base[i] \in Row /\ run[w].obj[i] \in Row
      /\ Flushed(w)[i] = Write(run[w].base[i], run[w].obj[i], View(w)[i])
  BY <1>1, FlushedType
<1>3. View(w)[i] # None /\ run[w].base[i] = View(w)[i]
  BY <1>1, <1>2 DEF SessionAudit, Coherent
<1> QED
  BY <1>2, <1>3, WriteType

(* Every row that such a run sees, flushed or not, is an object of it or committed. *)
LEMMA SeenRows ==
  ASSUME TInv, NEW w \in Worker, SessionAudit(w), ExactState(w), run[w].others = {}, NEW j \in Id,
         NEW row \in {View(w)[j]} \cup {Flushed(w)[k] : k \in Dirty(w) \cap {j}}
  PROVE  (j \in DOMAIN run[w].obj /\ row = run[w].obj[j]) \/ row = machine[j]
<1>1. Typed /\ Coherent(w)
  BY DEF TInv
<1>2. j \in Dirty(w) => Flushed(w)[j] = run[w].obj[j] /\ j \in DOMAIN run[w].obj
  BY FlushedObject
<1>3. j \in DOMAIN run[w].written => View(w)[j] = run[w].obj[j] /\ j \in DOMAIN run[w].obj
  BY <1>1, ViewType DEF Coherent, ExactState
<1>4. j \notin DOMAIN run[w].written => View(w)[j] = machine[j]
  BY <1>1, ViewType
<1> QED
  BY <1>2, <1>3, <1>4

LEMMA NoCauseNoConflict ==
  ASSUME TInv, OwnInv, UniqueInv, AuditInv, ExactInv
  PROVE  ConflictHasCause
<1> SUFFICES ASSUME NEW w \in Worker, Undisturbed(w)
             PROVE  ~Conflict(w) /\ (run[w].pc = "insert" => ~InsertConflict(w))
  BY PlainIsUndisturbed DEF ConflictHasCause
<1>1. /\ Typed /\ Coherent(w) /\ Open(w) /\ SessionAudit(w) /\ ExactState(w)
      /\ run[w].others = {} /\ provisioner[run[w].prov] # None /\ run[w].prov \in Provisioner
      /\ Unique(machine) /\ PlainIn(machine, run[w].prov, run[w].report)
      /\ ExactIn(machine, run[w].prov, run[w].report, run[w].next, run[w].obj)
  BY DEF TInv, AuditInv, UniqueInv, ExactInv, ExactState, Undisturbed, Alone, Coherent
<1>2. ~Missing(w)
  <2>1. \A i \in Dirty(w) : View(w)[i] # None
    BY <1>1, FlushedObject
  <2>2. \A s \in run[w].snaps : s.machine \in DOMAIN run[w].base
    BY <1>1, SessionFields DEF Coherent, Snapshot
  <2>3. \A s \in run[w].snaps : View(w)[s.machine] # None
    BY <1>1, <2>2 DEF SessionAudit
  <2> QED
    BY <1>1, <2>1, <2>3 DEF Missing
<1>3. ~Duplicate(w)
  <2> SUFFICES ASSUME NEW i \in Dirty(w), NEW j \in Id \ {i},
                      NEW row \in {View(w)[j]} \cup {Flushed(w)[k] : k \in Dirty(w) \cap {j}}, row # None
               PROVE  ~Collide(Flushed(w)[i], row)
    BY DEF Duplicate
  <2>1. Flushed(w)[i] = run[w].obj[i] /\ i \in DOMAIN run[w].obj
    BY <1>1, FlushedObject
  <2>2. CASE j \in DOMAIN run[w].obj /\ row = run[w].obj[j]
    BY <1>1, <2>1, <2>2 DEF ExactIn
  <2>3. CASE row = machine[j]
    BY <1>1, <2>1, <2>3, ObjectsAreFree
  <2> QED
    BY <1>1, <2>2, <2>3, SeenRows
<1>4. ASSUME run[w].pc = "insert"
      PROVE  ~InsertConflict(w)
  <2>1. /\ run[w].next \in 1..Len(run[w].report) /\ Current(w) = run[w].report[run[w].next]
        /\ run[w].next <= Len(run[w].report)
    BY <1>1, <1>4, CurrentType DEF Coherent, Current
  <2>2. Find(machine, run[w].prov, Current(w)) = {}
    BY <1>1, <1>4, <2>1, FoundIsTarget DEF ExactState
  <2>3. ASSUME NEW j \in Id,
               NEW row \in {View(w)[j]} \cup {Flushed(w)[k] : k \in Dirty(w) \cap {j}}, row # None
        PROVE  ~Collide(Inserted(w), row)
    <3>1. Inserted(w) = RowOf(run[w].prov, Current(w))
      BY AssignedRow DEF Inserted
    <3>2. CASE j \in DOMAIN run[w].obj /\ row = run[w].obj[j]
      <4>1. PICK k \in 1..Len(run[w].report) : k < run[w].next /\ run[w].obj[j] = RowOf(run[w].prov, run[w].report[k])
        BY <1>1, <3>2 DEF ExactIn
      <4>2. k # run[w].next
        BY <2>1, <4>1
      <4> QED
        BY <1>1, <2>1, <3>1, <3>2, <4>1, <4>2, PlainRecords
    <3>3. CASE row = machine[j]
      <4>1. ByHostname(machine, Current(w).host) \subseteq Find(machine, run[w].prov, Current(w))
        BY <1>1, <2>1 DEF PlainIn
      <4> QED
        BY <2>2, <2>3, <3>1, <3>3, <4>1, CollidingIsTarget
    <3> QED
      BY <1>1, <2>3, <3>2, <3>3, SeenRows
  <2> QED
    BY <1>2, <1>3, <2>3 DEF InsertConflict, Conflict
<1> QED
  BY <1>2, <1>3, <1>4 DEF Conflict

(* A session that a step does not touch, or only tells of no machine *)
LEMMA UnmovedExact ==
  ASSUME ExactInv, NEW x \in Worker, Undisturbed(x)', UNCHANGED machine,
         run'[x].pc = run[x].pc, run'[x].prov = run[x].prov, run'[x].report = run[x].report,
         run'[x].next = run[x].next, run'[x].obj = run[x].obj, run'[x].written = run[x].written,
         run[x].others = {}, provisioner[run[x].prov] # None
  PROVE  ExactState(x)'
<1>1. Undisturbed(x)
  BY DEF Undisturbed, Open, Alone
<1>2. ExactState(x)
  BY <1>1 DEF ExactInv
<1>3. View(x)' = View(x) /\ Found(x)' = Found(x)
  BY DEF View, Found, Current
<1> QED
  BY <1>2, <1>3 DEF ExactState

LEMMA TakingExact ==
  ASSUME TInv, UniqueInv, ExactInv, NEW w \in Worker, Taking(w), Undisturbed(w)'
  PROVE  ExactState(w)'
<1> DEFINE r == run[w]
           s == run'[w]
<1>1. PICK i \in Found(w) : Took(w, i)
  BY DEF Taking
<1>2. UNCHANGED <<machine, provisioner>>
  BY DEF Taking, Private, Tables
<1>3. /\ r.pc = "records" /\ r.next <= Len(r.report) /\ s.pc = "records" /\ s.next = r.next + 1
      /\ s.prov = r.prov /\ s.report = r.report /\ s.others = r.others /\ s.written = r.written
      /\ DOMAIN s.obj = DOMAIN r.obj \cup {i} /\ s.obj[i] = Assigned(w, Current(w))
      /\ \A j \in DOMAIN r.obj \ {i} : s.obj[j] = r.obj[j]
  BY <1>1 DEF Took, Kept
<1>4. Undisturbed(w) /\ ExactState(w)
  BY <1>2, <1>3 DEF ExactInv, Undisturbed, Open, Alone
<1>5. /\ r.next \in 1..Len(r.report) /\ Current(w) = r.report[r.next]
      /\ r.prov \in Provisioner /\ DOMAIN r.written \subseteq DOMAIN r.obj /\ r.report \in Seq(Record)
  BY <1>3, <1>4, CurrentType, SessionFields DEF TInv, Undisturbed, Coherent, Current
<1>6. i \in Find(machine, r.prov, r.report[r.next]) /\ machine[i] # None
  <2>1. i \in Find(machine, r.prov, Current(w))
    BY <1>3, <1>4, FoundIsTarget
  <2> QED
    BY <1>5, <2>1 DEF Find, ByExternalId, ByHostname
<1>7. /\ Unique(machine) /\ PlainIn(machine, r.prov, r.report)
      /\ ExactIn(machine, r.prov, r.report, r.next, r.obj)
      /\ s.obj[i] = RowOf(r.prov, r.report[r.next])
  BY <1>3, <1>4, <1>5, AssignedRow DEF UniqueInv, Undisturbed, ExactState
<1> DEFINE o == r.obj
           o2 == s.obj
           n == r.next
           report == r.report
           p == r.prov
<1>8. /\ n \in 1..Len(report) /\ p \in Provisioner /\ report \in Seq(Record)
      /\ PlainIn(machine, p, report) /\ ExactIn(machine, p, report, n, o)
      /\ DOMAIN o2 = DOMAIN o \cup {i} /\ o2[i] = RowOf(p, report[n])
      /\ \A j \in DOMAIN o \ {i} : o2[j] = o[j]
      /\ i \in Find(machine, p, report[n])
  BY <1>3, <1>5, <1>6, <1>7
<1> HIDE DEF o, o2, n, report, p
<1>9. i \notin DOMAIN o /\ ExactIn(machine, p, report, n + 1, o2)
  BY <1>6, <1>7, <1>8, ExactGrows
<1>10. i \notin DOMAIN r.obj /\ ExactIn(machine, r.prov, r.report, r.next + 1, s.obj)
  BY <1>9 DEF o, o2, n, report, p
<1>11. \A j \in DOMAIN s.written : s.written[j] = s.obj[j]
  BY <1>3, <1>4, <1>5, <1>10 DEF ExactState
<1> QED
  BY <1>2, <1>3, <1>10, <1>11 DEF ExactState

LEMMA AddingExact ==
  ASSUME TInv, OwnInv, UniqueInv, AuditInv, ExactInv, NEW w \in Worker, Adding(w), Undisturbed(w)'
  PROVE  ExactState(w)'
<1> DEFINE r == run[w]
           s == run'[w]
           i == nextId
<1>1. UNCHANGED <<machine, provisioner>>
  BY DEF Adding, Private, Tables
<1>2. /\ r.pc = "insert" /\ r.next <= Len(r.report) /\ s.pc = "records" /\ s.next = r.next + 1
      /\ s.prov = r.prov /\ s.report = r.report /\ s.others = r.others /\ i \in Id
      /\ DOMAIN s.obj = DOMAIN r.obj \cup {i} /\ s.obj[i] = Assigned(w, Current(w))
      /\ \A j \in DOMAIN r.obj \ {i} : s.obj[j] = r.obj[j]
      /\ DOMAIN s.written = DOMAIN r.written \cup Dirty(w) \cup {i} /\ s.written[i] = Assigned(w, Current(w))
      /\ \A j \in Dirty(w) \ {i} : s.written[j] = Flushed(w)[j]
      /\ \A j \in DOMAIN r.written \ (Dirty(w) \cup {i}) : s.written[j] = r.written[j]
  BY DEF Adding, Added, Kept, Inserted
<1>3. Undisturbed(w) /\ ExactState(w) /\ r.others = {}
  BY <1>1, <1>2 DEF ExactInv, Undisturbed, Open, Alone
<1>4. /\ r.next \in 1..Len(r.report) /\ Current(w) = r.report[r.next]
      /\ r.prov \in Provisioner /\ DOMAIN r.written \subseteq DOMAIN r.obj /\ r.report \in Seq(Record)
      /\ DOMAIN r.base = DOMAIN r.obj
  BY <1>2, <1>3, CurrentType, SessionFields DEF TInv, Undisturbed, Coherent, Current
<1>5. i \notin DOMAIN r.obj /\ machine[i] = None
  BY <1>2, <1>4 DEF OwnInv, IdsAreOld, Id
<1>6. Find(machine, r.prov, r.report[r.next]) = {}
  <2>1. Find(machine, r.prov, Current(w)) = {}
    BY <1>2, <1>3, FoundIsTarget DEF ExactState
  <2> QED
    BY <1>4, <2>1
<1>7. /\ Unique(machine) /\ PlainIn(machine, r.prov, r.report)
      /\ ExactIn(machine, r.prov, r.report, r.next, r.obj)
      /\ s.obj[i] = RowOf(r.prov, r.report[r.next])
  BY <1>2, <1>3, <1>4, AssignedRow DEF UniqueInv, Undisturbed, ExactState
<1> DEFINE o == r.obj
           o2 == s.obj
           n == r.next
           report == r.report
           p == r.prov
<1>8. /\ n \in 1..Len(report) /\ p \in Provisioner /\ report \in Seq(Record)
      /\ PlainIn(machine, p, report) /\ ExactIn(machine, p, report, n, o)
      /\ DOMAIN o2 = DOMAIN o \cup {i} /\ o2[i] = RowOf(p, report[n])
      /\ \A j \in DOMAIN o \ {i} : o2[j] = o[j]
      /\ i \notin DOMAIN o /\ Find(machine, p, report[n]) = {}
  BY <1>2, <1>4, <1>5, <1>6, <1>7
<1> HIDE DEF o, o2, n, report, p, i
<1>9. ExactIn(machine, p, report, n + 1, o2)
  BY <1>5, <1>7, <1>8, ExactGrows
<1>10. ExactIn(machine, r.prov, r.report, r.next + 1, s.obj)
  BY <1>9 DEF o, o2, n, report, p
<1>11. \A j \in DOMAIN s.written : s.written[j] = s.obj[j]
  <2>1. \A j \in Dirty(w) : Flushed(w)[j] = r.obj[j] /\ j \in DOMAIN r.obj
    BY <1>3, FlushedObject DEF AuditInv
  <2>2. \A j \in DOMAIN r.written : r.written[j] = r.obj[j]
    BY <1>3 DEF ExactState
  <2> QED
    BY <1>2, <1>4, <1>5, <2>1, <2>2
<1> QED
  BY <1>1, <1>2, <1>10, <1>11 DEF ExactState

LEMMA ExactInvariance ==
  TInv /\ OwnInv /\ UniqueInv /\ AuditInv /\ ExactInv /\ [Next]_vars => ExactInv'
<1> SUFFICES ASSUME TInv, OwnInv, UniqueInv, AuditInv, ExactInv, [Next]_vars,
                    NEW x \in Worker, Undisturbed(x)'
             PROVE  ExactState(x)'
  BY DEF ExactInv
<1>1. run'[x].pc # "idle" /\ run'[x].others = {} /\ provisioner'[run'[x].prov] # None
  BY DEF Undisturbed, Open, Alone
<1>2. ASSUME run'[x] = run[x], UNCHANGED machine, provisioner[run[x].prov] # None
      PROVE  ExactState(x)'
  BY <1>1, <1>2, UnmovedExact
<1>3. ASSUME run'[x] = run[x], NoneSucceeds
      PROVE  provisioner[run[x].prov] # None
  <2>1. Open(x)
    BY <1>1, <1>3 DEF Open
  <2>2. run[x].prov \in Provisioner
    BY <2>1 DEF TInv, Coherent
  <2> QED
    BY <1>1, <1>3, <2>2 DEF NoneSucceeds
<1>4. ASSUME NEW ids, Told(x, ids), \A i \in Id \ ids : machine'[i] = machine[i],
             machine' \in [Id -> Row \cup {None}],
             \A q \in Provisioner : provisioner'[q] # None => provisioner[q] # None
      PROVE  ExactState(x)'
  <2>1. Open(x) /\ run[x].others = {} /\ ids = {}
    BY <1>1, <1>4 DEF Told, Open
  <2>2. machine' = machine
    BY <1>4, <2>1 DEF TInv, Typed
  <2>3. run'[x].prov = run[x].prov /\ run[x].prov \in Provisioner
    BY <1>4, <2>1 DEF Told, TInv, Coherent
  <2>4. provisioner[run[x].prov] # None
    BY <1>1, <1>4, <2>3
  <2> QED
    BY <1>4, <2>1, <2>2, <2>4, UnmovedExact DEF Told
<1>5. ASSUME NEW w \in Worker, NEW p \in Provisioner, Starting(w, p)
      PROVE  ExactState(x)'
  <2>1. CASE run'[x] = run[x]
    BY <1>2, <1>3, <1>5, <2>1 DEF Starting, Private, Tables
  <2>2. CASE run'[x] # run[x]
    <3>1. x = w /\ Began(w, p)
      BY <1>5, <2>2 DEF Starting, Private
    <3> QED
      BY <3>1 DEF Began, ExactState, ExactIn
  <2> QED
    BY <2>1, <2>2
<1>6. ASSUME NEW w \in Worker, Private(w), x # w, NoneSucceeds
      PROVE  ExactState(x)'
  BY <1>2, <1>3, <1>6 DEF Private, Tables
<1>7. ASSUME NEW w \in Worker, Taking(w) \/ Adding(w) \/ Overlooking(w) \/ Ending(w) \/ Entering(w)
      PROVE  Private(w) /\ NoneSucceeds
  BY <1>7, NoneSucceedsAtRest DEF Taking, Adding, Overlooking, Ending, Entering, TInv
<1>8. ASSUME Overlooking(x)
      PROVE  ExactState(x)'
  <2>1. /\ Overlooked(x) /\ Kept(x) /\ UNCHANGED <<machine, provisioner>>
    BY <1>8 DEF Overlooking, Overlooked, Private, Tables
  <2>2. Undisturbed(x) /\ ExactState(x)
    BY <2>1 DEF Overlooked, Kept, ExactInv, Undisturbed, Open, Alone
  <2>3. View(x)' = View(x)
    BY <2>1 DEF Overlooked, View
  <2>4. Found(x)' = {}
    BY <2>1, <2>3 DEF Overlooked, Kept, Found, Current
  <2> QED
    BY <2>1, <2>2, <2>4 DEF Overlooked, Kept, ExactState
<1>9. ASSUME NEW w \in Worker, Publishing(w)
      PROVE  ExactState(x)'
  <2>1. CASE x = w
    BY <1>1, <1>9, <2>1, IdleType DEF Publishing, Publishes
  <2>2. CASE x # w
    <3>1. \A i \in Id \ Touched(w) : machine'[i] = machine[i]
      BY <1>9, CommittedRows DEF Touched
    <3> QED
      BY <1>4, <1>9, <2>2, <3>1 DEF Publishing, Publishes
  <2> QED
    BY <2>1, <2>2
<1>10. ASSUME NEW ids \in SUBSET Id, Removing(ids) \/ Releasing(ids)
       PROVE  ExactState(x)'
  BY <1>4, <1>10 DEF Removing, Removes, Releasing, Releases, NoneSucceeds
<1>11. ASSUME Resting
       PROVE  ExactState(x)'
  <2>1. UNCHANGED <<machine, run, provisioner>>
    BY <1>11 DEF Resting
  <2> QED
    BY <1>1, <1>2, <2>1
<1>12. ASSUME Ending(x)
       PROVE  ExactState(x)'
  BY <1>1, <1>12, IdleType DEF Ending
<1>13. ASSUME Entering(x)
       PROVE  ExactState(x)'
  <2>1. /\ run'[x].pc = "records" /\ run'[x].next = 1
        /\ DOMAIN run'[x].obj = {} /\ DOMAIN run'[x].written = {}
    BY <1>13 DEF Entering, Entered, TInv, Coherent
  <2>2. Len(run'[x].report) \in Nat
    BY <1>13 DEF Entering, Entered, Session, Reports
  <2> QED
    BY <2>1, <2>2 DEF ExactState, ExactIn
<1> QED
  BY <1>5, <1>6, <1>7, <1>8, <1>9, <1>10, <1>11, <1>12, <1>13, TakingExact, AddingExact, Steps

-----------------------------------------------------------------------------
(* A time of start belongs to one run, and stands in last_success_at only when that *)
(* run has been committed.                                                          *)
TimesInv ==
  /\ \A q \in Provisioner : provisioner[q] # None => provisioner[q].lastSuccess <= clock
  /\ \A w \in Worker : Open(w) =>
       /\ \A x \in Worker \ {w} : Open(x) => run[x].at # run[w].at
       /\ \A q \in Provisioner : provisioner[q] # None => provisioner[q].lastSuccess # run[w].at

LEMMA TimesInvariance == TInv /\ TimesInv /\ [Next]_vars => TimesInv'
<1> SUFFICES ASSUME TInv, TimesInv, [Next]_vars PROVE TimesInv'
  OBVIOUS
<1>1. /\ clock \in Nat /\ \A w \in Worker : run[w].at \in Nat /\ (Open(w) => run[w].at <= clock)
      /\ \A q \in Provisioner : provisioner[q] # None => provisioner[q].lastSuccess \in Nat
  BY SessionFields, InventoryAssumption DEF TInv, Typed, Coherent, ProvisionerRow
<1>2. ASSUME NoneSucceeds, clock' \in {clock, clock + 1},
             \A x \in Worker : Open(x)' => Open(x) /\ run'[x].at = run[x].at
      PROVE  TimesInv'
  BY <1>1, <1>2 DEF TimesInv, NoneSucceeds
<1>3. ASSUME NEW w \in Worker, NEW p \in Provisioner, Starting(w, p)
      PROVE  TimesInv'
  <2>2. CASE Private(w) /\ Began(w, p)
    <3>1. /\ run'[w].at = clock + 1 /\ clock' = clock + 1 /\ NoneSucceeds
          /\ \A x \in Worker \ {w} : run'[x] = run[x]
      BY <1>3, <2>2 DEF Starting, Began, Private
    <3>2. \A q \in Provisioner : provisioner'[q] # None =>
            provisioner'[q].lastSuccess \in Nat /\ provisioner'[q].lastSuccess <= clock
      BY <1>1, <3>1 DEF TimesInv, NoneSucceeds
    <3>3. \A x \in Worker \ {w} : Open(x)' => Open(x) /\ run'[x].at = run[x].at /\ run'[x].at <= clock
      BY <1>1, <3>1 DEF Open
    <3>4. \A x \in Worker : run'[x].at \in Nat
      BY <1>1, <3>1
    <3>5. \A q \in Provisioner : provisioner'[q] # None => provisioner'[q].lastSuccess <= clock'
      BY <1>1, <3>1, <3>2
    <3>6. \A y \in Worker : Open(y)' =>
            /\ \A x \in Worker \ {y} : Open(x)' => run'[x].at # run'[y].at
            /\ \A q \in Provisioner : provisioner'[q] # None => provisioner'[q].lastSuccess # run'[y].at
      <4>1. ASSUME NEW y \in Worker \ {w}, Open(y)'
            PROVE  /\ \A x \in Worker \ {y} : Open(x)' => run'[x].at # run'[y].at
                   /\ \A q \in Provisioner : provisioner'[q] # None => provisioner'[q].lastSuccess # run'[y].at
        BY <1>1, <3>1, <3>3, <4>1 DEF TimesInv, NoneSucceeds
      <4>2. /\ \A x \in Worker \ {w} : Open(x)' => run'[x].at # run'[w].at
            /\ \A q \in Provisioner : provisioner'[q] # None => provisioner'[q].lastSuccess # run'[w].at
        BY <1>1, <3>1, <3>2, <3>3
      <4> QED
        BY <4>1, <4>2
    <3> QED
      BY <3>5, <3>6 DEF TimesInv
  <2> QED
    BY <1>3, <2>2 DEF Starting
<1>4. ASSUME NEW w \in Worker, Taking(w) \/ Overlooking(w) \/ Adding(w) \/ Ending(w) \/ Entering(w)
      PROVE  TimesInv'
  <2>1. NoneSucceeds /\ clock' = clock /\ Private(w)
    BY <1>4, NoneSucceedsAtRest DEF Taking, Overlooking, Adding, Ending, Entering, TInv
  <2>2. Open(w)' => Open(w) /\ run'[w].at = run[w].at
    BY <1>4, IdleType DEF Taking, Took, Overlooking, Overlooked, Adding, Added, Ending, Entering, Entered, Kept, Open
  <2> QED
    BY <1>2, <2>1, <2>2 DEF Private, Open
<1>5. ASSUME NEW ids, \A x \in Worker : Told(x, ids), NoneSucceeds, clock' = clock
      PROVE  TimesInv'
  BY <1>2, <1>5 DEF Told, Open
<1>6. ASSUME NEW ids \in SUBSET Id, Removing(ids) \/ Releasing(ids)
      PROVE  TimesInv'
  BY <1>5, <1>6, NoneSucceedsAtRest DEF Removing, Removes, Releasing, Releases, TInv
<1>7. ASSUME NEW w \in Worker, Publishing(w)
      PROVE  TimesInv'
  <2>1. /\ clock' = clock /\ ~Open(w)' /\ Open(w)
        /\ \A x \in Worker \ {w} : Open(x)' => Open(x) /\ run'[x].at = run[x].at
        /\ \A q \in Provisioner : provisioner'[q] # None =>
             /\ provisioner[q] # None
             /\ provisioner'[q].lastSuccess \in {run[w].at, provisioner[q].lastSuccess}
    BY <1>7, IdleType DEF Publishing, Publishes, Told, Open
  <2> QED
    BY <1>1, <2>1 DEF TimesInv
<1>8. Resting => TimesInv'
  BY <1>2, NoneSucceedsAtRest DEF Resting, TInv, Open
<1> QED
  BY <1>3, <1>4, <1>6, <1>7, <1>8, Steps

-----------------------------------------------------------------------------
(* The runs that nothing disturbs, all together *)

RunInv == TInv /\ OwnInv /\ UniqueInv /\ AuditInv /\ ExactInv /\ TimesInv

LEMMA InitRunInv == Init => RunInv
<1> SUFFICES ASSUME Init PROVE RunInv
  OBVIOUS
<1>1. TInv
  BY InitTInv
<1>2. OwnInv
  BY IdleType DEF Init, OwnInv, IdsAreOld, LocksAreExclusive, NewRowsAreOwn
<1>3. UniqueInv
  <2>1. \A w \in Worker : \A i \in Id : View(w)[i] = None
    BY IdleType DEF Init, View
  <2> QED
    BY <2>1, IdleType DEF Init, UniqueInv, Unique
<1>4. AuditInv
  BY IdleType DEF Init, AuditInv, AuditIsExact, HistoryIsOlder, SessionAudit, Live
<1>5. ExactInv /\ TimesInv
  BY IdleType DEF Init, ExactInv, Undisturbed, TimesInv, Open
<1> QED
  BY <1>1, <1>2, <1>3, <1>4, <1>5 DEF RunInv

LEMMA RunInvariance == RunInv /\ [Next]_vars => RunInv'
  BY NextTInv, OwnInvariance, UniqueInvariance, AuditInvariance, ExactInvariance, TimesInvariance
  DEF RunInv

(* A run meets a duplicate or a missing row only when another transaction has      *)
(* committed to its machines meanwhile, or its provisioner is gone, or its report   *)
(* names a machine twice or moves hostnames between known machines: without such a  *)
(* cause no flush of run_provisioner_inventory fails.                              *)
THEOREM ConflictsHaveCause == Spec => []ConflictHasCause
<1>1. RunInv => ConflictHasCause
  BY NoCauseNoConflict DEF RunInv
<1> QED
  BY <1>1, InitRunInv, RunInvariance, PTL DEF Spec

(* last_success_at takes the time of a run only in that run's own commit. *)
LEMMA OnlyTheCommitSucceeds ==
  ASSUME RunInv, [Next]_vars, NEW w \in Worker, Committed(w)
  PROVE  Publishing(w)
<1>1. TInv /\ TimesInv /\ Open(w)
  BY DEF RunInv, Committed
<1>2. run[w].prov \in Provisioner
  BY <1>1 DEF TInv, Coherent
<1>3. /\ provisioner[run[w].prov].lastSuccess # run[w].at
      /\ provisioner'[run[w].prov] # None /\ provisioner'[run[w].prov].lastSuccess = run[w].at
  BY <1>1, <1>2 DEF TimesInv, Committed
<1>4. ~NoneSucceeds
  BY <1>2, <1>3 DEF NoneSucceeds
<1>5. ~UNCHANGED provisioner
  BY <1>1, <1>4, NoneSucceedsAtRest DEF TInv
<1>6. ASSUME NEW x \in Worker, Publishing(x)
      PROVE  x = w
  <2>1. Open(x)
    BY <1>6 DEF Publishing, Publishes, Open
  <2>2. x # w => run[x].at # run[w].at
    BY <1>1, <2>1 DEF TimesInv
  <2>3. provisioner'[run[w].prov].lastSuccess \in {run[x].at, provisioner[run[w].prov].lastSuccess}
    BY <1>2, <1>3, <1>6 DEF Publishing
  <2> QED
    BY <1>3, <2>2, <2>3
<1> QED
  BY <1>1, <1>4, <1>5, <1>6, Steps
  DEF Starting, Entering, Taking, Overlooking, Adding, Ending, Removing, Releasing, Resting

LEMMA CommittedRunIsExact ==
  ASSUME RunInv, NEW w \in Worker, Publishing(w), Undisturbed(w)
  PROVE  /\ \A k \in DOMAIN run[w].report :
              \E i \in Id : /\ machine'[i] = Assigned(w, run[w].report[k])
                           /\ Target(run[w].prov, run[w].report[k]) \subseteq {i}
         /\ \A i \in Live :
              (\A k \in DOMAIN run[w].report : i \notin Target(run[w].prov, run[w].report[k])) =>
                machine'[i] = machine[i]
<1> DEFINE r == run[w]
<1>1. TInv /\ Typed /\ SessionAudit(w) /\ ExactState(w) /\ r.others = {}
  BY DEF RunInv, TInv, AuditInv, ExactInv, Undisturbed, Alone
<1>2. /\ ExactIn(machine, r.prov, r.report, r.next, r.obj)
      /\ r.next > Len(r.report) /\ r.next \in Nat /\ r.report \in Seq(Record)
      /\ DOMAIN r.obj \subseteq Id /\ Updated(w) \subseteq DOMAIN r.obj
  BY <1>1, SessionFields DEF ExactState, Publishing, Publishes
<1>3. DOMAIN r.report = 1..Len(r.report) /\ \A k \in DOMAIN r.report : k < r.next
  BY <1>2
<1>4. \A i \in DOMAIN r.obj : machine'[i] = r.obj[i]
  BY <1>1, PublishedObject
<1>5. ASSUME NEW k \in DOMAIN r.report
      PROVE  \E i \in Id : machine'[i] = Assigned(w, r.report[k]) /\ Target(r.prov, r.report[k]) \subseteq {i}
  <2>1. PICK i \in DOMAIN r.obj : /\ r.obj[i] = RowOf(r.prov, r.report[k])
                                  /\ Find(machine, r.prov, r.report[k]) \subseteq {i}
    BY <1>2, <1>3 DEF ExactIn
  <2> QED
    BY <1>2, <1>4, <2>1, AssignedRow DEF Target
<1>6. ASSUME NEW i \in Live, \A k \in DOMAIN r.report : i \notin Target(r.prov, r.report[k])
      PROVE  machine'[i] = machine[i]
  <2>1. i \in Id /\ machine[i] # None
    BY DEF Live
  <2>2. i \notin DOMAIN r.obj
    BY <1>2, <1>3, <1>6, <2>1 DEF ExactIn, Target
  <2> QED
    BY <1>1, <1>2, <2>1, <2>2, CommittedRows
<1> QED
  BY <1>5, <1>6

(* A run that nothing disturbs, once committed, has given every record of its report *)
(* one machine, the one it named before if there was one, with all the record says,  *)
(* and has left every other machine as it was (run_provisioner_inventory,            *)
(* _find_machine).                                                                  *)
THEOREM RunsAreExact == Spec => RunIsExact
<1>1. ASSUME RunInv, [Next]_vars, NEW w \in Worker,
             Committed(w), Alone(w), Plain(run[w].prov, run[w].report)
      PROVE  /\ \A k \in DOMAIN run[w].report :
                  \E i \in Id : /\ machine'[i] = Assigned(w, run[w].report[k])
                               /\ Target(run[w].prov, run[w].report[k]) \subseteq {i}
             /\ \A i \in Live :
                  (\A k \in DOMAIN run[w].report : i \notin Target(run[w].prov, run[w].report[k])) =>
                    machine'[i] = machine[i]
  <2>1. Publishing(w)
    BY <1>1, OnlyTheCommitSucceeds
  <2>2. Undisturbed(w)
    BY <1>1, PlainIsUndisturbed DEF RunInv, Committed
  <2> QED
    BY <1>1, <2>1, <2>2, CommittedRunIsExact
<1>2. RunInv /\ [Next]_vars =>
        [\A w \in Worker :
          Committed(w) /\ Alone(w) /\ Plain(run[w].prov, run[w].report) =>
            LET p == run[w].prov
                report == run[w].report
            IN /\ \A k \in DOMAIN report :
                    \E i \in Id :
                      /\ machine'[i] = Assigned(w, report[k])
                      /\ Target(p, report[k]) \subseteq {i}
               /\ \A i \in Live :
                    (\A k \in DOMAIN report : i \notin Target(p, report[k])) =>
                      machine'[i] = machine[i]]_vars
  BY <1>1
<1> QED
  BY <1>2, InitRunInv, RunInvariance, PTL DEF Spec, RunIsExact
=============================================================================

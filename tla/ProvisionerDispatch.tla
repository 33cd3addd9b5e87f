------------------------ MODULE ProvisionerDispatch ------------------------
(***************************************************************************)
(* The cron dispatcher of machine provisioners: several executions of      *)
(* dispatch_due_jobs reserve the due provisioners of a tick and publish an *)
(* inventory run for each; the API enables, disables and deletes           *)
(* provisioners meanwhile.                                                 *)
(* Source: internal/usecases/scheduler.py and the routes of                *)
(* app/api/routes/machines/provisioners.py.                                *)
(*                                                                         *)
(* Time is a clock that counts ticks.  A cron expression is a period: its  *)
(* slots begin at the multiples of the period (croniter, a library).       *)
(***************************************************************************)
EXTENDS Integers, FiniteSetsExt

CONSTANTS
  Provisioner,   \* provisioner rows
  Dispatcher,    \* concurrent executions of the dispatcher task
  Period,        \* Period[p]: ticks between two cron slots of p
  MaxTime,       \* bound: the last clock reading
  MaxFailures,   \* bound: publishes that raise
  MaxCrashes     \* bound: dispatchers that die

Time == 0..MaxTime
NULL == -1

ASSUME ConstantsAssumption ==
  /\ Period \in [Provisioner -> Nat \ {0}]
  /\ MaxTime \in Nat /\ MaxFailures \in Nat /\ MaxCrashes \in Nat

VARIABLES
  time,               \* the clock
  present,            \* provisioners whose row exists
  enabled,            \* the enabled column
  last_scheduled_at,  \* the reservation column: a clock reading, or NULL
  dispatcher,         \* local state of every dispatcher execution
  published,          \* published[p][t]: runs of p published by a reservation made at t
  lost,               \* <<p, t>>: p was reserved at t, never published nor put back
  failures, crashes   \* publishes that raised, dispatchers that died

vars == <<time, present, enabled, last_scheduled_at, dispatcher, published, lost, failures, crashes>>

(* locked: rows held FOR UPDATE; todo: reserved and not yet published, or not  *)
(* yet read again to be put back; restore: read again and to be written;       *)
(* previous: the reservation column of those rows as it was read first.        *)
Idle == [pc |-> "idle", now |-> 0, locked |-> {}, todo |-> {}, restore |-> {},
         previous |-> [p \in Provisioner |-> NULL]]

Locked == UNION {dispatcher[d].locked : d \in Dispatcher}

(* croniter(cron, t).get_next(): the first slot that begins after t. *)
NextRun(p, t) == (t \div Period[p] + 1) * Period[p]

(* Mutant: compares the last reservation itself, not the slot that follows it. *)
IsDueWhenOlder(p, last, now) == last = NULL \/ last < now

IsDue(p, last, now) == last = NULL \/ NextRun(p, last) <= now

Init ==
  /\ time = 0
  /\ present = Provisioner
  /\ enabled \in [Provisioner -> BOOLEAN]
  /\ last_scheduled_at = [p \in Provisioner |-> NULL]
  /\ dispatcher = [d \in Dispatcher |-> Idle]
  /\ published = [p \in Provisioner |-> [t \in Time |-> 0]]
  /\ lost = {} /\ failures = 0 /\ crashes = 0

-----------------------------------------------------------------------------
(* dispatch_due_jobs *)

StartDispatch(d) ==
  /\ dispatcher[d].pc = "idle"
  /\ dispatcher' = [dispatcher EXCEPT ![d] = [Idle EXCEPT !.pc = "started", !.now = time]]
  /\ UNCHANGED <<time, present, enabled, last_scheduled_at, published, lost, failures, crashes>>

(* Mutant: the query locks nothing and skips nothing. *)
SelectableWithoutLocks == {p \in present : enabled[p]}

(* Enabled rows that no other dispatcher has locked. *)
Selectable == {p \in present : enabled[p]} \ Locked

(* SELECT ... FOR UPDATE SKIP LOCKED, then is_due on every row; busy are the   *)
(* rows that an inventory run or a request is just writing.                    *)
SelectFrom(d, busy) ==
  LET rows == Selectable \ busy
      due  == {p \in rows : IsDue(p, last_scheduled_at[p], dispatcher[d].now)}
  IN
  /\ dispatcher[d].pc = "started"
  /\ dispatcher' = [dispatcher EXCEPT ![d] =
       [pc |-> "selected", now |-> dispatcher[d].now, locked |-> rows, todo |-> due, restore |-> {},
        previous |-> [p \in Provisioner |-> IF p \in due THEN last_scheduled_at[p] ELSE NULL]]]
  /\ UNCHANGED <<time, present, enabled, last_scheduled_at, published, lost, failures, crashes>>

SelectDue(d) == \E busy \in SUBSET Selectable : SelectFrom(d, busy)

(* Mutant: the column gets the next cron time instead of the clock reading. *)
StampNextRun(d, p) == NextRun(p, dispatcher[d].now)

Stamp(d, p) == dispatcher[d].now

(* What d is when it has still to publish rows: it ends when there are none. *)
ToPublish(d, rows) ==
  IF rows = {} THEN Idle
  ELSE [dispatcher[d] EXCEPT !.pc = "publishing", !.locked = {}, !.todo = rows]

(* Write the clock reading into the due rows and commit, which unlocks all. *)
CommitReservation(d) ==
  /\ dispatcher[d].pc = "selected"
  /\ last_scheduled_at' = [p \in Provisioner |->
       IF p \in dispatcher[d].todo THEN Stamp(d, p) ELSE last_scheduled_at[p]]
  /\ dispatcher' = [dispatcher EXCEPT ![d] = ToPublish(d, dispatcher[d].todo)]
  /\ UNCHANGED <<time, present, enabled, published, lost, failures, crashes>>

(* enqueue_provisioner: the broker accepts one run. *)
PublishOne(d) ==
  /\ dispatcher[d].pc = "publishing"
  /\ \E p \in dispatcher[d].todo :
       /\ published' = [published EXCEPT ![p][dispatcher[d].now] = @ + 1]
       /\ dispatcher' = [dispatcher EXCEPT ![d] = ToPublish(d, dispatcher[d].todo \ {p})]
  /\ UNCHANGED <<time, present, enabled, last_scheduled_at, lost, failures, crashes>>

(* enqueue_provisioner raises: what is still to do is to be put back. *)
PublishFails(d) ==
  /\ dispatcher[d].pc = "publishing"
  /\ failures < MaxFailures
  /\ failures' = failures + 1
  /\ dispatcher' = [dispatcher EXCEPT ![d].pc = "restoring"]
  /\ UNCHANGED <<time, present, enabled, last_scheduled_at, published, lost, crashes>>

(* Mutant: nothing is put back. *)
RestorableNone(d) == {}

(* Rows that still exist and that the assignment changes. *)
Restorable(d) == {p \in present : last_scheduled_at[p] # dispatcher[d].previous[p]}

(* db.get of one row and the assignment, which the ORM keeps for the commit. *)
RestoreGet(d) ==
  /\ dispatcher[d].pc = "restoring"
  /\ \E p \in dispatcher[d].todo :
       dispatcher' = [dispatcher EXCEPT ![d].todo = @ \ {p},
                                        ![d].restore = @ \cup ({p} \cap Restorable(d))]
  /\ UNCHANGED <<time, present, enabled, last_scheduled_at, published, lost, failures, crashes>>

(* The loop is over; the UPDATE waits for locked rows. *)
ReadyToRestore(d) ==
  /\ dispatcher[d].pc = "restoring" /\ dispatcher[d].todo = {}
  /\ dispatcher[d].restore \cap Locked = {}

(* One commit writes every row that was read. *)
CommitRestore(d) ==
  /\ ReadyToRestore(d)
  /\ dispatcher[d].restore \subseteq present
  /\ last_scheduled_at' = [p \in Provisioner |->
       IF p \in dispatcher[d].restore THEN dispatcher[d].previous[p] ELSE last_scheduled_at[p]]
  /\ dispatcher' = [dispatcher EXCEPT ![d] = Idle]
  /\ UNCHANGED <<time, present, enabled, published, lost, failures, crashes>>

(* What d has reserved and neither published nor put back. *)
Unfinished(d) ==
  CASE dispatcher[d].pc = "publishing" -> dispatcher[d].todo
    [] dispatcher[d].pc = "restoring"  -> dispatcher[d].todo \cup dispatcher[d].restore
    [] OTHER -> {}

(* d ends with its reservations as they are. *)
Abandon(d) ==
  /\ lost' = lost \cup {<<p, dispatcher[d].now>> : p \in Unfinished(d)}
  /\ dispatcher' = [dispatcher EXCEPT ![d] = Idle]

(* A row deleted since it was read matches no row: the commit raises and takes *)
(* the whole restoration back.                                                 *)
RestoreFails(d) ==
  /\ ReadyToRestore(d)
  /\ ~(dispatcher[d].restore \subseteq present)
  /\ Abandon(d)
  /\ UNCHANGED <<time, present, enabled, last_scheduled_at, published, failures, crashes>>

(* The process dies: an open transaction is rolled back, a commit stays. *)
DispatcherCrash(d) ==
  /\ dispatcher[d].pc # "idle"
  /\ crashes < MaxCrashes
  /\ crashes' = crashes + 1
  /\ Abandon(d)
  /\ UNCHANGED <<time, present, enabled, last_scheduled_at, published, failures>>

-----------------------------------------------------------------------------
(* API and clock *)

(* POST /provisioners/{id}/enable and /disable; the UPDATE waits for the lock. *)
SetEnabled(p) ==
  /\ p \in present \ Locked
  /\ enabled' = [enabled EXCEPT ![p] = ~@]
  /\ UNCHANGED <<time, present, last_scheduled_at, dispatcher, published, lost, failures, crashes>>

(* DELETE /provisioners/{id}; a row that is gone is not enabled. *)
DeleteProvisioner(p) ==
  /\ p \in present \ Locked
  /\ present' = present \ {p}
  /\ enabled' = [enabled EXCEPT ![p] = FALSE]
  /\ UNCHANGED <<time, last_scheduled_at, dispatcher, published, lost, failures, crashes>>

Tick ==
  /\ time < MaxTime
  /\ time' = time + 1
  /\ UNCHANGED <<present, enabled, last_scheduled_at, dispatcher, published, lost, failures, crashes>>

-----------------------------------------------------------------------------
DispatcherNext(d) ==
  \/ StartDispatch(d) \/ SelectDue(d) \/ CommitReservation(d)
  \/ PublishOne(d) \/ PublishFails(d) \/ DispatcherCrash(d)
  \/ RestoreGet(d) \/ CommitRestore(d) \/ RestoreFails(d)

Next ==
  \/ \E d \in Dispatcher : DispatcherNext(d)
  \/ \E p \in Provisioner : SetEnabled(p) \/ DeleteProvisioner(p)
  \/ Tick

Spec == Init /\ [][Next]_vars

(* Beat starts a dispatcher every tick and a dispatcher that runs goes on; no  *)
(* row is being written whenever a query runs, and an UPDATE that waits for a  *)
(* row gets it in the end.                                                     *)
FairSpec ==
  /\ Spec
  /\ \A d \in Dispatcher :
       /\ WF_vars(StartDispatch(d) \/ CommitReservation(d) \/ PublishOne(d) \/ RestoreGet(d))
       /\ SF_vars(SelectFrom(d, {}) \/ CommitRestore(d) \/ RestoreFails(d))

-----------------------------------------------------------------------------
(* Properties *)

DispatcherState ==
  [pc : {"idle", "started", "selected", "publishing", "restoring"}, now : Time,
   locked : SUBSET Provisioner, todo : SUBSET Provisioner, restore : SUBSET Provisioner,
   previous : [Provisioner -> {NULL} \cup Time]]

(* Every variable stays within its type. *)
TypeOK ==
  /\ time \in Time
  /\ present \subseteq Provisioner
  /\ enabled \in [Provisioner -> BOOLEAN]
  /\ last_scheduled_at \in [Provisioner -> {NULL} \cup Time]
  /\ dispatcher \in [Dispatcher -> DispatcherState]
  /\ published \in [Provisioner -> [Time -> Nat]]
  /\ lost \subseteq Provisioner \X Time
  /\ failures \in 0..MaxFailures /\ crashes \in 0..MaxCrashes

(* No cron slot of a provisioner is dispatched twice: two publications come    *)
(* from two reservations with the beginning of a slot between them ("Reserve   *)
(* rows first so concurrent schedulers cannot double-dispatch the same cron    *)
(* slot").                                                                     *)
OneDispatchPerSlot ==
  \A p \in Provisioner, s, t \in Time :
    /\ published[p][t] <= 1
    /\ s < t /\ published[p][s] > 0 /\ published[p][t] > 0 => NextRun(p, s) <= t

(* Dispatchers that overlap and crash cannot break it as long as the broker    *)
(* accepts every run.                                                          *)
OneDispatchUnlessPublishFails == failures = 0 => OneDispatchPerSlot

Dispatches(p, slot) ==
  MapThenSumSet(LAMBDA t : published[p][t], {t \in Time : t \div Period[p] = slot})

(* What a failed publish writes back may be older than the reservation that    *)
(* another dispatcher has made since, and then takes that one back: the slot   *)
(* is published again.  Every failure costs a slot one publication at most.    *)
ExtraDispatchesAreFailures ==
  \A p \in Provisioner, t \in Time : Dispatches(p, t \div Period[p]) <= 1 + failures

(* The run that p was reserved for at t was published, is still to be published *)
(* or put back, or was lost.                                                    *)
AnsweredFor(p, t) ==
  \/ published[p][t] > 0
  \/ <<p, t>> \in lost
  \/ \E d \in Dispatcher : p \in Unfinished(d) /\ dispatcher[d].now = t

(* A provisioner is not due for one reason only: the run of its slot was       *)
(* published, or a dispatcher still has to publish it or to put the slot back, *)
(* or was lost with one that died or whose restoration rolled back.  Whatever  *)
(* a failed publish or an overlapping dispatcher writes over the column later, *)
(* nothing else leaves a slot marked as taken.                                 *)
ReservedIsPublished ==
  \A p \in present : ~IsDue(p, last_scheduled_at[p], time) => AnsweredFor(p, last_scheduled_at[p])

(* d still has to publish the run that p was reserved for at t. *)
Pending(d, p, t) ==
  dispatcher[d].pc = "publishing" /\ p \in dispatcher[d].todo /\ dispatcher[d].now = t

(* What keeps OneDispatchUnlessPublishFails inductive.  A claim on p at t is a  *)
(* publication, or a reservation still to be published.                        *)
Claimed(p, t) == published[p][t] > 0 \/ \E d \in Dispatcher : Pending(d, p, t)

(* Every claim is covered by the reservation column.                           *)
ClaimsAreOnRecord ==
  \A p \in Provisioner, t \in Time : Claimed(p, t) => last_scheduled_at[p] # NULL /\ t <= last_scheduled_at[p]

(* Claims are a slot apart, and each is one reservation, published once.       *)
ClaimsAreApart ==
  \A p \in Provisioner, s, t \in Time :
    /\ published[p][t] <= 1
    /\ s < t /\ Claimed(p, s) /\ Claimed(p, t) => NextRun(p, s) <= t
    /\ \A d \in Dispatcher : Pending(d, p, t) =>
         published[p][t] = 0 /\ \A e \in Dispatcher \ {d} : ~Pending(e, p, t)

(* What a dispatcher has selected stays locked, due, and its own.              *)
SelectionStillValid ==
  \A d \in Dispatcher :
    /\ dispatcher[d].locked # {} => dispatcher[d].pc = "selected"
    /\ \A e \in Dispatcher \ {d} : dispatcher[d].locked \cap dispatcher[e].locked = {}
    /\ dispatcher[d].pc = "selected" => \A p \in dispatcher[d].todo :
         p \in dispatcher[d].locked /\ IsDue(p, last_scheduled_at[p], dispatcher[d].now)

(* What a failed publish puts back was due when it was read, hence still is.   *)
PutBackIsDue ==
  \A d \in Dispatcher :
    /\ dispatcher[d].now <= time
    /\ \A p \in dispatcher[d].todo \cup dispatcher[d].restore :
         IsDue(p, dispatcher[d].previous[p], dispatcher[d].now)
    /\ dispatcher[d].pc = "restoring" => failures > 0

IInv ==
  /\ TypeOK
  /\ SelectionStillValid
  /\ PutBackIsDue
  /\ ReservedIsPublished
  /\ failures = 0 => ClaimsAreOnRecord /\ ClaimsAreApart

(* A provisioner that is due is published for that slot or a later one, unless *)
(* it is disabled or deleted, or the column shows a slot that was lost with a  *)
(* dispatcher that died or whose restoration rolled back; the next slot of the *)
(* row is due again, and then the same holds of it.                            *)
DueIsPublished ==
  \A p \in Provisioner, t \in Time :
    (time = t /\ p \in present /\ enabled[p] /\ IsDue(p, last_scheduled_at[p], t))
      ~> (\/ p \notin present \/ ~enabled[p]
          \/ <<p, last_scheduled_at[p]>> \in lost
          \/ \E s \in Time : published[p][s] > 0 /\ NextRun(p, s) > t)
=============================================================================

---------------------- MODULE ProvisionerDispatchProofs ----------------------
(***************************************************************************)
(* Theorems of ProvisionerDispatch for every set of provisioners and       *)
(* dispatchers, every cron period and every value of the bounds.           *)
(***************************************************************************)
EXTENDS ProvisionerDispatch, TLAPS

LEMMA TimeType == Time \subseteq Nat /\ 0 \in Time /\ NULL \notin Time
  BY ConstantsAssumption DEF Time, NULL

(* The next slot lies ahead, and later readings have later next slots. *)
LEMMA NextRunIsMonotone ==
  ASSUME NEW p \in Provisioner, NEW s \in Nat, NEW t \in Nat, s <= t
  PROVE  /\ NextRun(p, s) \in Nat /\ NextRun(p, t) \in Nat
         /\ s < NextRun(p, s)
         /\ NextRun(p, s) <= NextRun(p, t)
<1> DEFINE d == Period[p]
<1>1. d \in Nat \ {0}
  BY ConstantsAssumption
<1> HIDE DEF d
<1> DEFINE a == s \div d  b == t \div d
<1>2. a \in Nat /\ s % d \in 0..(d - 1) /\ s = a * d + (s % d)
  BY <1>1
<1>3. b \in Nat /\ t % d \in 0..(d - 1) /\ t = b * d + (t % d)
  BY <1>1
<1> HIDE DEF a, b
<1>4. (a + 1) * d = a * d + d /\ a * d \in Nat /\ (b + 1) * d = b * d + d /\ b * d \in Nat
  BY <1>1, <1>2, <1>3
<1>5. s < (a + 1) * d
  BY <1>1, <1>2, <1>4
<1>6. a <= b
  <2>1. SUFFICES ASSUME b + 1 <= a PROVE FALSE
    BY <1>2, <1>3
  <2>2. (b + 1) * d <= a * d
    BY <1>1, <1>2, <1>3, <2>1
  <2> QED
    BY <1>1, <1>2, <1>3, <1>4, <2>2
<1>7. (a + 1) * d <= (b + 1) * d
  BY <1>1, <1>2, <1>3, <1>6
<1> QED
  BY <1>1, <1>4, <1>5, <1>7 DEF NextRun, a, b, d

-----------------------------------------------------------------------------
LEMMA IdleType == Idle \in DispatcherState
  BY TimeType DEF Idle, DispatcherState

(* A dispatcher that has still to publish rows holds just these, and no lock. *)
LEMMA ToPublishHolds ==
  ASSUME TypeOK, NEW d \in Dispatcher, NEW rows \in SUBSET Provisioner
  PROVE  /\ ToPublish(d, rows) \in DispatcherState
         /\ ToPublish(d, rows).locked = {} /\ ToPublish(d, rows).todo = rows
         /\ ToPublish(d, rows).pc \in {"idle", "publishing"}
         /\ rows # {} => /\ ToPublish(d, rows).pc = "publishing"
                        /\ ToPublish(d, rows).now = dispatcher[d].now
                        /\ ToPublish(d, rows).previous = dispatcher[d].previous
                        /\ ToPublish(d, rows).restore = dispatcher[d].restore
<1>1. CASE rows = {}
  BY <1>1, IdleType DEF ToPublish, Idle
<1>2. CASE rows # {}
  <2>1. dispatcher[d] \in DispatcherState
    BY DEF TypeOK
  <2> QED
    BY <1>2, <2>1 DEF ToPublish, DispatcherState
<1> QED
  BY <1>1, <1>2

LEMMA InitTypeOK == Init => TypeOK
  BY TimeType, IdleType, ConstantsAssumption DEF Init, TypeOK

LEMMA TypeInvariance == TypeOK /\ [Next]_vars => TypeOK'
<1> SUFFICES ASSUME TypeOK, [Next]_vars PROVE TypeOK'
  OBVIOUS
<1> USE IdleType, TimeType, ConstantsAssumption DEF TypeOK
<1>1. ASSUME NEW d \in Dispatcher, StartDispatch(d) PROVE TypeOK'
  <2>1. [Idle EXCEPT !.pc = "started", !.now = time] \in DispatcherState
    BY DEF DispatcherState
  <2> QED
    BY <1>1, <2>1 DEF StartDispatch
<1>2. ASSUME NEW d \in Dispatcher, SelectDue(d) PROVE TypeOK'
  <2>1. PICK busy : SelectFrom(d, busy)
    BY <1>2 DEF SelectDue
  <2>2. Selectable \subseteq Provisioner
    BY DEF Selectable
  <2>3. dispatcher'[d] \in DispatcherState
    BY <2>1, <2>2 DEF SelectFrom, DispatcherState
  <2>4. dispatcher' \in [Dispatcher -> DispatcherState]
    BY <2>1, <2>3 DEF SelectFrom
  <2> QED
    BY <2>1, <2>4 DEF SelectFrom
<1>3. ASSUME NEW d \in Dispatcher, CommitReservation(d) PROVE TypeOK'
  <2>1. dispatcher[d].todo \in SUBSET Provisioner
    BY DEF DispatcherState
  <2>2. dispatcher' \in [Dispatcher -> DispatcherState]
    BY <1>3, <2>1, ToPublishHolds DEF CommitReservation
  <2>3. last_scheduled_at' \in [Provisioner -> {NULL} \cup Time]
    BY <1>3 DEF CommitReservation, Stamp, DispatcherState
  <2> QED
    BY <1>3, <2>2, <2>3 DEF CommitReservation
<1>4. ASSUME NEW d \in Dispatcher, PublishOne(d) PROVE TypeOK'
  <2>1. PICK p \in dispatcher[d].todo :
          /\ published' = [published EXCEPT ![p][dispatcher[d].now] = @ + 1]
          /\ dispatcher' = [dispatcher EXCEPT ![d] = ToPublish(d, dispatcher[d].todo \ {p})]
    BY <1>4 DEF PublishOne
  <2>2. p \in Provisioner /\ dispatcher[d].now \in Time
    BY DEF DispatcherState
  <2>3. published' \in [Provisioner -> [Time -> Nat]]
    <3>1. published' = [published EXCEPT ![p][dispatcher[d].now] = @ + 1]
      BY <2>1
    <3>2. published[p] \in [Time -> Nat] /\ published[p][dispatcher[d].now] + 1 \in Nat
      BY <2>2
    <3>3. [published[p] EXCEPT ![dispatcher[d].now] = @ + 1] \in [Time -> Nat]
      BY <2>2, <3>2
    <3> QED
      BY <2>2, <3>1, <3>3
  <2>4. dispatcher' \in [Dispatcher -> DispatcherState]
    <3>1. dispatcher[d].todo \ {p} \in SUBSET Provisioner
      BY DEF DispatcherState
    <3> QED
      BY <2>1, <3>1, ToPublishHolds
  <2> QED
    BY <1>4, <2>3, <2>4 DEF PublishOne
<1>5. ASSUME NEW d \in Dispatcher, PublishFails(d) PROVE TypeOK'
  <2>1. dispatcher' \in [Dispatcher -> DispatcherState]
    BY <1>5 DEF PublishFails, DispatcherState
  <2> QED
    BY <1>5, <2>1 DEF PublishFails
<1>7. ASSUME NEW d \in Dispatcher, DispatcherCrash(d) \/ RestoreFails(d) PROVE TypeOK'
  <2>1. Unfinished(d) \subseteq Provisioner /\ dispatcher[d].now \in Time
    BY DEF Unfinished, DispatcherState
  <2>2. Abandon(d)
    BY <1>7 DEF DispatcherCrash, RestoreFails
  <2>3. lost' \subseteq Provisioner \X Time /\ dispatcher' \in [Dispatcher -> DispatcherState]
    BY <2>1, <2>2 DEF Abandon
  <2> QED
    BY <1>7, <2>3 DEF DispatcherCrash, RestoreFails
<1>11. ASSUME NEW d \in Dispatcher, RestoreGet(d) PROVE TypeOK'
  <2>1. PICK p \in dispatcher[d].todo :
          dispatcher' = [dispatcher EXCEPT ![d].todo = @ \ {p},
                                           ![d].restore = @ \cup ({p} \cap Restorable(d))]
    BY <1>11 DEF RestoreGet
  <2>2. p \in Provisioner
    BY DEF DispatcherState
  <2>3. dispatcher' \in [Dispatcher -> DispatcherState]
    BY <2>1, <2>2 DEF DispatcherState
  <2> QED
    BY <1>11, <2>3 DEF RestoreGet
<1>12. ASSUME NEW d \in Dispatcher, CommitRestore(d) PROVE TypeOK'
  <2>1. last_scheduled_at' \in [Provisioner -> {NULL} \cup Time]
    BY <1>12 DEF CommitRestore, DispatcherState
  <2> QED
    BY <1>12, <2>1 DEF CommitRestore
<1>8. ASSUME NEW p \in Provisioner, SetEnabled(p) \/ DeleteProvisioner(p) PROVE TypeOK'
  BY <1>8 DEF SetEnabled, DeleteProvisioner
<1>9. CASE Tick
  BY <1>9 DEF Tick, Time
<1>10. CASE UNCHANGED vars
  BY <1>10 DEF vars
<1> QED
  BY <1>1, <1>2, <1>3, <1>4, <1>5, <1>7, <1>8, <1>9, <1>10, <1>11, <1>12 DEF Next, DispatcherNext

(* Type correctness, for every instance. *)
THEOREM TypeCorrect == Spec => []TypeOK
  BY InitTypeOK, TypeInvariance, PTL DEF Spec

-----------------------------------------------------------------------------
LEMMA LockedRows == \A d \in Dispatcher : dispatcher[d].locked \subseteq Locked
  BY DEF Locked

(* Nobody else writes the reservation column of a locked row. *)
LEMMA SelectionInvariance == TypeOK /\ SelectionStillValid /\ [Next]_vars => SelectionStillValid'
<1> SUFFICES ASSUME TypeOK, SelectionStillValid, [Next]_vars PROVE SelectionStillValid'
  OBVIOUS
<1> USE DEF SelectionStillValid
<1>1. /\ dispatcher \in [Dispatcher -> DispatcherState]
      /\ last_scheduled_at \in [Provisioner -> {NULL} \cup Time]
  BY DEF TypeOK
<1>2. CASE UNCHANGED <<dispatcher, last_scheduled_at>>
  BY <1>2
<1>3. ASSUME NEW d \in Dispatcher, \A e \in Dispatcher \ {d} : dispatcher'[e] = dispatcher[e],
             dispatcher'[d].locked = {}, dispatcher'[d].pc # "selected",
             \A p \in Locked : last_scheduled_at'[p] = last_scheduled_at[p]
      PROVE  SelectionStillValid'
  <2>1. \A e \in Dispatcher \ {d} : \A p \in dispatcher[e].locked : last_scheduled_at'[p] = last_scheduled_at[p]
    BY <1>3, LockedRows
  <2> QED
    BY <1>3, <2>1 DEF IsDue
<1>4. ASSUME NEW d \in Dispatcher, StartDispatch(d) \/ DispatcherCrash(d) \/ RestoreFails(d)
      PROVE  SelectionStillValid'
  <2>1. /\ \A e \in Dispatcher \ {d} : dispatcher'[e] = dispatcher[e]
        /\ dispatcher'[d].locked = {} /\ dispatcher'[d].pc # "selected"
        /\ last_scheduled_at' = last_scheduled_at
    <3>1. CASE StartDispatch(d)
      BY <1>1, <3>1 DEF StartDispatch, Idle
    <3>2. CASE DispatcherCrash(d) \/ RestoreFails(d)
      BY <1>1, <3>2 DEF DispatcherCrash, RestoreFails, Abandon, Idle
    <3> QED
      BY <1>4, <3>1, <3>2
  <2> QED
    BY <1>3, <2>1
<1>5. ASSUME NEW d \in Dispatcher, SelectDue(d) PROVE SelectionStillValid'
  <2>1. PICK busy : SelectFrom(d, busy)
    BY <1>5 DEF SelectDue
  <2> DEFINE rows == Selectable \ busy
  <2>2. /\ \A e \in Dispatcher \ {d} : dispatcher'[e] = dispatcher[e]
        /\ dispatcher'[d].pc = "selected" /\ dispatcher'[d].locked = rows
        /\ dispatcher'[d].now = dispatcher[d].now
        /\ dispatcher'[d].todo = {p \in rows : IsDue(p, last_scheduled_at[p], dispatcher[d].now)}
        /\ last_scheduled_at' = last_scheduled_at
    BY <1>1, <2>1 DEF SelectFrom
  <2>3. \A e \in Dispatcher : dispatcher[e].locked \cap rows = {}
    BY LockedRows DEF Selectable
  <2>4. \A p \in dispatcher'[d].todo :
          p \in dispatcher'[d].locked /\ IsDue(p, last_scheduled_at'[p], dispatcher'[d].now)
    BY <2>2
  <2> QED
    BY <2>2, <2>3, <2>4 DEF IsDue
<1>6. ASSUME NEW d \in Dispatcher, CommitReservation(d) PROVE SelectionStillValid'
  <2>1. /\ dispatcher'[d].pc # "selected" /\ dispatcher'[d].locked = {}
        /\ \A e \in Dispatcher \ {d} : dispatcher'[e] = dispatcher[e]
        /\ dispatcher[d].pc = "selected"
    <3>1. dispatcher[d].todo \in SUBSET Provisioner
      BY <1>1 DEF DispatcherState
    <3> QED
      BY <1>1, <1>6, <3>1, ToPublishHolds DEF CommitReservation
  <2>2. \A e \in Dispatcher \ {d} : \A p \in dispatcher[e].locked :
          p \in Provisioner /\ p \notin dispatcher[d].todo
    BY <1>1, <2>1 DEF DispatcherState
  <2>3. \A e \in Dispatcher \ {d} : \A p \in dispatcher[e].locked : last_scheduled_at'[p] = last_scheduled_at[p]
    BY <1>6, <2>2 DEF CommitReservation
  <2> QED
    BY <2>1, <2>3 DEF IsDue
<1>7. ASSUME NEW d \in Dispatcher, PublishOne(d) PROVE SelectionStillValid'
  <2>1. PICK p : dispatcher' = [dispatcher EXCEPT ![d] = ToPublish(d, dispatcher[d].todo \ {p})]
    BY <1>7 DEF PublishOne
  <2>2. dispatcher[d].todo \ {p} \in SUBSET Provisioner
    BY <1>1 DEF DispatcherState
  <2>3. /\ dispatcher'[d].locked = {} /\ dispatcher'[d].pc # "selected"
        /\ \A e \in Dispatcher \ {d} : dispatcher'[e] = dispatcher[e]
        /\ last_scheduled_at' = last_scheduled_at
    BY <1>1, <1>7, <2>1, <2>2, ToPublishHolds DEF PublishOne
  <2> QED
    BY <1>3, <2>3
<1>8. ASSUME NEW d \in Dispatcher, CommitRestore(d) PROVE SelectionStillValid'
  <2>1. /\ \A e \in Dispatcher \ {d} : dispatcher'[e] = dispatcher[e]
        /\ dispatcher'[d].locked = {} /\ dispatcher'[d].pc # "selected"
    BY <1>1, <1>8 DEF CommitRestore, Idle
  <2>2. Locked \subseteq Provisioner
    BY <1>1 DEF Locked, DispatcherState
  <2>3. \A p \in Locked : last_scheduled_at'[p] = last_scheduled_at[p]
    BY <1>1, <1>8, <2>2 DEF CommitRestore, ReadyToRestore
  <2> QED
    BY <1>3, <2>1, <2>3
<1>9. ASSUME NEW d \in Dispatcher, PublishFails(d) \/ RestoreGet(d) PROVE SelectionStillValid'
  <2>1. dispatcher[d].pc \in {"publishing", "restoring"} /\ last_scheduled_at' = last_scheduled_at
    BY <1>9 DEF PublishFails, RestoreGet
  <2>2. dispatcher[d].locked = {}
    BY <2>1
  <2>3. /\ \A e \in Dispatcher \ {d} : dispatcher'[e] = dispatcher[e]
        /\ dispatcher'[d].locked = dispatcher[d].locked /\ dispatcher'[d].pc = "restoring"
    <3>1. CASE PublishFails(d)
      BY <1>1, <3>1 DEF PublishFails, DispatcherState
    <3>2. CASE RestoreGet(d)
      <4>1. PICK p : dispatcher' = [dispatcher EXCEPT ![d].todo = @ \ {p},
                                                      ![d].restore = @ \cup ({p} \cap Restorable(d))]
        BY <3>2 DEF RestoreGet
      <4> QED
        BY <1>1, <3>2, <4>1 DEF RestoreGet, DispatcherState
    <3> QED
      BY <1>9, <3>1, <3>2
  <2> QED
    BY <1>3, <2>1, <2>2, <2>3
<1> QED
  BY <1>2, <1>4, <1>5, <1>6, <1>7, <1>8, <1>9
  DEF Next, DispatcherNext, SetEnabled, DeleteProvisioner, Tick, vars

(* While no publish has failed, claims are made in order, a slot apart. *)
LEMMA ClaimsInvariance ==
  TypeOK /\ SelectionStillValid /\ PutBackIsDue /\ ClaimsAreOnRecord /\ ClaimsAreApart /\ [Next]_vars /\ failures' = 0
    => ClaimsAreOnRecord' /\ ClaimsAreApart'
<1> SUFFICES ASSUME TypeOK, SelectionStillValid, PutBackIsDue, ClaimsAreOnRecord, ClaimsAreApart,
                    [Next]_vars, failures' = 0
             PROVE  ClaimsAreOnRecord' /\ ClaimsAreApart'
  OBVIOUS
<1>1. /\ dispatcher \in [Dispatcher -> DispatcherState]
      /\ last_scheduled_at \in [Provisioner -> {NULL} \cup Time]
      /\ published \in [Provisioner -> [Time -> Nat]]
      /\ failures \in Nat
  BY ConstantsAssumption DEF TypeOK
<1>2. ASSUME UNCHANGED <<last_scheduled_at, published>>,
             \A d \in Dispatcher, p \in Provisioner, t \in Time : Pending(d, p, t)' => Pending(d, p, t)
      PROVE  ClaimsAreOnRecord' /\ ClaimsAreApart'
  <2>1. \A p \in Provisioner, t \in Time : Claimed(p, t)' => Claimed(p, t)
    BY <1>2 DEF Claimed
  <2> QED
    BY <1>2, <2>1 DEF ClaimsAreOnRecord, ClaimsAreApart
<1>3. ASSUME NEW d \in Dispatcher, StartDispatch(d) \/ SelectDue(d) \/ DispatcherCrash(d)
      PROVE  ClaimsAreOnRecord' /\ ClaimsAreApart'
  <2>1. UNCHANGED <<last_scheduled_at, published>>
    BY <1>3 DEF StartDispatch, SelectDue, SelectFrom, DispatcherCrash
  <2>2. dispatcher'[d].pc # "publishing" /\ \A e \in Dispatcher \ {d} : dispatcher'[e] = dispatcher[e]
    <3>1. CASE StartDispatch(d)
      BY <1>1, <3>1 DEF StartDispatch, Idle
    <3>2. CASE SelectDue(d)
      BY <1>1, <3>2 DEF SelectDue, SelectFrom
    <3>3. CASE DispatcherCrash(d)
      BY <1>1, <3>3 DEF DispatcherCrash, Abandon, Idle
    <3> QED
      BY <1>3, <3>1, <3>2, <3>3
  <2> QED
    BY <1>2, <2>1, <2>2 DEF Pending
<1>4. ASSUME NEW d \in Dispatcher, CommitReservation(d)
      PROVE  ClaimsAreOnRecord' /\ ClaimsAreApart'
  <2> DEFINE now == dispatcher[d].now  todo == dispatcher[d].todo
  <2>1. /\ now \in Time /\ todo \subseteq Provisioner /\ dispatcher[d].pc = "selected"
        /\ published' = published
        /\ \A p \in todo : last_scheduled_at'[p] = now
        /\ \A p \in Provisioner \ todo : last_scheduled_at'[p] = last_scheduled_at[p]
    BY <1>1, <1>4 DEF CommitReservation, Stamp, DispatcherState
  <2>2. \A p \in todo : IsDue(p, last_scheduled_at[p], now)
    BY <2>1 DEF SelectionStillValid
  <2>3. \A p \in Provisioner, t \in Time : /\ Pending(d, p, t)' <=> p \in todo /\ t = now
                                         /\ ~Pending(d, p, t)
                                         /\ \A e \in Dispatcher \ {d} : Pending(e, p, t)' <=> Pending(e, p, t)
    <3>1. /\ dispatcher'[d].todo = todo /\ dispatcher'[d].pc \in {"idle", "publishing"}
          /\ todo # {} => dispatcher'[d].pc = "publishing" /\ dispatcher'[d].now = now
          /\ \A e \in Dispatcher \ {d} : dispatcher'[e] = dispatcher[e]
      BY <1>1, <1>4, <2>1, ToPublishHolds DEF CommitReservation
    <3> QED
      BY <2>1, <3>1 DEF Pending
  <2>4. \A p \in Provisioner, t \in Time : Claimed(p, t)' <=> Claimed(p, t) \/ (p \in todo /\ t = now)
    BY <2>1, <2>3 DEF Claimed
  <2>5. ASSUME NEW p \in todo, NEW t \in Time, Claimed(p, t)
        PROVE  t < now /\ NextRun(p, t) <= now
    <3>1. p \in Provisioner /\ last_scheduled_at[p] \in Nat /\ t \in Nat /\ now \in Nat /\ t <= last_scheduled_at[p]
      BY <1>1, <2>1, <2>5, TimeType DEF ClaimsAreOnRecord
    <3>2. NextRun(p, last_scheduled_at[p]) <= now
      BY <1>1, <2>2, <2>5, <3>1, TimeType DEF IsDue, NULL
    <3> HIDE DEF now, todo
    <3> QED
      BY <3>1, <3>2, NextRunIsMonotone
  <2> HIDE DEF now, todo
  <2>6. ClaimsAreOnRecord'
    <3> SUFFICES ASSUME NEW p \in Provisioner, NEW t \in Time, Claimed(p, t)'
                 PROVE  last_scheduled_at'[p] # NULL /\ t <= last_scheduled_at'[p]
      BY DEF ClaimsAreOnRecord
    <3>1. CASE p \in todo
      <4>1. t = now \/ t < now
        BY <2>4, <2>5, <3>1
      <4>2. last_scheduled_at'[p] = now
        BY <2>1, <3>1
      <4>3. now \in Nat /\ t \in Nat /\ now # NULL
        BY <2>1, TimeType
      <4> QED
        BY <4>1, <4>2, <4>3
    <3>2. CASE p \notin todo
      BY <2>1, <2>4, <3>2 DEF ClaimsAreOnRecord
    <3> QED
      BY <3>1, <3>2
  <2>7. ClaimsAreApart'
    <3> SUFFICES ASSUME NEW p \in Provisioner, NEW s \in Time, NEW t \in Time
                 PROVE  /\ published'[p][t] <= 1
                        /\ s < t /\ Claimed(p, s)' /\ Claimed(p, t)' => NextRun(p, s) <= t
                        /\ \A e \in Dispatcher : Pending(e, p, t)' =>
                             published'[p][t] = 0 /\ \A f \in Dispatcher \ {e} : ~Pending(f, p, t)'
      BY DEF ClaimsAreApart
    <3>1. published'[p][t] <= 1
      BY <2>1 DEF ClaimsAreApart
    <3>2. ASSUME s < t, Claimed(p, s)', Claimed(p, t)' PROVE NextRun(p, s) <= t
      <4>1. CASE Claimed(p, s) /\ Claimed(p, t)
        BY <3>2, <4>1 DEF ClaimsAreApart
      <4>2. CASE Claimed(p, s) /\ p \in todo /\ t = now
        BY <2>5, <4>2
      <4>3. CASE p \in todo /\ s = now
        <5>1. t = now \/ t < now
          BY <2>4, <2>5, <3>2, <4>3
        <5> QED
          BY <2>1, <3>2, <4>3, <5>1, TimeType
      <4> QED
        BY <2>4, <3>2, <4>1, <4>2, <4>3
    <3>3. ASSUME NEW e \in Dispatcher, Pending(e, p, t)'
          PROVE  published'[p][t] = 0 /\ \A f \in Dispatcher \ {e} : ~Pending(f, p, t)'
      <4>1. CASE p \in todo /\ t = now
        <5>1. ~Claimed(p, now)
          BY <2>1, <2>5, <4>1, TimeType
        <5>2. \A f \in Dispatcher : ~Pending(f, p, now)
          BY <5>1 DEF Claimed
        <5>3. published[p][now] = 0
          BY <1>1, <2>1, <5>1 DEF Claimed
        <5>4. e = d
          BY <2>3, <3>3, <4>1, <5>2
        <5> QED
          BY <2>1, <2>3, <4>1, <5>2, <5>3, <5>4
      <4>2. CASE ~(p \in todo /\ t = now)
        <5>1. e # d /\ Pending(e, p, t)
          BY <2>3, <3>3, <4>2
        <5>2. published[p][t] = 0 /\ \A f \in Dispatcher \ {e} : ~Pending(f, p, t)
          BY <5>1 DEF ClaimsAreApart
        <5> QED
          BY <2>1, <2>3, <4>2, <5>2
      <4> QED
        BY <4>1, <4>2
    <3> QED
      BY <3>1, <3>2, <3>3
  <2> QED
    BY <2>6, <2>7
<1>5. ASSUME NEW d \in Dispatcher, PublishOne(d)
      PROVE  ClaimsAreOnRecord' /\ ClaimsAreApart'
  <2> DEFINE now == dispatcher[d].now
  <2>1. PICK p \in dispatcher[d].todo :
          /\ published' = [published EXCEPT ![p][dispatcher[d].now] = @ + 1]
          /\ dispatcher' = [dispatcher EXCEPT ![d] = ToPublish(d, dispatcher[d].todo \ {p})]
    BY <1>5 DEF PublishOne
  <2>2. /\ p \in Provisioner /\ now \in Time /\ dispatcher[d].pc = "publishing"
        /\ last_scheduled_at' = last_scheduled_at
    BY <1>1, <1>5 DEF PublishOne, DispatcherState
  <2>3. Pending(d, p, now)
    BY <2>2 DEF Pending
  <2>4. published[p][now] = 0 /\ \A e \in Dispatcher \ {d} : ~Pending(e, p, now)
    BY <2>2, <2>3 DEF ClaimsAreApart
  <2>5. /\ published'[p][now] = 1
        /\ \A q \in Provisioner, t \in Time : ~(q = p /\ t = now) => published'[q][t] = published[q][t]
    BY <1>1, <2>1, <2>2, <2>4
  <2>6. \A e \in Dispatcher, q \in Provisioner, t \in Time : Pending(e, q, t)' => Pending(e, q, t) /\ ~(q = p /\ t = now)
    <3>1. \A e \in Dispatcher \ {d} : dispatcher'[e] = dispatcher[e]
      BY <1>1, <2>1
    <3>2. dispatcher[d].todo \ {p} \in SUBSET Provisioner
      BY <1>1 DEF DispatcherState
    <3>3. /\ dispatcher'[d].todo = dispatcher[d].todo \ {p}
          /\ dispatcher'[d].todo # {} => dispatcher'[d].pc = "publishing" /\ dispatcher'[d].now = now
      <4>1. dispatcher'[d] = ToPublish(d, dispatcher[d].todo \ {p})
        BY <1>1, <2>1
      <4> QED
        BY <3>2, <4>1, ToPublishHolds
    <3> QED
      BY <2>2, <2>4, <3>1, <3>3 DEF Pending
  <2> HIDE DEF now
  <2>7. \A q \in Provisioner, t \in Time : Claimed(q, t)' => Claimed(q, t)
    BY <2>2, <2>3, <2>5, <2>6 DEF Claimed
  <2>8. ClaimsAreOnRecord'
    BY <2>2, <2>7 DEF ClaimsAreOnRecord
  <2>9. ClaimsAreApart'
    BY <2>2, <2>5, <2>6, <2>7 DEF ClaimsAreApart
  <2> QED
    BY <2>8, <2>9
<1>6. ASSUME NEW d \in Dispatcher,
             PublishFails(d) \/ RestoreGet(d) \/ CommitRestore(d) \/ RestoreFails(d)
      PROVE  FALSE
  <2>1. ASSUME dispatcher[d].pc = "restoring" PROVE failures > 0
    BY <2>1 DEF PutBackIsDue
  <2> QED
    BY <1>1, <1>6, <2>1 DEF PublishFails, RestoreGet, CommitRestore, RestoreFails, ReadyToRestore
<1>7. CASE UNCHANGED <<last_scheduled_at, published, dispatcher>>
  BY <1>2, <1>7 DEF Pending
<1> QED
  BY <1>3, <1>4, <1>5, <1>6, <1>7
  DEF Next, DispatcherNext, SetEnabled, DeleteProvisioner, Tick, vars

-----------------------------------------------------------------------------
(* Time and failures only grow, rows are only deleted. *)
LEMMA OneWay ==
  [Next]_vars => /\ time' = time \/ time' = time + 1
                 /\ failures' = failures \/ failures' = failures + 1
                 /\ present' \subseteq present
<1> SUFFICES ASSUME [Next]_vars
             PROVE  /\ time' = time \/ time' = time + 1
                    /\ failures' = failures \/ failures' = failures + 1
                    /\ present' \subseteq present
  OBVIOUS
<1>1. ASSUME NEW d \in Dispatcher, DispatcherNext(d)
      PROVE  /\ UNCHANGED <<time, present>>
             /\ failures' = failures \/ failures' = failures + 1
  BY <1>1 DEF DispatcherNext, StartDispatch, SelectDue, SelectFrom, CommitReservation, PublishOne,
              PublishFails, DispatcherCrash, RestoreGet, CommitRestore, RestoreFails
<1>2. CASE UNCHANGED <<present, failures>> /\ (time' = time \/ time' = time + 1)
  BY <1>2
<1>3. ASSUME NEW p \in Provisioner, SetEnabled(p) \/ DeleteProvisioner(p)
      PROVE  UNCHANGED <<time, failures>> /\ present' \subseteq present
  BY <1>3 DEF SetEnabled, DeleteProvisioner
<1> QED
  BY <1>1, <1>2, <1>3 DEF Next, Tick, vars

(* What a dispatcher would put back stays due. *)
LEMMA PutBackInvariance == TypeOK /\ PutBackIsDue /\ [Next]_vars => PutBackIsDue'
<1> SUFFICES ASSUME TypeOK, PutBackIsDue, [Next]_vars, NEW d \in Dispatcher
             PROVE  /\ dispatcher'[d].now <= time'
                    /\ \A p \in dispatcher'[d].todo \cup dispatcher'[d].restore :
                         IsDue(p, dispatcher'[d].previous[p], dispatcher'[d].now)
                    /\ dispatcher'[d].pc = "restoring" => failures' > 0
  BY DEF PutBackIsDue
<1>1. /\ dispatcher \in [Dispatcher -> DispatcherState]
      /\ time \in Nat /\ failures \in Nat /\ dispatcher[d].now \in Nat
  <2>1. dispatcher \in [Dispatcher -> DispatcherState] /\ time \in Nat /\ failures \in Nat
    BY ConstantsAssumption, TimeType DEF TypeOK
  <2>2. dispatcher[d].now \in Time
    BY <2>1 DEF DispatcherState
  <2> QED
    BY <2>1, <2>2, TimeType
<1>2. /\ time' \in Nat /\ time <= time' /\ failures' \in Nat /\ failures <= failures'
  BY <1>1, OneWay
<1>3. ASSUME dispatcher'[d].now = dispatcher[d].now, dispatcher'[d].previous = dispatcher[d].previous,
             dispatcher'[d].todo \cup dispatcher'[d].restore \subseteq dispatcher[d].todo \cup dispatcher[d].restore,
             dispatcher'[d].pc = "restoring" => dispatcher[d].pc = "restoring" \/ failures' > 0
      PROVE  /\ dispatcher'[d].now <= time'
             /\ \A p \in dispatcher'[d].todo \cup dispatcher'[d].restore :
                  IsDue(p, dispatcher'[d].previous[p], dispatcher'[d].now)
             /\ dispatcher'[d].pc = "restoring" => failures' > 0
  <2>1. dispatcher[d].now <= time /\ (dispatcher[d].pc = "restoring" => failures > 0)
    BY DEF PutBackIsDue
  <2>2. \A p \in dispatcher[d].todo \cup dispatcher[d].restore :
          IsDue(p, dispatcher[d].previous[p], dispatcher[d].now)
    BY DEF PutBackIsDue
  <2>3. dispatcher'[d].now <= time' /\ (dispatcher'[d].pc = "restoring" => failures' > 0)
    BY <1>1, <1>2, <1>3, <2>1
  <2> QED
    BY <1>3, <2>2, <2>3
<1>4. CASE dispatcher'[d] = dispatcher[d]
  BY <1>3, <1>4
<1>5. CASE CommitRestore(d) \/ RestoreFails(d) \/ DispatcherCrash(d)
  <2>1. dispatcher'[d] = Idle
    BY <1>1, <1>5 DEF CommitRestore, RestoreFails, DispatcherCrash, Abandon
  <2> QED
    BY <1>2, <2>1 DEF Idle
<1>6. CASE StartDispatch(d)
  <2>1. /\ dispatcher'[d].now = time /\ dispatcher'[d].pc = "started"
        /\ dispatcher'[d].todo = {} /\ dispatcher'[d].restore = {}
    BY <1>1, <1>6 DEF StartDispatch, Idle
  <2> QED
    BY <1>2, <2>1
<1>7. CASE SelectDue(d)
  <2>1. PICK busy : SelectFrom(d, busy)
    BY <1>7 DEF SelectDue
  <2>2. /\ dispatcher'[d].now = dispatcher[d].now /\ dispatcher'[d].pc = "selected"
        /\ dispatcher'[d].restore = {}
        /\ dispatcher'[d].todo \subseteq Provisioner
        /\ \A p \in dispatcher'[d].todo : /\ dispatcher'[d].previous[p] = last_scheduled_at[p]
                                         /\ IsDue(p, last_scheduled_at[p], dispatcher[d].now)
    BY <1>1, <2>1 DEF SelectFrom, Selectable, TypeOK
  <2>3. dispatcher[d].now <= time
    BY DEF PutBackIsDue
  <2> QED
    BY <1>1, <1>2, <2>2, <2>3
<1>13. ASSUME NEW rows \in SUBSET dispatcher[d].todo, dispatcher'[d] = ToPublish(d, rows)
       PROVE  /\ dispatcher'[d].now <= time'
              /\ \A p \in dispatcher'[d].todo \cup dispatcher'[d].restore :
                   IsDue(p, dispatcher'[d].previous[p], dispatcher'[d].now)
              /\ dispatcher'[d].pc = "restoring" => failures' > 0
  <2>1. CASE rows = {}
    BY <1>2, <1>13, <2>1 DEF ToPublish, Idle
  <2>2. CASE rows # {}
    <3>1. rows \in SUBSET Provisioner
      BY <1>1 DEF DispatcherState
    <3> QED
      BY <1>3, <1>13, <2>2, <3>1, ToPublishHolds
  <2> QED
    BY <2>1, <2>2
<1>8. CASE CommitReservation(d)
  BY <1>1, <1>8, <1>13 DEF CommitReservation
<1>9. CASE PublishFails(d)
  BY <1>1, <1>3, <1>9 DEF PublishFails, DispatcherState
<1>10. CASE PublishOne(d)
  <2>1. PICK p : dispatcher' = [dispatcher EXCEPT ![d] = ToPublish(d, dispatcher[d].todo \ {p})]
    BY <1>10 DEF PublishOne
  <2> QED
    BY <1>1, <1>13, <2>1
<1>11. CASE RestoreGet(d)
  <2>1. PICK p \in dispatcher[d].todo :
          dispatcher' = [dispatcher EXCEPT ![d].todo = @ \ {p},
                                           ![d].restore = @ \cup ({p} \cap Restorable(d))]
    BY <1>11 DEF RestoreGet
  <2> QED
    BY <1>1, <1>3, <2>1 DEF DispatcherState
<1>12. ASSUME NEW e \in Dispatcher \ {d}, DispatcherNext(e) PROVE dispatcher'[d] = dispatcher[d]
  BY <1>1, <1>12 DEF DispatcherNext, StartDispatch, SelectDue, SelectFrom, CommitReservation, PublishOne,
                     PublishFails, DispatcherCrash, RestoreGet, CommitRestore,
                     RestoreFails, Abandon
<1> QED
  BY <1>4, <1>5, <1>6, <1>7, <1>8, <1>9, <1>10, <1>11, <1>12
  DEF Next, DispatcherNext, SetEnabled, DeleteProvisioner, Tick, vars

(* A slot on record stays answered for until the row is due again. *)
LEMMA ReservedInvariance ==
  TypeOK /\ PutBackIsDue /\ ReservedIsPublished /\ [Next]_vars => ReservedIsPublished'
<1> SUFFICES ASSUME TypeOK, PutBackIsDue, ReservedIsPublished, [Next]_vars,
                    NEW p \in present', ~IsDue(p, last_scheduled_at'[p], time')
             PROVE  AnsweredFor(p, last_scheduled_at[p])'
  BY DEF ReservedIsPublished, IsDue
<1> DEFINE t == last_scheduled_at'[p]
<1>1. /\ dispatcher \in [Dispatcher -> DispatcherState]
      /\ last_scheduled_at \in [Provisioner -> {NULL} \cup Time]
      /\ published \in [Provisioner -> [Time -> Nat]]
      /\ present \subseteq Provisioner /\ time \in Nat
  BY ConstantsAssumption, TimeType DEF TypeOK
<1>2. /\ p \in present /\ p \in Provisioner
      /\ time' \in Nat /\ time <= time'
  BY <1>1, OneWay
<1>3. t \in Time /\ t # NULL
  <2>1. t \in {NULL} \cup Time
    BY <1>2, TypeInvariance DEF TypeOK
  <2>2. t # NULL
    BY DEF IsDue
  <2> QED
    BY <2>1, <2>2
<1>4. ASSUME NEW now \in Nat, now <= time, IsDue(p, t, now) PROVE FALSE
  <2>1. NextRun(p, t) <= now /\ ~(NextRun(p, t) <= time')
    BY <1>3, <1>4 DEF IsDue
  <2>2. NextRun(p, t) \in Nat
    <3> HIDE DEF t
    <3>1. t \in Nat /\ t <= t
      BY <1>3, TimeType
    <3> QED
      BY <1>2, <3>1, NextRunIsMonotone
  <2> HIDE DEF t
  <2> QED
    BY <1>1, <1>2, <1>4, <2>1, <2>2
<1>5. ASSUME last_scheduled_at'[p] = last_scheduled_at[p] PROVE AnsweredFor(p, t)
  <2>1. ~IsDue(p, t, time)
    BY <1>1, <1>4
  <2> QED
    BY <1>2, <1>5, <2>1 DEF ReservedIsPublished
<1>6. ASSUME NEW d \in Dispatcher, AnsweredFor(p, t),
             published'[p][t] >= published[p][t], lost \subseteq lost',
             \A e \in Dispatcher \ {d} : dispatcher'[e] = dispatcher[e],
             p \in Unfinished(d) /\ dispatcher[d].now = t =>
               \/ p \in Unfinished(d)' /\ dispatcher'[d].now = t
               \/ <<p, t>> \in lost'
               \/ published'[p][t] > 0
      PROVE  AnsweredFor(p, last_scheduled_at[p])'
  <2>1. CASE published[p][t] > 0
    <3>1. published[p][t] \in Nat
      BY <1>1, <1>2, <1>3
    <3>2. published'[p][t] \in Nat
      BY <1>2, <1>3, TypeInvariance DEF TypeOK
    <3>3. published'[p][t] > 0
      BY <1>6, <2>1, <3>1, <3>2
    <3> QED
      BY <3>3 DEF AnsweredFor
  <2>2. CASE <<p, t>> \in lost
    BY <1>6, <2>2 DEF AnsweredFor
  <2>3. ASSUME NEW e \in Dispatcher, p \in Unfinished(e), dispatcher[e].now = t
        PROVE  AnsweredFor(p, last_scheduled_at[p])'
    <3>1. CASE e = d
      BY <1>6, <2>3, <3>1 DEF AnsweredFor
    <3>2. CASE e # d
      <4>1. p \in Unfinished(e)' /\ dispatcher'[e].now = t
        BY <1>6, <2>3, <3>2 DEF Unfinished
      <4> QED
        BY <4>1 DEF AnsweredFor
    <3> QED
      BY <3>1, <3>2
  <2> QED
    BY <1>6, <2>1, <2>2, <2>3 DEF AnsweredFor
<1>7. ASSUME NEW d \in Dispatcher, StartDispatch(d) \/ SelectDue(d)
      PROVE  AnsweredFor(p, last_scheduled_at[p])'
  <2>1. UNCHANGED <<last_scheduled_at, published, lost>> /\ \A e \in Dispatcher \ {d} : dispatcher'[e] = dispatcher[e]
    BY <1>1, <1>7 DEF StartDispatch, SelectDue, SelectFrom
  <2>2. Unfinished(d) = {}
    BY <1>7 DEF StartDispatch, SelectDue, SelectFrom, Unfinished
  <2>3. published'[p][t] >= published[p][t]
    BY <1>1, <1>2, <1>3, <2>1
  <2> QED
    BY <1>5, <1>6, <2>1, <2>2, <2>3
<1>8. ASSUME NEW d \in Dispatcher, CommitReservation(d) PROVE AnsweredFor(p, last_scheduled_at[p])'
  <2>1. /\ dispatcher[d].pc = "selected" /\ UNCHANGED <<published, lost>>
        /\ dispatcher'[d].todo = dispatcher[d].todo
        /\ dispatcher[d].todo # {} =>
             dispatcher'[d].pc = "publishing" /\ dispatcher'[d].now = dispatcher[d].now
        /\ \A e \in Dispatcher \ {d} : dispatcher'[e] = dispatcher[e]
    <3>1. dispatcher[d].todo \in SUBSET Provisioner
      BY <1>1 DEF DispatcherState
    <3> QED
      BY <1>1, <1>8, <3>1, ToPublishHolds DEF CommitReservation
  <2>2. CASE p \in dispatcher[d].todo
    <3>1. t = dispatcher[d].now
      BY <1>2, <1>8, <2>2 DEF CommitReservation, Stamp
    <3>2. p \in Unfinished(d)'
      BY <2>1, <2>2 DEF Unfinished
    <3>3. dispatcher'[d].now = t
      BY <2>1, <2>2, <3>1
    <3> QED
      BY <3>2, <3>3 DEF AnsweredFor
  <2>3. CASE p \notin dispatcher[d].todo
    <3>1. last_scheduled_at'[p] = last_scheduled_at[p]
      BY <1>2, <1>8, <2>3 DEF CommitReservation
    <3>2. p \notin Unfinished(d)
      BY <2>1 DEF Unfinished
    <3>3. published'[p][t] >= published[p][t]
      BY <1>1, <1>2, <1>3, <2>1
    <3> QED
      BY <1>5, <1>6, <2>1, <3>1, <3>2, <3>3
  <2> QED
    BY <2>2, <2>3
<1>9. ASSUME NEW d \in Dispatcher, PublishOne(d) PROVE AnsweredFor(p, last_scheduled_at[p])'
  <2>1. PICK q \in dispatcher[d].todo :
          /\ published' = [published EXCEPT ![q][dispatcher[d].now] = @ + 1]
          /\ dispatcher' = [dispatcher EXCEPT ![d] = ToPublish(d, dispatcher[d].todo \ {q})]
    BY <1>9 DEF PublishOne
  <2>2. /\ dispatcher[d].pc = "publishing" /\ UNCHANGED <<last_scheduled_at, lost>>
        /\ dispatcher'[d].todo = dispatcher[d].todo \ {q}
        /\ dispatcher'[d].todo # {} =>
             dispatcher'[d].pc = "publishing" /\ dispatcher'[d].now = dispatcher[d].now
        /\ \A e \in Dispatcher \ {d} : dispatcher'[e] = dispatcher[e]
    <3>1. dispatcher[d].todo \ {q} \in SUBSET Provisioner
      BY <1>1 DEF DispatcherState
    <3>2. /\ dispatcher'[d] = ToPublish(d, dispatcher[d].todo \ {q})
          /\ \A e \in Dispatcher \ {d} : dispatcher'[e] = dispatcher[e]
      BY <1>1, <2>1
    <3> QED
      BY <1>9, <3>1, <3>2, ToPublishHolds DEF PublishOne
  <2>3. q \in Provisioner /\ dispatcher[d].now \in Time
    BY <1>1 DEF DispatcherState
  <2>4. published'[p][t] = IF q = p /\ dispatcher[d].now = t THEN published[p][t] + 1 ELSE published[p][t]
    BY <1>1, <1>2, <1>3, <2>1, <2>3
  <2>5. published[p][t] \in Nat
    BY <1>1, <1>2, <1>3
  <2>6. /\ published'[p][t] >= published[p][t]
        /\ q = p /\ dispatcher[d].now = t => published'[p][t] > 0
    <3> HIDE DEF t
    <3> QED
      BY <2>4, <2>5
  <2>7. p \in Unfinished(d) => (p \in Unfinished(d)' /\ dispatcher'[d].now = dispatcher[d].now) \/ p = q
    BY <2>2 DEF Unfinished
  <2> QED
    BY <1>5, <1>6, <2>2, <2>6, <2>7
<1>10. ASSUME NEW d \in Dispatcher, PublishFails(d) PROVE AnsweredFor(p, last_scheduled_at[p])'
  <2>1. /\ dispatcher[d].pc = "publishing" /\ UNCHANGED <<last_scheduled_at, published, lost>>
        /\ dispatcher'[d].pc = "restoring" /\ dispatcher'[d].now = dispatcher[d].now
        /\ dispatcher'[d].todo = dispatcher[d].todo
        /\ \A e \in Dispatcher \ {d} : dispatcher'[e] = dispatcher[e]
    BY <1>1, <1>10 DEF PublishFails, DispatcherState
  <2>2. p \in Unfinished(d) => p \in Unfinished(d)'
    BY <2>1 DEF Unfinished
  <2>3. published'[p][t] >= published[p][t]
    BY <1>1, <1>2, <1>3, <2>1
  <2> QED
    BY <1>5, <1>6, <2>1, <2>2, <2>3
<1>11. ASSUME NEW d \in Dispatcher, RestoreGet(d) PROVE AnsweredFor(p, last_scheduled_at[p])'
  <2>1. PICK q \in dispatcher[d].todo :
          dispatcher' = [dispatcher EXCEPT ![d].todo = @ \ {q},
                                           ![d].restore = @ \cup ({q} \cap Restorable(d))]
    BY <1>11 DEF RestoreGet
  <2>2. /\ dispatcher[d].pc = "restoring" /\ UNCHANGED <<last_scheduled_at, published, lost>>
        /\ dispatcher'[d].pc = "restoring" /\ dispatcher'[d].now = dispatcher[d].now
        /\ dispatcher'[d].todo = dispatcher[d].todo \ {q}
        /\ dispatcher'[d].restore = dispatcher[d].restore \cup ({q} \cap Restorable(d))
        /\ \A e \in Dispatcher \ {d} : dispatcher'[e] = dispatcher[e]
    BY <1>1, <1>11, <2>1 DEF RestoreGet, DispatcherState
  <2>3. p \in Unfinished(d) => p \in Unfinished(d)'
    <3>1. CASE p = q
      <4>1. IsDue(p, dispatcher[d].previous[p], dispatcher[d].now) /\ dispatcher[d].now <= time
        BY <2>1, <3>1 DEF PutBackIsDue
      <4>2. dispatcher[d].now \in Nat
        BY <1>1, TimeType DEF DispatcherState
      <4>3. t # dispatcher[d].previous[p]
        BY <1>4, <4>1, <4>2
      <4>4. p \in Restorable(d)
        BY <1>2, <2>2, <4>3 DEF Restorable
      <4> QED
        BY <2>2, <3>1, <4>4 DEF Unfinished
    <3>2. CASE p # q
      BY <2>2, <3>2 DEF Unfinished
    <3> QED
      BY <3>1, <3>2
  <2>4. published'[p][t] >= published[p][t]
    BY <1>1, <1>2, <1>3, <2>2
  <2> QED
    BY <1>5, <1>6, <2>2, <2>3, <2>4
<1>12. ASSUME NEW d \in Dispatcher, CommitRestore(d) PROVE AnsweredFor(p, last_scheduled_at[p])'
  <2>1. /\ dispatcher[d].todo = {} /\ UNCHANGED <<published, lost>>
        /\ \A e \in Dispatcher \ {d} : dispatcher'[e] = dispatcher[e]
        /\ t = IF p \in dispatcher[d].restore THEN dispatcher[d].previous[p] ELSE last_scheduled_at[p]
    BY <1>1, <1>2, <1>12 DEF CommitRestore, ReadyToRestore
  <2>2. p \notin dispatcher[d].restore
    <3>1. ASSUME p \in dispatcher[d].restore PROVE FALSE
      <4>1. IsDue(p, dispatcher[d].previous[p], dispatcher[d].now) /\ dispatcher[d].now <= time
        BY <3>1 DEF PutBackIsDue
      <4>2. dispatcher[d].now \in Nat
        BY <1>1, TimeType DEF DispatcherState
      <4> QED
        BY <1>4, <2>1, <3>1, <4>1, <4>2
    <3> QED
      BY <3>1
  <2>3. p \notin Unfinished(d)
    BY <2>1, <2>2 DEF Unfinished
  <2>4. published'[p][t] >= published[p][t]
    BY <1>1, <1>2, <1>3, <2>1
  <2> QED
    BY <1>5, <1>6, <2>1, <2>2, <2>3, <2>4
<1>13. ASSUME NEW d \in Dispatcher, RestoreFails(d) \/ DispatcherCrash(d)
       PROVE  AnsweredFor(p, last_scheduled_at[p])'
  <2>1. /\ UNCHANGED <<last_scheduled_at, published>>
        /\ lost' = lost \cup {<<q, dispatcher[d].now>> : q \in Unfinished(d)}
        /\ \A e \in Dispatcher \ {d} : dispatcher'[e] = dispatcher[e]
    BY <1>1, <1>13 DEF RestoreFails, DispatcherCrash, Abandon
  <2>2. published'[p][t] >= published[p][t]
    BY <1>1, <1>2, <1>3, <2>1
  <2>3. p \in Unfinished(d) /\ dispatcher[d].now = t => <<p, t>> \in lost'
    BY <2>1
  <2> QED
    BY <1>5, <1>6, <2>1, <2>2, <2>3
<1>14. CASE UNCHANGED <<last_scheduled_at, published, lost, dispatcher>>
  BY <1>5, <1>14 DEF AnsweredFor, Unfinished
<1> QED
  BY <1>7, <1>8, <1>9, <1>10, <1>11, <1>12, <1>13, <1>14
  DEF Next, DispatcherNext, SetEnabled, DeleteProvisioner, Tick, vars

-----------------------------------------------------------------------------
THEOREM InductiveInvariant == Spec => []IInv
<1>1. Init => IInv
  <2>1. Init => TypeOK
    BY InitTypeOK
  <2>2. Init => SelectionStillValid
    BY DEF Init, Idle, SelectionStillValid
  <2>3. Init => ClaimsAreOnRecord /\ ClaimsAreApart
    BY DEF Init, Idle, ClaimsAreOnRecord, ClaimsAreApart, Claimed, Pending
  <2>4. Init => PutBackIsDue /\ ReservedIsPublished
    BY DEF Init, Idle, PutBackIsDue, ReservedIsPublished, IsDue
  <2> QED
    BY <2>1, <2>2, <2>3, <2>4 DEF IInv
<1>2. IInv /\ [Next]_vars => IInv'
  <2>1. TypeOK /\ [Next]_vars /\ failures' = 0 => failures = 0
    <3>1. TypeOK => failures \in Nat
      BY ConstantsAssumption DEF TypeOK
    <3> QED
      BY <3>1, OneWay
  <2> QED
    BY <2>1, TypeInvariance, SelectionInvariance, PutBackInvariance, ReservedInvariance, ClaimsInvariance
    DEF IInv
<1> QED
  BY <1>1, <1>2, PTL DEF Spec

(* However many dispatchers overlap and crash, while the broker accepts every   *)
(* run no cron slot is dispatched twice.                                         *)
THEOREM NoSlotIsDispatchedTwice == Spec => []OneDispatchUnlessPublishFails
<1>1. IInv => OneDispatchUnlessPublishFails
  BY DEF IInv, OneDispatchUnlessPublishFails, OneDispatchPerSlot, ClaimsAreApart, Claimed
<1> QED
  BY <1>1, InductiveInvariant, PTL

(* Whatever publishes fail, restorations roll back and dispatchers die: a row   *)
(* that is not due shows a slot that was published, is still to be published or *)
(* put back, or was lost with the very dispatcher that reserved it.             *)
THEOREM NoSlotIsLost == Spec => []ReservedIsPublished
<1>1. IInv => ReservedIsPublished
  BY DEF IInv
<1> QED
  BY <1>1, InductiveInvariant, PTL
=============================================================================

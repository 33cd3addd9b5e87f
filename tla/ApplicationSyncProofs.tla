------------------------ MODULE ApplicationSyncProofs ------------------------
(***************************************************************************)
(* Theorems of ApplicationSync for every set of applications, dispatchers  *)
(* and workers and every value of the bounds.                              *)
(***************************************************************************)
EXTENDS ApplicationSync, FiniteSetTheorems, TLAPS

(* The batch size, for every number of applications, window and tick *)

LEMMA AtLeastOneType == \A n \in Int : AtLeastOne(n) \in Nat \ {0}
  BY DEF AtLeastOne

LEMMA TicksType ==
  ASSUME NEW window \in Int, NEW tick \in Int
  PROVE  TicksPerWindow(window, tick) \in Nat \ {0}
<1> DEFINE w == AtLeastOne(window)  t == AtLeastOne(tick)
<1>1. w \in Int /\ t \in Nat \ {0}
  BY AtLeastOneType
<1> HIDE DEF w, t
<1>2. w \div t \in Int
  BY <1>1
<1>3. AtLeastOne(w \div t) \in Nat \ {0}
  BY <1>2, AtLeastOneType
<1> QED
  BY <1>3 DEF TicksPerWindow, w, t

(* The quotient CeilDiv(n, d) is the least number of batches of d that hold n. *)
LEMMA CeilDivIsLeast ==
  ASSUME NEW n \in Nat, NEW d \in Nat \ {0}
  PROVE  /\ CeilDiv(n, d) \in Nat
         /\ CeilDiv(n, d) * d >= n
         /\ (CeilDiv(n, d) - 1) * d < n
<1> DEFINE m == n + d - 1  q == m \div d  r == m % d
<1>1. m \in Nat /\ q \in Int /\ r \in 0..(d - 1) /\ m = q * d + r
  OBVIOUS
<1>2. q >= 0
  BY <1>1
<1>3. (q - 1) * d = q * d - d
  BY <1>1
<1> HIDE DEF q, r
<1>4. q * d \in Int
  BY <1>1
<1>5. q * d >= n /\ q * d - d < n
  BY <1>1, <1>4
<1> QED
  BY <1>1, <1>2, <1>3, <1>5 DEF CeilDiv, q

LEMMA BatchSizeType ==
  ASSUME NEW total \in Nat, NEW window \in Int, NEW tick \in Int, NEW configured \in Nat
  PROVE  BatchSize(total, window, tick, configured) \in Nat
<1> DEFINE c == CeilDiv(total, TicksPerWindow(window, tick))
<1>1. c \in Int
  BY TicksType, CeilDivIsLeast
<1>2. AtLeastOne(c) \in Nat
  BY <1>1, AtLeastOneType
<1> QED
  BY <1>2 DEF BatchSize

(* With the automatic size, the batches of one window reach every application, *)
(* and a batch smaller by one would not: the load is spread over the window.   *)
THEOREM BatchCoversWindow ==
  ASSUME NEW total \in Nat \ {0}, NEW window \in Int, NEW tick \in Int
  PROVE  LET batch == BatchSize(total, window, tick, 0)
             ticks == TicksPerWindow(window, tick)
         IN  batch * ticks >= total /\ (batch - 1) * ticks < total
<1> DEFINE ticks == TicksPerWindow(window, tick)  c == CeilDiv(total, ticks)
<1>1. ticks \in Nat \ {0}
  BY TicksType
<1> HIDE DEF ticks
<1>2. c \in Nat /\ c * ticks >= total /\ (c - 1) * ticks < total
  BY <1>1, CeilDivIsLeast
<1> HIDE DEF c
<1>3. c # 0
  BY <1>1, <1>2
<1>4. AtLeastOne(c) = c
  BY <1>2, <1>3 DEF AtLeastOne
<1>5. BatchSize(total, window, tick, 0) = c
  BY <1>4 DEF BatchSize, c, ticks
<1> QED
  BY <1>2, <1>5 DEF ticks

-----------------------------------------------------------------------------

LEMMA BoundsAreNat ==
  /\ Window \in Nat /\ RetryAfter \in Nat /\ TickSeconds \in Nat /\ ConfiguredBatch \in Nat
  /\ MaxDelay \in Nat /\ MaxQueue \in Nat /\ MaxExtra \in Nat
  /\ MaxFailures \in Nat /\ MaxCrashes \in Nat
  /\ MaxSyncAge \in Nat /\ MaxLeaseAge \in Nat /\ MaxDelay <= MaxLeaseAge
  BY ConstantsAssumption DEF MaxSyncAge, MaxLeaseAge

(* NULL is no application and no age. *)
LEMMA NullIsApart == NULL \notin App /\ NULL \notin Nat
  BY ConstantsAssumption DEF NULL

LEMMA OlderType ==
  ASSUME NEW cap \in Nat, NEW age \in {NULL} \cup 0..cap
  PROVE  /\ Older(age, cap) \in {NULL} \cup 0..cap
         /\ Older(age, cap) = NULL <=> age = NULL
         /\ age # NULL => Older(age, cap) >= age
         /\ age # NULL /\ age < cap => Older(age, cap) = age + 1
  BY DEF Older, NULL

(* A configured size is kept, an automatic one is at most the whole table. *)
LEMMA BatchSizeBound ==
  ASSUME NEW total \in Nat, NEW window \in Int, NEW tick \in Int, NEW configured \in Nat
  PROVE  BatchSize(total, window, tick, configured) <= IF configured > 0 THEN configured ELSE total
<1> DEFINE d == TicksPerWindow(window, tick)  c == CeilDiv(total, d)
<1>1. d \in Nat \ {0}
  BY TicksType
<1> HIDE DEF d
<1>2. c \in Nat /\ (c - 1) * d < total
  BY <1>1, CeilDivIsLeast
<1> HIDE DEF c
<1>3. c <= total
  <2>1. SUFFICES ASSUME c > total PROVE FALSE
    BY <1>2
  <2>2. (c - 1) * d >= c - 1
    BY <1>1, <1>2, <2>1
  <2>3. (c - 1) * d \in Int
    BY <1>1, <1>2
  <2> QED
    BY <1>2, <2>1, <2>2, <2>3
<1> QED
  BY <1>2, <1>3 DEF BatchSize, AtLeastOne, c, d

LEMMA StartedBatchType ==
  /\ BatchSize(Cardinality(Present), Window, TickSeconds, ConfiguredBatch) \in 0..MaxBatch
  /\ 0 \in 0..MaxBatch
<1>1. IsFiniteSet(Present)
  BY ConstantsAssumption, FS_Subset DEF Present
<1> DEFINE total == Cardinality(Present)
<1>2. total \in Nat
  BY <1>1, FS_CardinalityType
<1>3. total <= Cardinality(App) /\ Cardinality(App) \in Nat
  BY ConstantsAssumption, FS_Subset, FS_CardinalityType DEF Present
<1>4. Window \in Int /\ TickSeconds \in Int /\ ConfiguredBatch \in Nat
  BY BoundsAreNat
<1> HIDE DEF total
<1>5. BatchSize(total, Window, TickSeconds, ConfiguredBatch) \in Nat
  BY <1>2, <1>4, BatchSizeType
<1>6. BatchSize(total, Window, TickSeconds, ConfiguredBatch)
        <= IF ConfiguredBatch > 0 THEN ConfiguredBatch ELSE total
  BY <1>2, <1>4, BatchSizeBound
<1>7. MaxBatch \in Nat /\ BatchSize(total, Window, TickSeconds, ConfiguredBatch) <= MaxBatch
  BY <1>2, <1>4, <1>5, <1>3, <1>6 DEF MaxBatch
<1>8. BatchSize(total, Window, TickSeconds, ConfiguredBatch) \in 0..MaxBatch /\ 0 \in 0..MaxBatch
  BY <1>5, <1>7
<1> QED
  BY <1>8 DEF total

(* Messages of a queue after one is appended, and after the first is taken. *)
LEMMA AppendKeeps ==
  ASSUME NEW q \in Seq(App), NEW a \in App
  PROVE  /\ Append(q, a) \in Seq(App)
         /\ Len(Append(q, a)) \in 1..Len(Append(q, a))
         /\ Append(q, a)[Len(Append(q, a))] = a
         /\ \A i \in 1..Len(q) : i \in 1..Len(Append(q, a)) /\ Append(q, a)[i] = q[i]
  OBVIOUS

LEMMA TailKeeps ==
  ASSUME NEW q \in Seq(App), q # << >>
  PROVE  /\ Tail(q) \in Seq(App)
         /\ Head(q) \in App /\ Head(q) = q[1]
         /\ \A i \in 1..Len(q) : i # 1 => i - 1 \in 1..Len(Tail(q)) /\ Tail(q)[i - 1] = q[i]
<1>1. Tail(q) \in Seq(App) /\ Head(q) \in App /\ Head(q) = q[1]
  OBVIOUS
<1>2. Len(Tail(q)) = Len(q) - 1 /\ Len(q) \in Nat
  OBVIOUS
<1>3. \A j \in 1..Len(Tail(q)) : Tail(q)[j] = q[j + 1]
  OBVIOUS
<1>4. ASSUME NEW i \in 1..Len(q), i # 1
      PROVE  i - 1 \in 1..Len(Tail(q)) /\ Tail(q)[i - 1] = q[i]
  <2>1. i - 1 \in 1..Len(Tail(q)) /\ (i - 1) + 1 = i
    BY <1>2, <1>4
  <2> QED
    BY <2>1, <1>3
<1> QED
  BY <1>1, <1>4

-----------------------------------------------------------------------------
LEMMA InitTypeOK == Init => TypeOK
  BY BoundsAreNat, NullIsApart, StartedBatchType DEF Init, TypeOK, DispatcherState, WorkerState, IdleDispatcher, IdleWorker

LEMMA TypeInvariance == TypeOK /\ [Next]_vars => TypeOK'
<1> SUFFICES ASSUME TypeOK, [Next]_vars PROVE TypeOK'
  OBVIOUS
<1> USE BoundsAreNat, StartedBatchType DEF TypeOK, columns, faults
<1>1. ASSUME NEW d \in Dispatcher, StartDispatch(d) PROVE TypeOK'
  BY <1>1, StartedBatchType DEF StartDispatch, DispatcherState
<1>2. ASSUME NEW d \in Dispatcher, SelectDue(d) PROVE TypeOK'
  <2>1. PICK S \in SUBSET App :
          dispatcher' = [dispatcher EXCEPT ![d].pc = "selected", ![d].rows = S]
    BY <1>2 DEF SelectDue, Candidates, Present
  <2>2. [dispatcher[d] EXCEPT !.pc = "selected", !.rows = S] \in DispatcherState
    BY DEF DispatcherState
  <2>3. dispatcher' \in [Dispatcher -> DispatcherState]
    BY <2>1, <2>2
  <2> QED
    BY <1>2, <2>3 DEF SelectDue
<1>3. ASSUME NEW d \in Dispatcher, CommitReservation(d) PROVE TypeOK'
  BY <1>3 DEF CommitReservation, DispatcherState
<1>4. ASSUME NEW d \in Dispatcher, PublishOne(d) PROVE TypeOK'
  <2>1. PICK a \in dispatcher[d].rows :
          /\ queue' = Append(queue, a)
          /\ dispatcher' = [dispatcher EXCEPT ![d].rows = @ \ {a}]
    BY <1>4 DEF PublishOne
  <2>2. a \in App
    BY DEF DispatcherState
  <2>3. queue' \in Seq(App)
    BY <2>1, <2>2, AppendKeeps
  <2>4. [dispatcher[d] EXCEPT !.rows = @ \ {a}] \in DispatcherState
    BY DEF DispatcherState
  <2>5. dispatcher' \in [Dispatcher -> DispatcherState]
    BY <2>1, <2>4
  <2> QED
    BY <1>4, <2>3, <2>5 DEF PublishOne
<1>5. ASSUME NEW d \in Dispatcher, PublishFails(d) PROVE TypeOK'
  BY <1>5 DEF PublishFails, DispatcherState, IdleDispatcher, Released
<1>6. ASSUME NEW d \in Dispatcher, FinishDispatch(d) PROVE TypeOK'
  BY <1>6 DEF FinishDispatch, DispatcherState, IdleDispatcher
<1>7. ASSUME NEW d \in Dispatcher, DispatcherCrash(d) PROVE TypeOK'
  BY <1>7 DEF DispatcherCrash, DispatcherState, IdleDispatcher
<1>8. ASSUME NEW w \in Worker, StartRun(w) PROVE TypeOK'
  BY <1>8, TailKeeps DEF StartRun, WorkerState, IdleWorker
<1>9. ASSUME NEW w \in Worker, RunSucceeds(w) PROVE TypeOK'
  BY <1>9 DEF RunSucceeds, ReservationGivenBack, WorkerState, IdleWorker, Present
<1>10. ASSUME NEW w \in Worker, RunFails(w) PROVE TypeOK'
  BY <1>10 DEF RunFails, ReservationGivenBack, WorkerState, IdleWorker, Present
<1>11. ASSUME NEW w \in Worker, WorkerCrash(w) PROVE TypeOK'
  BY <1>11 DEF WorkerCrash, WorkerState, IdleWorker
<1>12. ASSUME NEW a \in App, EnqueueSingle(a) PROVE TypeOK'
  BY <1>12, AppendKeeps DEF EnqueueSingle
<1>13. CASE Redeliver
  BY <1>13, AppendKeeps DEF Redeliver
<1>14. CASE Rebuild
  BY <1>14 DEF Rebuild
<1>15. CASE Tick
  <2>1. sync_at' \in [App -> {NULL} \cup 0..MaxSyncAge]
    BY <1>15, OlderType DEF Tick
  <2>2. sync_scheduled_at' \in [App -> {NULL} \cup 0..MaxLeaseAge]
    BY <1>15, OlderType DEF Tick
  <2>3. \A d \in Dispatcher : Older(dispatcher[d].age, MaxLeaseAge) \in 0..MaxLeaseAge
    BY OlderType, NullIsApart DEF DispatcherState
  <2>4. dispatcher' \in [Dispatcher -> DispatcherState]
    BY <1>15, <2>3 DEF Tick, DispatcherState
  <2> QED
    BY <1>15, <2>1, <2>2, <2>4 DEF Tick
<1>16. CASE UNCHANGED vars
  BY <1>16 DEF vars
<1> QED
  BY <1>1, <1>2, <1>3, <1>4, <1>5, <1>6, <1>7, <1>8, <1>9, <1>10, <1>11, <1>12,
     <1>13, <1>14, <1>15, <1>16 DEF Next, DispatcherNext, WorkerNext

(* Type correctness, for every instance. *)
THEOREM TypeCorrect == Spec => []TypeOK
  BY InitTypeOK, TypeInvariance, PTL DEF Spec

-----------------------------------------------------------------------------
(* Locked is the rows of the dispatchers between SELECT and commit. *)
LEMMA LockedRows ==
  /\ \A e \in Dispatcher : dispatcher[e].pc = "selected" => dispatcher[e].rows \subseteq Locked
  /\ \A a \in Locked : \E e \in Dispatcher : dispatcher[e].pc = "selected" /\ a \in dispatcher[e].rows
  BY DEF Locked

LEMMA ClocksInvariance == TypeOK /\ ClocksAreFresh /\ [Next]_vars => ClocksAreFresh'
<1> SUFFICES ASSUME TypeOK, ClocksAreFresh, [Next]_vars PROVE ClocksAreFresh'
  OBVIOUS
<1> USE BoundsAreNat DEF ClocksAreFresh, HoldsClock
<1>1. dispatcher \in [Dispatcher -> DispatcherState]
  BY DEF TypeOK
<1>2. CASE UNCHANGED dispatcher
  BY <1>2
<1>3. ASSUME NEW d \in Dispatcher, DispatcherNext(d) PROVE ClocksAreFresh'
  <2>1. CASE StartDispatch(d)
    BY <2>1, <1>1 DEF StartDispatch
  <2>2. CASE SelectDue(d)
    <3>1. PICK S : dispatcher' = [dispatcher EXCEPT ![d].pc = "selected", ![d].rows = S]
      BY <2>2 DEF SelectDue
    <3>2. dispatcher[d].pc = "started"
      BY <2>2 DEF SelectDue
    <3> QED
      BY <3>1, <3>2, <1>1 DEF DispatcherState
  <2>3. CASE CommitReservation(d)
    BY <2>3, <1>1 DEF CommitReservation, DispatcherState
  <2>4. CASE PublishOne(d)
    <3>1. PICK a \in dispatcher[d].rows : dispatcher' = [dispatcher EXCEPT ![d].rows = @ \ {a}]
      BY <2>4 DEF PublishOne
    <3> QED
      BY <3>1, <1>1 DEF DispatcherState
  <2>5. CASE PublishFails(d) \/ FinishDispatch(d) \/ DispatcherCrash(d)
    BY <2>5, <1>1 DEF PublishFails, FinishDispatch, DispatcherCrash, IdleDispatcher
  <2> QED
    BY <1>3, <2>1, <2>2, <2>3, <2>4, <2>5 DEF DispatcherNext
<1>4. CASE Tick
  <2>1. ASSUME NEW d \in Dispatcher, HoldsClock(d)' PROVE dispatcher'[d].age <= MaxDelay
    <3>1. dispatcher[d].pc = dispatcher'[d].pc /\ HoldsClock(d)
      BY <1>1, <1>4, <2>1 DEF Tick, DispatcherState
    <3>2. dispatcher[d].age < MaxDelay /\ dispatcher[d].age \in 0..MaxLeaseAge
      BY <1>1, <1>4, <3>1 DEF Tick, DispatcherState
    <3>3. dispatcher'[d].age = Older(dispatcher[d].age, MaxLeaseAge)
      BY <1>1, <1>4, <3>1 DEF Tick, DispatcherState
    <3> QED
      BY <3>2, <3>3 DEF Older, NULL
  <2> QED
    BY <2>1
<1> QED
  BY <1>2, <1>3, <1>4
  DEF Next, WorkerNext, StartRun, RunSucceeds, RunFails, WorkerCrash, EnqueueSingle,
      Redeliver, Rebuild, vars

(* Only rows that exist are reserved: the reservation is written under the row *)
(* lock taken by the SELECT.                                                    *)
LEMMA PresentInvariance ==
  TypeOK /\ SelectionStillValid /\ ReservedArePresent /\ [Next]_vars => ReservedArePresent'
<1> SUFFICES ASSUME TypeOK, SelectionStillValid, ReservedArePresent, [Next]_vars
             PROVE  ReservedArePresent'
  OBVIOUS
<1> USE DEF ReservedArePresent, Present
<1>1. /\ row \in [App -> {"unborn", "present", "deleted"}]
      /\ sync_scheduled_at \in [App -> {NULL} \cup 0..MaxLeaseAge]
  BY DEF TypeOK
<1>2. CASE UNCHANGED <<row, sync_scheduled_at>>
  BY <1>2
<1>3. ASSUME NEW d \in Dispatcher, CommitReservation(d) PROVE ReservedArePresent'
  BY <1>1, <1>3 DEF CommitReservation, SelectionStillValid
<1>4. ASSUME NEW d \in Dispatcher, PublishFails(d) PROVE ReservedArePresent'
  BY <1>1, <1>4 DEF PublishFails
<1>5. ASSUME NEW w \in Worker, RunSucceeds(w) \/ RunFails(w) PROVE ReservedArePresent'
  <2>1. row' = row /\ (sync_scheduled_at' = sync_scheduled_at
                        \/ \E a \in App : sync_scheduled_at' = [sync_scheduled_at EXCEPT ![a] = NULL])
    BY <1>5 DEF RunSucceeds, RunFails, ReservationGivenBack
  <2> QED
    BY <2>1, <1>1
<1>6. CASE Rebuild
  BY <1>1, <1>6 DEF Rebuild
<1>7. CASE Tick
  <2>1. \A a \in App : Older(sync_scheduled_at[a], MaxLeaseAge) # NULL => sync_scheduled_at[a] # NULL
    BY <1>1, BoundsAreNat, OlderType
  <2> QED
    BY <1>7, <2>1 DEF Tick
<1> QED
  BY <1>2, <1>3, <1>4, <1>5, <1>6, <1>7
  DEF Next, DispatcherNext, WorkerNext, StartDispatch, SelectDue, PublishOne, FinishDispatch,
      DispatcherCrash, StartRun, WorkerCrash, EnqueueSingle, Redeliver, vars, columns

(* No action of another process can disturb what a dispatcher has selected: the *)
(* selected rows are locked, and every other writer waits for the lock.         *)
LEMMA SelectionInvariance ==
  TypeOK /\ SelectionStillValid /\ ClocksAreFresh /\ [Next]_vars => SelectionStillValid'
<1> SUFFICES ASSUME TypeOK, SelectionStillValid, ClocksAreFresh, [Next]_vars
             PROVE  SelectionStillValid'
  OBVIOUS
<1> USE DEF SelectionStillValid, Present, Due, Free
<1>1. /\ dispatcher \in [Dispatcher -> DispatcherState]
      /\ row \in [App -> {"unborn", "present", "deleted"}]
      /\ sync_at \in [App -> {NULL} \cup 0..MaxSyncAge]
      /\ sync_scheduled_at \in [App -> {NULL} \cup 0..MaxLeaseAge]
  BY DEF TypeOK
<1> DEFINE Undisturbed(d) == /\ dispatcher[d].pc = "selected"
                             /\ dispatcher'[d] = dispatcher[d]
<1>2. ASSUME UNCHANGED <<row, sync_at, sync_scheduled_at>>,
             \A d \in Dispatcher : dispatcher'[d].pc = "selected" => Undisturbed(d)
      PROVE  SelectionStillValid'
  BY <1>2
<1>3. ASSUME \A d \in Dispatcher : dispatcher'[d].pc = "selected" => Undisturbed(d),
             \A a \in Locked : UNCHANGED <<row[a], sync_at[a], sync_scheduled_at[a]>>
      PROVE  SelectionStillValid'
  <2>1. \A d \in Dispatcher : dispatcher'[d].pc = "selected" =>
          dispatcher[d].rows \subseteq App \cap Locked
    BY <1>1, <1>3, LockedRows DEF DispatcherState
  <2> QED
    BY <1>3, <2>1
<1>4. ASSUME NEW d \in Dispatcher, SelectDue(d) PROVE SelectionStillValid'
  <2>1. PICK S \in SUBSET Candidates(dispatcher[d].age) :
          dispatcher' = [dispatcher EXCEPT ![d].pc = "selected", ![d].rows = S]
    BY <1>4 DEF SelectDue
  <2>2. /\ dispatcher'[d].rows = S /\ dispatcher'[d].age = dispatcher[d].age
        /\ \A e \in Dispatcher \ {d} : dispatcher'[e] = dispatcher[e]
    BY <1>1, <2>1 DEF DispatcherState
  <2>3. UNCHANGED <<row, sync_at, sync_scheduled_at>> /\ dispatcher[d].pc = "started"
    BY <1>4 DEF SelectDue, columns
  <2>4. \A a \in S : a \in Present /\ a \notin Locked /\ Due(a, dispatcher[d].age) /\ Free(a, dispatcher[d].age)
    BY <2>1 DEF Candidates
  <2>5. \A e \in Dispatcher \ {d} : dispatcher[e].pc = "selected" => dispatcher[e].rows \cap S = {}
    BY <2>4, LockedRows
  <2> QED
    BY <2>2, <2>3, <2>4, <2>5
<1>5. ASSUME NEW d \in Dispatcher, CommitReservation(d) PROVE SelectionStillValid'
  <2>1. /\ UNCHANGED <<row, sync_at>>
        /\ \A a \in App \ dispatcher[d].rows : sync_scheduled_at'[a] = sync_scheduled_at[a]
        /\ dispatcher[d].pc = "selected"
    BY <1>5 DEF CommitReservation
  <2>2. \A e \in Dispatcher : dispatcher'[e].pc = "selected" => Undisturbed(e) /\ e # d
    BY <1>1, <1>5 DEF CommitReservation, DispatcherState
  <2>3. \A e \in Dispatcher \ {d} : dispatcher[e].pc = "selected" =>
          dispatcher[e].rows \subseteq App \ dispatcher[d].rows
    BY <1>1, <2>1 DEF DispatcherState
  <2> QED
    BY <2>1, <2>2, <2>3
<1>6. ASSUME NEW d \in Dispatcher, PublishOne(d) PROVE SelectionStillValid'
  <2>1. PICK a : dispatcher' = [dispatcher EXCEPT ![d].rows = @ \ {a}]
    BY <1>6 DEF PublishOne
  <2> QED
    BY <1>1, <1>2, <1>6, <2>1 DEF PublishOne, columns, DispatcherState
<1>7. ASSUME NEW d \in Dispatcher, PublishFails(d) PROVE SelectionStillValid'
  <2>1. \A e \in Dispatcher : dispatcher'[e].pc = "selected" => Undisturbed(e)
    BY <1>1, <1>7 DEF PublishFails, IdleDispatcher
  <2>2. \A a \in Locked : UNCHANGED <<row[a], sync_at[a], sync_scheduled_at[a]>>
    <3>1. Locked \subseteq App
      BY <1>1, LockedRows DEF DispatcherState
    <3> QED
      BY <1>1, <1>7, <3>1 DEF PublishFails
  <2> QED
    BY <1>3, <2>1, <2>2
<1>8. ASSUME NEW d \in Dispatcher, StartDispatch(d) \/ FinishDispatch(d) \/ DispatcherCrash(d)
      PROVE  SelectionStillValid'
  BY <1>1, <1>2, <1>8
  DEF StartDispatch, FinishDispatch, DispatcherCrash, IdleDispatcher, columns
<1>9. ASSUME NEW w \in Worker, RunSucceeds(w) \/ RunFails(w) PROVE SelectionStillValid'
  <2>1. \A a \in App : a # worker[w].app => UNCHANGED <<row[a], sync_at[a], sync_scheduled_at[a]>>
    BY <1>1, <1>9 DEF RunSucceeds, RunFails, ReservationGivenBack
  <2>2. worker[w].app \notin Locked /\ UNCHANGED dispatcher
    BY <1>9 DEF RunSucceeds, RunFails
  <2>3. Locked \subseteq App
    BY <1>1, LockedRows DEF DispatcherState
  <2> QED
    BY <1>3, <2>1, <2>2, <2>3
<1>10. CASE Rebuild
  <2>1. UNCHANGED dispatcher /\ \A a \in Present \cap Locked : UNCHANGED <<row[a], sync_at[a], sync_scheduled_at[a]>>
    BY <1>1, <1>10 DEF Rebuild, Unborn
  <2>2. Locked \subseteq Present
    BY LockedRows
  <2> QED
    BY <1>3, <2>1, <2>2
<1>11. CASE Tick
  <2> SUFFICES ASSUME NEW d \in Dispatcher, dispatcher'[d].pc = "selected",
                      NEW a \in dispatcher'[d].rows
               PROVE  /\ a \in Present'
                      /\ Due(a, dispatcher[d].age)' /\ Free(a, dispatcher[d].age)'
                      /\ \A e \in Dispatcher \ {d} :
                           ~(dispatcher'[e].pc = "selected" /\ a \in dispatcher'[e].rows)
    OBVIOUS
  <2>1. \A e \in Dispatcher : /\ dispatcher'[e].pc = dispatcher[e].pc
                             /\ dispatcher'[e].rows = dispatcher[e].rows
    BY <1>1, <1>11 DEF Tick, DispatcherState
  <2>2. dispatcher[d].age < MaxDelay /\ dispatcher[d].age \in Nat
    BY <1>1, <1>11, <2>1 DEF Tick, HoldsClock, DispatcherState
  <2>3. dispatcher'[d].age = dispatcher[d].age + 1
    <3>1. dispatcher'[d].age = Older(dispatcher[d].age, MaxLeaseAge)
      BY <1>1, <1>11, <2>1 DEF Tick, DispatcherState
    <3> QED
      BY <2>2, <3>1, BoundsAreNat DEF Older, NULL
  <2>4. a \in App /\ a \in Present /\ Due(a, dispatcher[d].age) /\ Free(a, dispatcher[d].age)
    BY <1>1, <2>1 DEF DispatcherState
  <2>5. /\ sync_at'[a] = Older(sync_at[a], MaxSyncAge) /\ row' = row
        /\ sync_scheduled_at'[a] = Older(sync_scheduled_at[a], MaxLeaseAge)
    BY <1>11, <2>4 DEF Tick
  <2>6. Due(a, dispatcher[d].age)'
    BY <1>1, <2>2, <2>3, <2>4, <2>5, BoundsAreNat DEF Older, MaxSyncAge, NULL
  <2>7. Free(a, dispatcher[d].age)'
    BY <1>1, <2>2, <2>3, <2>4, <2>5, BoundsAreNat DEF Older, MaxLeaseAge, NULL
  <2> QED
    BY <2>1, <2>4, <2>5, <2>6, <2>7
<1>12. CASE UNCHANGED <<row, sync_at, sync_scheduled_at, dispatcher>>
  BY <1>12
<1> QED
  BY <1>4, <1>5, <1>6, <1>7, <1>8, <1>9, <1>10, <1>11, <1>12
  DEF Next, DispatcherNext, WorkerNext, StartRun, WorkerCrash, EnqueueSingle, Redeliver,
      vars, columns

(* A reservation changes hands without a gap: from the dispatcher to a message, *)
(* from the message to a run that loaded the row reserved, and that run gives   *)
(* it back however it ends.                                                      *)
LEMMA CarriedInvariance ==
  TypeOK /\ ReservedArePresent /\ ReservationCarried /\ [Next]_vars => ReservationCarried'
<1> SUFFICES ASSUME TypeOK, ReservedArePresent, ReservationCarried, [Next]_vars, crashes' = 0,
                    NEW a \in App, sync_scheduled_at'[a] # NULL
             PROVE  Carried(a)'
  BY DEF ReservationCarried, Carried
<1> USE DEF Carried
<1>1. /\ dispatcher \in [Dispatcher -> DispatcherState]
      /\ worker \in [Worker -> WorkerState]
      /\ queue \in Seq(App)
      /\ sync_scheduled_at \in [App -> {NULL} \cup 0..MaxLeaseAge]
      /\ crashes \in Nat
  BY BoundsAreNat DEF TypeOK
<1>2. sync_scheduled_at[a] # NULL /\ crashes = 0 => Carried(a)
  BY DEF ReservationCarried
<1>3. ASSUME NEW d \in Dispatcher, CommitReservation(d) PROVE Carried(a)'
  <2>1. UNCHANGED <<queue, worker, crashes>>
    BY <1>3 DEF CommitReservation, faults
  <2>2. CASE a \in dispatcher[d].rows
    BY <1>1, <1>3, <2>2 DEF CommitReservation, DispatcherState
  <2>3. CASE a \notin dispatcher[d].rows
    <3>1. Carried(a)
      BY <1>2, <1>3, <2>1, <2>3 DEF CommitReservation
    <3>2. \A e \in Dispatcher : dispatcher[e].pc = "publishing" => dispatcher'[e] = dispatcher[e]
      BY <1>1, <1>3 DEF CommitReservation, DispatcherState
    <3> QED
      BY <2>1, <3>1, <3>2
  <2> QED
    BY <2>2, <2>3
<1>4. ASSUME NEW d \in Dispatcher, PublishOne(d) PROVE Carried(a)'
  <2>1. PICK b \in dispatcher[d].rows :
          /\ queue' = Append(queue, b)
          /\ dispatcher' = [dispatcher EXCEPT ![d].rows = @ \ {b}]
    BY <1>4 DEF PublishOne
  <2>2. UNCHANGED <<sync_scheduled_at, worker, crashes>> /\ b \in App
    BY <1>1, <1>4 DEF PublishOne, faults, columns, DispatcherState
  <2>3. /\ Len(queue') \in 1..Len(queue') /\ queue'[Len(queue')] = b
        /\ \A i \in 1..Len(queue) : i \in 1..Len(queue') /\ queue'[i] = queue[i]
    BY <1>1, <2>1, <2>2, AppendKeeps
  <2>4. CASE a = b
    BY <2>3, <2>4
  <2>5. CASE a # b
    <3>1. Carried(a)
      BY <1>2, <2>2
    <3>2. \A e \in Dispatcher : /\ dispatcher'[e].pc = dispatcher[e].pc
                               /\ dispatcher[e].rows \ {b} \subseteq dispatcher'[e].rows
      BY <1>1, <2>1, <2>5 DEF DispatcherState
    <3>3. CASE \E i \in 1..Len(queue) : queue[i] = a
      <4>1. PICK i \in 1..Len(queue) : queue[i] = a
        BY <3>3
      <4>2. i \in 1..Len(queue') /\ queue'[i] = a
        BY <2>3, <4>1
      <4> QED
        BY <4>2
    <3>4. CASE ~\E i \in 1..Len(queue) : queue[i] = a
      <4>1. \/ \E e \in Dispatcher : dispatcher[e].pc = "publishing" /\ a \in dispatcher[e].rows
            \/ \E w \in Worker : worker[w].pc = "running" /\ worker[w].app = a /\ worker[w].reserved
        BY <3>1, <3>4
      <4>2. ASSUME NEW e \in Dispatcher, dispatcher[e].pc = "publishing", a \in dispatcher[e].rows
            PROVE  Carried(a)'
        <5>1. dispatcher'[e].pc = "publishing" /\ a \in dispatcher'[e].rows
          BY <2>5, <3>2, <4>2
        <5> QED
          BY <5>1
      <4>3. worker' = worker
        BY <2>2
      <4> QED
        BY <4>1, <4>2, <4>3
    <3> QED
      BY <3>3, <3>4
  <2> QED
    BY <2>4, <2>5
<1>5. ASSUME NEW d \in Dispatcher, PublishFails(d) PROVE Carried(a)'
  <2>1. a \notin dispatcher[d].rows /\ sync_scheduled_at[a] # NULL
    BY <1>5 DEF PublishFails, Released
  <2>2. UNCHANGED <<queue, worker, crashes>>
    BY <1>5 DEF PublishFails
  <2>3. \A e \in Dispatcher : a \in dispatcher[e].rows => dispatcher'[e] = dispatcher[e]
    BY <1>1, <1>5, <2>1 DEF PublishFails
  <2> QED
    BY <1>2, <2>1, <2>2, <2>3
<1>6. ASSUME NEW d \in Dispatcher, StartDispatch(d) \/ SelectDue(d) \/ FinishDispatch(d) PROVE Carried(a)'
  <2>1. UNCHANGED <<queue, worker, crashes, sync_scheduled_at>>
    BY <1>6 DEF StartDispatch, SelectDue, FinishDispatch, columns, faults
  <2>2. \A e \in Dispatcher : dispatcher[e].pc = "publishing" /\ a \in dispatcher[e].rows =>
          dispatcher'[e] = dispatcher[e]
    BY <1>1, <1>6 DEF StartDispatch, SelectDue, FinishDispatch
  <2> QED
    BY <1>2, <2>1, <2>2
<1>7. ASSUME NEW w \in Worker, StartRun(w) PROVE Carried(a)'
  <2>1. /\ UNCHANGED <<row, dispatcher, crashes, sync_scheduled_at>> /\ queue # << >>
        /\ worker[w].pc = "idle" /\ queue' = Tail(queue)
    BY <1>7 DEF StartRun, columns, faults
  <2>2. \A v \in Worker : worker[v].pc = "running" => worker'[v] = worker[v]
    BY <1>1, <1>7, <2>1 DEF StartRun
  <2>3. CASE Head(queue) = a
    <3>1. a \in Present
      BY <2>1 DEF ReservedArePresent
    <3>2. worker'[w] = [pc |-> "running", app |-> a, reserved |-> TRUE]
      BY <1>1, <1>7, <2>1, <2>3, <3>1 DEF StartRun
    <3> QED
      BY <3>2
  <2>4. CASE Head(queue) # a
    <3>1. Carried(a)
      BY <1>2, <2>1
    <3>2. \A i \in 1..Len(queue) : queue[i] = a => \E j \in 1..Len(queue') : queue'[j] = a
      <4> SUFFICES ASSUME NEW i \in 1..Len(queue), queue[i] = a
                   PROVE  \E j \in 1..Len(queue') : queue'[j] = a
        OBVIOUS
      <4>1. i # 1
        BY <1>1, <2>1, <2>4, TailKeeps
      <4>2. i - 1 \in 1..Len(queue') /\ queue'[i - 1] = a
        BY <1>1, <2>1, <4>1, TailKeeps
      <4> QED
        BY <4>2
    <3> QED
      BY <2>1, <2>2, <3>1, <3>2
  <2> QED
    BY <2>3, <2>4
<1>8. ASSUME NEW w \in Worker, RunSucceeds(w) \/ RunFails(w) PROVE Carried(a)'
  <2>1. UNCHANGED <<dispatcher, queue, crashes>>
    BY <1>8 DEF RunSucceeds, RunFails, faults
  <2>2. /\ sync_scheduled_at[a] # NULL
        /\ ~(worker[w].app = a /\ worker[w].reserved)
    <3>1. CASE RunSucceeds(w)
      BY <1>1, <3>1 DEF RunSucceeds, ReservationGivenBack, Present
    <3>2. CASE RunFails(w)
      <4>1. CASE worker[w].app \in Present
        BY <1>1, <3>2, <4>1 DEF RunFails, ReservationGivenBack, Present
      <4>2. CASE worker[w].app \notin Present
        BY <3>2, <4>2 DEF RunFails, ReservedArePresent
      <4> QED
        BY <4>1, <4>2
    <3> QED
      BY <1>8, <3>1, <3>2
  <2>3. \A v \in Worker \ {w} : worker'[v] = worker[v]
    BY <1>1, <1>8 DEF RunSucceeds, RunFails
  <2> QED
    BY <1>2, <2>1, <2>2, <2>3
<1>9. ASSUME NEW b \in App, queue' = Append(queue, b),
             UNCHANGED <<dispatcher, worker, crashes, sync_scheduled_at>>
      PROVE  Carried(a)'
  <2>1. \A i \in 1..Len(queue) : i \in 1..Len(queue') /\ queue'[i] = queue[i]
    BY <1>1, <1>9, AppendKeeps
  <2> QED
    BY <1>2, <1>9, <2>1
<1>10. CASE Redeliver
  <2>1. PICK i \in 1..Len(queue) : queue' = Append(queue, queue[i])
    BY <1>10 DEF Redeliver
  <2>2. queue[i] \in App
    BY <1>1
  <2> QED
    BY <1>9, <1>10, <2>1, <2>2 DEF Redeliver, columns
<1>11. ASSUME NEW b \in App, EnqueueSingle(b) PROVE Carried(a)'
  BY <1>9, <1>11 DEF EnqueueSingle, columns
<1>12. CASE Rebuild
  <2>1. sync_scheduled_at[a] # NULL /\ UNCHANGED <<dispatcher, worker, queue, crashes>>
    BY <1>12 DEF Rebuild, faults
  <2> QED
    BY <1>2, <2>1
<1>13. CASE Tick
  <2>1. sync_scheduled_at[a] # NULL
    BY <1>1, <1>13, BoundsAreNat, OlderType DEF Tick
  <2>2. \A e \in Dispatcher : dispatcher'[e].pc = dispatcher[e].pc /\ dispatcher'[e].rows = dispatcher[e].rows
    BY <1>1, <1>13 DEF Tick, DispatcherState
  <2> QED
    BY <1>2, <1>13, <2>1, <2>2 DEF Tick, faults
<1>14. ASSUME NEW d \in Dispatcher, DispatcherCrash(d) PROVE FALSE
  BY <1>1, <1>14 DEF DispatcherCrash
<1>15. ASSUME NEW w \in Worker, WorkerCrash(w) PROVE FALSE
  BY <1>1, <1>15 DEF WorkerCrash
<1>16. CASE UNCHANGED vars
  BY <1>2, <1>16 DEF vars, columns, faults
<1> QED
  BY <1>3, <1>4, <1>5, <1>6, <1>7, <1>8, <1>10, <1>11, <1>12, <1>13, <1>14, <1>15, <1>16
  DEF Next, DispatcherNext, WorkerNext

-----------------------------------------------------------------------------
THEOREM InductiveInvariant == Spec => []IInv
<1>1. Init => IInv
  <2>1. Init => TypeOK
    BY InitTypeOK
  <2>2. Init => SelectionStillValid /\ ReservationCarried /\ ReservedArePresent /\ ClocksAreFresh
    BY DEF Init, SelectionStillValid, ReservationCarried, ReservedArePresent, ClocksAreFresh,
           HoldsClock, IdleDispatcher
  <2> QED
    BY <2>1, <2>2 DEF IInv
<1>2. IInv /\ [Next]_vars => IInv'
  BY TypeInvariance, ClocksInvariance, PresentInvariance, SelectionInvariance, CarriedInvariance
  DEF IInv
<1> QED
  BY <1>1, <1>2, PTL DEF Spec

(* A batch stays valid, and belongs to one dispatcher, from its SELECT to its   *)
(* commit.                                                                       *)
THEOREM SelectionsStayValid == Spec => []SelectionStillValid
<1>1. IInv => SelectionStillValid
  BY DEF IInv
<1> QED
  BY <1>1, InductiveInvariant, PTL

(* Without a crash no reservation is left for its expiry to clear.               *)
THEOREM ReservationsAreCarried == Spec => []ReservationCarried
<1>1. IInv => ReservationCarried
  BY DEF IInv
<1> QED
  BY <1>1, InductiveInvariant, PTL

-----------------------------------------------------------------------------
(* sync_scheduled_at implements the lease of ReservationLease. *)
LEMMA LeaseStep == IInv /\ [Next]_vars => [Lease!LeaseNext]_sync_scheduled_at
<1> SUFFICES ASSUME IInv, [Next]_vars PROVE [Lease!LeaseNext]_sync_scheduled_at
  OBVIOUS
<1> USE DEF Lease!LeaseNext
<1>1. /\ sync_scheduled_at \in [App -> {NULL} \cup 0..MaxLeaseAge]
      /\ dispatcher \in [Dispatcher -> DispatcherState]
  BY DEF IInv, TypeOK
<1>2. Lease!NULL = NULL
  BY DEF Lease!NULL, NULL
<1>3. ASSUME NEW d \in Dispatcher, CommitReservation(d) PROVE Lease!Acquire
  <2>1. dispatcher[d].rows \in SUBSET App
    BY <1>1 DEF DispatcherState
  <2>2. dispatcher[d].age \in 0..MaxDelay
    BY <1>1, <1>3, BoundsAreNat DEF IInv, ClocksAreFresh, HoldsClock, CommitReservation, DispatcherState
  <2>3. \A a \in dispatcher[d].rows : Lease!Reservable(a)
    BY <1>1, <1>2, <1>3, <2>1, <2>2, BoundsAreNat
    DEF IInv, SelectionStillValid, Free, CommitReservation, Lease!Reservable
  <2>4. sync_scheduled_at' = [a \in App |->
          IF a \in dispatcher[d].rows THEN dispatcher[d].age ELSE sync_scheduled_at[a]]
    BY <1>3 DEF CommitReservation
  <2> QED
    BY <2>1, <2>2, <2>3, <2>4 DEF Lease!Acquire
<1>4. ASSUME NEW S \in SUBSET App,
             sync_scheduled_at' = [a \in App |-> IF a \in S THEN NULL ELSE sync_scheduled_at[a]]
      PROVE  Lease!GiveBack
  BY <1>2, <1>4 DEF Lease!GiveBack
<1>5. ASSUME NEW d \in Dispatcher, PublishFails(d) PROVE Lease!GiveBack
  BY <1>1, <1>4, <1>5 DEF PublishFails, Released, DispatcherState
<1>6. ASSUME NEW w \in Worker, RunSucceeds(w) \/ RunFails(w)
      PROVE  Lease!GiveBack \/ UNCHANGED sync_scheduled_at
  <2>1. CASE worker[w].app \in App
    <3>1. ReservationGivenBack(worker[w].app) =
            [a \in App |-> IF a \in {worker[w].app} THEN NULL ELSE sync_scheduled_at[a]]
      BY <1>1 DEF ReservationGivenBack
    <3> QED
      BY <1>4, <1>6, <2>1, <3>1 DEF RunSucceeds, RunFails
  <2>2. CASE worker[w].app \notin App
    BY <1>6, <2>2 DEF RunSucceeds, RunFails, Present
  <2> QED
    BY <2>1, <2>2
<1>7. CASE Rebuild
  <2>1. PICK gone \in SUBSET Present :
          sync_scheduled_at' = [a \in App |-> IF a \in gone THEN NULL ELSE sync_scheduled_at[a]]
    BY <1>7 DEF Rebuild
  <2> QED
    BY <1>4, <2>1 DEF Present
<1>8. CASE Tick
  <2>1. \A a \in App : Lease!Older(sync_scheduled_at[a], MaxLeaseAge) = Older(sync_scheduled_at[a], MaxLeaseAge)
    BY <1>2 DEF Lease!Older, Older
  <2> QED
    BY <1>8, <2>1 DEF Tick, Lease!GrowOlder
<1> QED
  BY <1>3, <1>5, <1>6, <1>7, <1>8
  DEF Next, DispatcherNext, WorkerNext, StartDispatch, SelectDue, PublishOne, FinishDispatch,
      DispatcherCrash, StartRun, WorkerCrash, EnqueueSingle, Redeliver, vars, columns

(* Whatever dispatchers, workers, rebuilds, failures and crashes do, a live      *)
(* reservation is only ever given back or left to grow older.                    *)
THEOREM ReservationsImplementLease == Spec => ReservationsAreLeases
<1>1. Init => Lease!LeaseInit
  BY DEF Init, Lease!LeaseInit, Lease!NULL, NULL
<1> QED
  BY <1>1, LeaseStep, InductiveInvariant, PTL DEF Spec, ReservationsAreLeases, Lease!LeaseSpec

=============================================================================

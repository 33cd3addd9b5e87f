------------------------- MODULE MachineOptimization -------------------------
(***************************************************************************)
(* One scope of one machine and what its stored optimization says of it,   *)
(* while refreshes do not overlap (MetricCollection lets them overlap).    *)
(* Source: refresh_machine_optimization of internal/usecases/              *)
(* optimizations.py and the transactions that call it.                     *)
(*                                                                         *)
(* `samples' is the window of the provider that sees the machine when only *)
(* one does.  Which samples enter and leave it is abstracted: a window may *)
(* hold any total.                                                         *)
(* RowInit, RowNext, ... leave the plain names to MetricCollection: one    *)
(* module proves theorems of both.                                         *)
(***************************************************************************)
EXTENDS OptimizationRules

CONSTANTS
  Capacity,   \* capacities that the inventory reports
  Total       \* totals of the samples of a window

ASSUME DataAssumption == Capacity \subseteq Nat \cup {None} /\ Total \subseteq Nat

VARIABLES scope, providers, capacity, samples, row

rowVars == <<scope, providers, capacity, samples, row>>

Windows == [total : {0}, count : {0}] \cup [total : Total, count : 1..Window]

Current ==
  [scope |-> scope, providers |-> providers, capacity |-> capacity,
   total |-> samples.total, count |-> samples.count]

Row(e) == [evidence |-> e, decision |-> Evaluate(e)]

(* A machine is created by an inventory run, which refreshes it. *)
RowInit ==
  /\ scope \in Scope
  /\ providers \in 0..2
  /\ capacity \in Capacity
  /\ samples = [total |-> 0, count |-> 0]
  /\ row = Row(Current)

(* Mutant: the evidence is renewed and the decision left as it was. *)
RefreshEvidenceOnly == row' = [row EXCEPT !.evidence = Current']

(* refresh_machine_optimization, in the transaction that changed the evidence *)
Refresh == row' = Row(Current')

(* A sample is stored: a new one, or today's is replaced. *)
Collect ==
  /\ providers > 0
  /\ \E w \in Windows : w.count >= samples.count /\ samples' = w
  /\ UNCHANGED <<scope, providers, capacity>>
  /\ Refresh

(* An inventory run finds a new flavor. *)
Discover ==
  /\ \E c \in Capacity \ {capacity} : capacity' = c
  /\ UNCHANGED <<scope, providers, samples>>
  /\ Refresh

(* machines.recalculate_optimizations *)
Recalculate ==
  /\ UNCHANGED <<scope, providers, capacity, samples>>
  /\ Refresh

(* The API attaches, enables or disables providers, and refreshes nothing. *)
ConfigureProviders ==
  /\ providers' \in 0..2
  /\ samples' \in Windows
  /\ UNCHANGED <<scope, capacity, row>>

RowNext == Collect \/ Discover \/ Recalculate \/ ConfigureProviders

RowSpec == RowInit /\ [][RowNext]_rowVars

-----------------------------------------------------------------------------
(* Every variable stays within its type.  The stored row is always what the    *)
(* rules say of the evidence in it, and that evidence is of the capacity the   *)
(* machine has: no transaction that changes it leaves the row behind.          *)
RowTypeOK ==
  /\ scope \in Scope
  /\ providers \in 0..2
  /\ capacity \in Capacity
  /\ samples \in Windows
  /\ row.evidence \in Evidence
  /\ row.decision \in Decisions
  /\ row.decision = Evaluate(row.evidence)
  /\ row.evidence.scope = scope /\ row.evidence.capacity = capacity

Proposes(r) == r.decision.action \in {"scale_up", "scale_down"}

(* A proposed capacity carries the measured load at no more than the target    *)
(* utilization, whatever rounding, bounds and margins did to it, and is one    *)
(* that the catalog has; only a machine below the catalog's minimum is just    *)
(* raised to it.  Disks never shrink.                                          *)
ProposalsCarryTheLoad ==
  LET e == row.evidence
      t == row.decision.target
  IN  Proposes(row) =>
        /\ t \in Nat \ {0}
        /\ Undersized(e) \/ Target * e.count * t >= e.capacity * e.total
        /\ e.scope \in Catalogued => Minimum(e.scope) <= t /\ t <= Maximum(e.scope)
        /\ e.scope = "disk" => row.decision.action = "scale_up"

(* The same load measured on a machine of capacity t: the average is           *)
(* (total * capacity) / (count * t).                                           *)
Resized(e, t) ==
  [e EXCEPT !.capacity = t, !.total = e.total * e.capacity, !.count = e.count * t]

(* Following a proposal ends it: with the load unchanged the resized machine   *)
(* is kept, so that the thresholds, the margins and the bounds never make it   *)
(* grow and shrink in turn.  After a raise to the minimum it may only grow.    *)
ProposalsSettle ==
  LET e == row.evidence
      t == row.decision.target
  IN  Proposes(row) =>
        IF Undersized(e) THEN Evaluate(Resized(e, t)).action # "scale_down"
                         ELSE Evaluate(Resized(e, t)).action = "keep"

Busier(e, f) ==
  /\ e.scope = f.scope /\ e.capacity = f.capacity
  /\ e.total * f.count <= f.total * e.count

(* A machine found busier than before, at the same capacity, is not told to be *)
(* smaller, unless it was idle or needs more than the catalog has.             *)
MoreLoadNeverLess ==
  [][ LET e == row.evidence
          f == row'.evidence
      IN  /\ row.decision.status = "ok" /\ row'.decision.status = "ok"
          /\ Busier(e, f) /\ e.total > 0 /\ ~AboveMax(f)
          => row.decision.target <= row'.decision.target ]_rowVars
=============================================================================

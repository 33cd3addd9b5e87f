-------------------------- MODULE OptimizationRules --------------------------
(***************************************************************************)
(* The rules of internal/usecases/optimizations.py: from the evidence on   *)
(* one scope of a machine to a decision, and from the decisions of the     *)
(* scopes to the status and action of the machine.                         *)
(*                                                                         *)
(* Utilization is the average total / count of the samples in the window,  *)
(* so comparisons are multiplied out.  The code computes in doubles: where *)
(* an exact target is a whole number it may round up by one unit more.     *)
(***************************************************************************)
EXTENDS Integers

CONSTANTS
  Window,           \* flavor_optimization_window_size
  MinCpu, MaxCpu,   \* flavor_optimization_min_cpu, .._max_cpu
  MinRam, MaxRam,   \* flavor_optimization_min_ram_mb, .._max_ram_mb
  CapacityStep,     \* CAPACITY_STEP_MB, 1024 in the code
  None              \* no capacity, no target

ASSUME SettingsAssumption ==
  /\ Window \in Nat \ {0}
  /\ MinCpu \in Nat \ {0} /\ MaxCpu \in Nat /\ MinCpu <= MaxCpu
  /\ MinRam \in Nat \ {0} /\ MaxRam \in Nat /\ MinRam <= MaxRam
  /\ CapacityStep \in Nat \ {0}
  /\ None \notin Int

Scope == {"cpu", "ram", "disk"}
Catalogued == {"cpu", "ram"}   \* the scopes with a minimum and a maximum

Target    == 65   \* TARGET_UTILIZATION_PERCENT
Upscale   == 85   \* UPSCALE_UTILIZATION_THRESHOLD
Downscale == 40   \* DOWNSCALE_UTILIZATION_THRESHOLD

Minimum(scope) == IF scope = "cpu" THEN MinCpu ELSE MinRam
Maximum(scope) == IF scope = "cpu" THEN MaxCpu ELSE MaxRam
Unit(scope)    == IF scope = "cpu" THEN 1 ELSE CapacityStep

(* What a refresh reads about one scope: the number of enabled providers that *)
(* see the machine, its capacity, and the samples of the window.              *)
Evidence ==
  [scope : Scope, providers : Nat, capacity : Nat \cup {None}, total : Nat, count : 0..Window]

-----------------------------------------------------------------------------
(* Mutants: a target rounded down, a sum of samples taken for their average, a *)
(* margin on the wrong side of the capacity.                                   *)
CeilDivDown(a, b) == a \div b

PressureLowOfSum(e) == e.scope \in Catalogued /\ e.total <= Downscale

SmallerByOtherMargin(e, target) == 10 * target < 12 * e.capacity

CeilDiv(a, b) == (a + b - 1) \div b

(* _rounded_target, when the raw target capacity * (total / count) / 65 is positive *)
HasRawTarget(e) == e.capacity * e.total > 0

RoundedTarget(e) ==
  CeilDiv(e.capacity * e.total, Target * e.count * Unit(e.scope)) * Unit(e.scope)

(* _bounded_target *)
BelowMin(e) == e.scope \in Catalogued /\ HasRawTarget(e) /\ RoundedTarget(e) < Minimum(e.scope)
AboveMax(e) == e.scope \in Catalogued /\ HasRawTarget(e) /\ RoundedTarget(e) > Maximum(e.scope)

BoundedTarget(e) ==
  CASE BelowMin(e) -> Minimum(e.scope)
    [] AboveMax(e) \/ ~HasRawTarget(e) -> None
    [] OTHER -> RoundedTarget(e)

PressureHigh(e) == e.total >= Upscale * e.count
PressureLow(e)  == e.scope \in Catalogued /\ e.total <= Downscale * e.count

(* UPSCALE_CAPACITY_MARGIN and DOWNSCALE_CAPACITY_MARGIN *)
Larger(e, target)  == 10 * target > 11 * e.capacity
Smaller(e, target) == 10 * target < 8 * e.capacity

Status(e) ==
  CASE e.providers = 0 -> "missing_provider"
    [] e.providers > 1 -> "ambiguous_provider"
    [] e.providers = 1 /\ e.capacity = None -> "missing_current_capacity"
    [] e.providers = 1 /\ e.capacity # None /\ e.count = 0 -> "insufficient_data"
    [] OTHER -> "ok"

(* A machine that is smaller than the catalog's smallest. *)
Undersized(e) == e.scope \in Catalogued /\ e.capacity < Minimum(e.scope)

GoesUp(e) ==
  PressureHigh(e) /\ BoundedTarget(e) # None /\ Larger(e, BoundedTarget(e))

GoesDown(e) ==
  PressureLow(e) /\ BoundedTarget(e) # None /\ Smaller(e, BoundedTarget(e))

Reasons ==
  {"missing_provider", "ambiguous_provider", "missing_current_capacity", "no_samples",
   "raised_to_min", "above_max", "limited_history", "pressure_high", "pressure_low",
   "within_hysteresis"}

Decisions ==
  [status : {"missing_provider", "ambiguous_provider", "missing_current_capacity",
             "insufficient_data", "ok"},
   action : {"scale_up", "scale_down", "keep", "insufficient_data", "unavailable"},
   reason : Reasons,
   target : Nat \cup {None}]

Decision(status, action, reason, target) ==
  [status |-> status, action |-> action, reason |-> reason, target |-> target]

(* bound_reason, else limited_history, else what the rule says *)
Reason(e, rule) ==
  CASE BelowMin(e) -> "raised_to_min"
    [] AboveMax(e) -> "above_max"
    [] ~BelowMin(e) /\ ~AboveMax(e) /\ e.count < Window -> "limited_history"
    [] OTHER -> rule

(* _evaluate_scope, with the capacity that _effective_target makes of it *)
Evaluate(e) ==
  CASE Status(e) = "insufficient_data" ->
         Decision("insufficient_data", "insufficient_data", "no_samples", None)
    [] Status(e) \notin {"ok", "insufficient_data"} ->
         Decision(Status(e), "unavailable", Status(e), None)
    [] Status(e) = "ok" /\ Undersized(e) ->
         Decision("ok", "scale_up", "raised_to_min", Minimum(e.scope))
    [] Status(e) = "ok" /\ ~Undersized(e) /\ GoesUp(e) ->
         Decision("ok", "scale_up", Reason(e, "pressure_high"), BoundedTarget(e))
    [] Status(e) = "ok" /\ ~Undersized(e) /\ ~GoesUp(e) /\ GoesDown(e) ->
         Decision("ok", "scale_down", Reason(e, "pressure_low"), BoundedTarget(e))
    [] OTHER -> Decision("ok", "keep", Reason(e, "within_hysteresis"), e.capacity)

-----------------------------------------------------------------------------
(* _action_from_set *)
ActionFromSet(actions) ==
  CASE {"scale_up", "scale_down"} \subseteq actions -> "mixed"
    [] "scale_up" \in actions /\ "scale_down" \notin actions -> "scale_up"
    [] "scale_down" \in actions /\ "scale_up" \notin actions -> "scale_down"
    [] actions # {} /\ actions \cap {"scale_up", "scale_down"} = {} -> "keep"
    [] OTHER -> "insufficient_data"

(* Mutant: scopes that cannot be evaluated are passed over. *)
AggregateOfTheRest(decisions) ==
  LET ok == {d \in decisions : d.status = "ok"}
  IN  IF ok = {} THEN <<"partial", "insufficient_data">>
                 ELSE <<"ready", ActionFromSet({d.action : d \in ok})>>

(* _aggregate_optimization, of the set of the scopes' decisions *)
Aggregate(decisions) ==
  LET ok        == {d \in decisions : d.status = "ok"}
      ambiguous == \E d \in decisions : d.status = "ambiguous_provider"
      actions   == {d.action : d \in ok}
  IN  CASE ambiguous /\ ok = {} -> <<"error", "unavailable">>
        [] ambiguous /\ ok # {} -> <<"error", ActionFromSet(actions)>>
        [] ~ambiguous /\ ok = {} -> <<"partial", "insufficient_data">>
        [] ~ambiguous /\ ok # {} /\ ok # decisions -> <<"partial", ActionFromSet(actions)>>
        [] OTHER -> <<"ready", ActionFromSet(actions)>>
=============================================================================

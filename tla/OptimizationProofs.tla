-------------------------- MODULE OptimizationProofs --------------------------
(***************************************************************************)
(* The rules of OptimizationRules for every catalog, capacity and load;    *)
(* what they give for the stored row of MachineOptimization; the           *)
(* transactions of MetricCollection that write it, for every number of     *)
(* workers, set of collected scopes, flavor and utilization; and what the  *)
(* requests of ApplicationReads answer while others commit, for every set  *)
(* of machines, of samples and of requests, window and page.               *)
(***************************************************************************)
EXTENDS MachineOptimization, MetricCollection, ApplicationReads,
        FiniteSetTheorems, SequenceTheorems, WellFoundedInduction, TLAPS

(* Finite sets: a set of subsets has a minimal one, which is the induction of the *)
(* lemmas about sums and greatest elements.                                       *)
LEMMA MinimalSubset ==
  ASSUME NEW S, IsFiniteSet(S), NEW F, F \subseteq SUBSET S, F # {}
  PROVE  \E T \in F : \A U \in F : U \subseteq T => U = T
<1>1. IsWellFoundedOn(StrictSubsetOrdering(S), SUBSET S)
  BY FS_StrictSubsetOrderingWellFounded, FS_FiniteSubsetsOfFinite
<1>2. PICK T \in F : \A U \in F : ~(<<U, T>> \in StrictSubsetOrdering(S))
  BY <1>1, WFMin
<1>3. ASSUME NEW U \in F, U \subseteq T, U # T PROVE FALSE
  BY <1>2, <1>3 DEF StrictSubsetOrdering
<1> QED
  BY <1>3

(* g gives of every subset of S the sum of f over it. *)
Pick(s) == CHOOSE x \in s : TRUE
SumStep(f, g, s) == IF s = {} THEN 0 ELSE f[Pick(s)] + g[s \ {Pick(s)}]
IsSum(f, g, S) == g = [s \in SUBSET S |-> SumStep(f, g, s)]

LEMMA PickIn == \A s : s # {} => Pick(s) \in s
BY DEF Pick

LEMMA SumFold ==
  ASSUME NEW f, NEW S
  PROVE  SumFunctionOnSet(f, S) = (CHOOSE g : IsSum(f, g, S))[S]
BY DEF SumFunctionOnSet, FoldFunctionOnSet, MapThenFoldSet, IsSum, SumStep, Pick

LEMMA SumUnique ==
  ASSUME NEW f, NEW S, IsFiniteSet(S), NEW g, NEW h, IsSum(f, g, S), IsSum(f, h, S)
  PROVE  g = h
<1> DEFINE F == {s \in SUBSET S : g[s] # h[s]}
<1>1. SUFFICES ASSUME F # {} PROVE FALSE
  <2>1. \A s \in SUBSET S : g[s] = h[s]
    BY <1>1
  <2>2. /\ g = [s \in SUBSET S |-> g[s]]
        /\ h = [s \in SUBSET S |-> h[s]]
    BY DEF IsSum
  <2> QED
    BY <2>1, <2>2
<1>2. PICK T \in F : \A U \in F : U \subseteq T => U = T
  <2>1. F \subseteq SUBSET S
    OBVIOUS
  <2> HIDE DEF F
  <2> QED
    BY <1>1, <2>1, MinimalSubset
<1>3. T # {}
  BY <1>2 DEF IsSum, SumStep
<1>4. T \ {Pick(T)} \in SUBSET S /\ T \ {Pick(T)} # T
  BY <1>2, <1>3, PickIn
<1>5. g[T \ {Pick(T)}] = h[T \ {Pick(T)}]
  BY <1>2, <1>4
<1>6. g[T] = SumStep(f, g, T) /\ h[T] = SumStep(f, h, T)
  BY <1>2 DEF IsSum
<1> QED
  BY <1>2, <1>3, <1>5, <1>6 DEF SumStep

LEMMA SumRestricts ==
  ASSUME NEW f, NEW S, NEW g, IsSum(f, g, S), NEW T, T \subseteq S
  PROVE  IsSum(f, [s \in SUBSET T |-> g[s]], T)
<1> DEFINE h == [s \in SUBSET T |-> g[s]]
<1>1. ASSUME NEW s \in SUBSET T PROVE h[s] = SumStep(f, h, s)
  <2>1. h[s] = SumStep(f, g, s)
    BY DEF IsSum
  <2>2. s \ {Pick(s)} \in SUBSET T
    OBVIOUS
  <2>3. h[s \ {Pick(s)}] = g[s \ {Pick(s)}]
    BY <2>2
  <2> QED
    BY <2>1, <2>3 DEF SumStep
<1> HIDE DEF h
<1>2. h = [s \in SUBSET T |-> h[s]]
  BY DEF h
<1>3. h = [s \in SUBSET T |-> SumStep(f, h, s)]
  BY <1>1, <1>2
<1> QED
  BY <1>3 DEF IsSum, h

LEMMA SumExists ==
  ASSUME NEW f, NEW S, IsFiniteSet(S)
  PROVE  \E g : IsSum(f, g, S)
<1> DEFINE F == {T \in SUBSET S : ~\E g : IsSum(f, g, T)}
<1>1. SUFFICES ASSUME F # {} PROVE FALSE
  BY <1>1
<1>2. PICK T \in F : \A U \in F : U \subseteq T => U = T
  <2>1. F \subseteq SUBSET S
    OBVIOUS
  <2> HIDE DEF F
  <2> QED
    BY <1>1, <2>1, MinimalSubset
<1> DEFINE G(s) == CHOOSE g : IsSum(f, g, s)
           g == [s \in SUBSET T |-> IF s = T THEN SumStep(f, G(T \ {Pick(T)}), T) ELSE G(s)[s]]
<1>3. \A s \in SUBSET T : s # T => IsSum(f, G(s), s)
  <2>1. ASSUME NEW s \in SUBSET T, s # T PROVE \E h : IsSum(f, h, s)
    BY <1>2, <2>1
  <2> QED
    BY <2>1
<1> HIDE DEF G
<1>4. ASSUME NEW s \in SUBSET T PROVE g[s] = SumStep(f, g, s)
  <2> DEFINE u == s \ {Pick(s)}
  <2>1. CASE s = {} /\ s = T
    BY <2>1 DEF SumStep
  <2>2. CASE s = {} /\ s # T
    <3>1. G(s)[s] = SumStep(f, G(s), s)
      BY <1>3, <2>2 DEF IsSum
    <3> QED
      BY <2>2, <3>1 DEF SumStep
  <2>3. CASE s # {} /\ s = T
    <3>1. u \in SUBSET T /\ u # T
      BY <2>3, PickIn
    <3>2. g[u] = G(u)[u]
      BY <3>1
    <3> QED
      BY <2>3, <3>2 DEF SumStep
  <2>4. CASE s # {} /\ s # T
    <3>1. u \in SUBSET T /\ u # T /\ u \subseteq s
      BY <2>4
    <3>2. IsSum(f, [v \in SUBSET u |-> G(s)[v]], u)
      BY <1>3, <2>4, <3>1, SumRestricts
    <3>3. IsFiniteSet(u)
      BY <1>2, <3>1, FS_Subset
    <3>4. G(u) = [v \in SUBSET u |-> G(s)[v]]
      BY <1>3, <3>1, <3>2, <3>3, SumUnique
    <3>5. G(u)[u] = G(s)[u]
      BY <3>4
    <3>6. g[u] = G(u)[u] /\ g[s] = G(s)[s]
      BY <2>4, <3>1
    <3>7. G(s)[s] = SumStep(f, G(s), s)
      BY <1>3, <2>4 DEF IsSum
    <3> QED
      BY <2>4, <3>5, <3>6, <3>7 DEF SumStep
  <2> QED
    BY <2>1, <2>2, <2>3, <2>4
<1>5. g = [s \in SUBSET T |-> g[s]]
  OBVIOUS
<1> HIDE DEF g
<1>6. IsSum(f, g, T)
  BY <1>4, <1>5 DEF IsSum
<1> QED
  BY <1>2, <1>6

(* The sum over a finite set, one element after another *)
LEMMA SumIsStep ==
  ASSUME NEW f, NEW S, IsFiniteSet(S)
  PROVE  SumFunctionOnSet(f, S) =
           IF S = {} THEN 0 ELSE f[Pick(S)] + SumFunctionOnSet(f, S \ {Pick(S)})
<1> DEFINE g(T) == CHOOSE g : IsSum(f, g, T)
           U == S \ {Pick(S)}
<1>1. IsSum(f, g(S), S) /\ IsSum(f, g(U), U) /\ IsFiniteSet(U)
  BY SumExists, FS_Subset
<1>2. SumFunctionOnSet(f, S) = g(S)[S] /\ SumFunctionOnSet(f, U) = g(U)[U]
  BY SumFold
<1> HIDE DEF g
<1>3. IsSum(f, [s \in SUBSET U |-> g(S)[s]], U)
  BY <1>1, SumRestricts
<1>4. g(U) = [s \in SUBSET U |-> g(S)[s]]
  BY <1>1, <1>3, SumUnique
<1>5. g(U)[U] = g(S)[U]
  BY <1>4
<1>6. g(S)[S] = SumStep(f, g(S), S)
  BY <1>1 DEF IsSum
<1> QED
  BY <1>2, <1>5, <1>6 DEF SumStep

LEMMA SumOfNothing ==
  ASSUME NEW f
  PROVE  SumFunctionOnSet(f, {}) = 0
<1>1. IsFiniteSet({})
  BY FS_EmptySet
<1> QED
  BY <1>1, SumIsStep

(* The sum of differences is the difference of the sums. *)
LEMMA SumOfDifferences ==
  ASSUME NEW S, IsFiniteSet(S), NEW f, NEW g, NEW h,
         \A x \in S : f[x] \in Int /\ g[x] \in Int /\ h[x] = f[x] - g[x]
  PROVE  /\ SumFunctionOnSet(f, S) \in Int /\ SumFunctionOnSet(g, S) \in Int
         /\ SumFunctionOnSet(h, S) = SumFunctionOnSet(f, S) - SumFunctionOnSet(g, S)
<1> DEFINE P(T) == /\ SumFunctionOnSet(f, T) \in Int /\ SumFunctionOnSet(g, T) \in Int
                   /\ SumFunctionOnSet(h, T) = SumFunctionOnSet(f, T) - SumFunctionOnSet(g, T)
           F == {T \in SUBSET S : ~P(T)}
<1>1. SUFFICES ASSUME F # {} PROVE FALSE
  BY <1>1
<1>2. PICK T \in F : \A U \in F : U \subseteq T => U = T
  <2>1. F \subseteq SUBSET S
    OBVIOUS
  <2> HIDE DEF F
  <2> QED
    BY <1>1, <2>1, MinimalSubset
<1>3. IsFiniteSet(T)
  BY <1>2, FS_Subset
<1>4. T # {}
  <2>1. P({})
    BY SumOfNothing
  <2> QED
    BY <1>2, <2>1
<1> DEFINE x == Pick(T)  U == T \ {x}
<1>5. x \in T /\ U \in SUBSET S /\ U # T
  BY <1>2, <1>4, PickIn
<1>6. P(U)
  BY <1>2, <1>5
<1>7. /\ SumFunctionOnSet(f, T) = f[x] + SumFunctionOnSet(f, U)
      /\ SumFunctionOnSet(g, T) = g[x] + SumFunctionOnSet(g, U)
      /\ SumFunctionOnSet(h, T) = h[x] + SumFunctionOnSet(h, U)
  BY <1>3, <1>4, SumIsStep
<1>8. f[x] \in Int /\ g[x] \in Int /\ h[x] = f[x] - g[x]
  BY <1>2, <1>5
<1>9. P(T)
  BY <1>6, <1>7, <1>8
<1> QED
  BY <1>2, <1>9

-----------------------------------------------------------------------------
USE SettingsAssumption

(* b * (q - 1) < a <= b * q holds of q = CeilDiv(a, b). *)
LEMMA CeilDivBounds ==
  ASSUME NEW a \in Nat, NEW b \in Nat \ {0}
  PROVE  /\ CeilDiv(a, b) \in Nat
         /\ a <= CeilDiv(a, b) * b
         /\ CeilDiv(a, b) * b < a + b
<1> DEFINE m == a + b - 1  q == m \div b  r == m % b
<1>1. m \in Nat /\ q \in Int /\ r \in 0..(b - 1) /\ m = q * b + r
  OBVIOUS
<1>2. q >= 0
  BY <1>1
<1> HIDE DEF q, r
<1>3. q * b \in Int
  BY <1>1
<1> QED
  BY <1>1, <1>2, <1>3 DEF CeilDiv, q

(* A quotient that is no larger rounds up to no more. *)
LEMMA CeilDivMonotone ==
  ASSUME NEW a \in Nat, NEW b \in Nat \ {0}, NEW c \in Nat, NEW d \in Nat \ {0},
         a * d <= c * b
  PROVE  CeilDiv(a, b) <= CeilDiv(c, d)
<1> DEFINE p == CeilDiv(a, b)  q == CeilDiv(c, d)
<1>1. p \in Nat /\ p * b < a + b
  BY CeilDivBounds
<1>2. q \in Nat /\ c <= q * d
  BY CeilDivBounds
<1> HIDE DEF p, q
<1>3. SUFFICES ASSUME q + 1 <= p PROVE FALSE
  BY <1>1, <1>2 DEF p, q
<1>4. (q + 1) * b <= p * b
  BY <1>1, <1>2, <1>3
<1>5. q * b < a
  BY <1>1, <1>2, <1>4
<1>6. (q * b) * d < a * d
  BY <1>2, <1>5
<1>7. c * b <= (q * d) * b
  BY <1>2
<1>8. (q * d) * b = (q * b) * d
  BY <1>2
<1> QED
  BY <1>2, <1>6, <1>7, <1>8

(* Only the quotient matters: a factor of both arguments cancels. *)
LEMMA CeilDivCancel ==
  ASSUME NEW a \in Nat, NEW b \in Nat \ {0}, NEW k \in Nat \ {0}
  PROVE  CeilDiv(k * a, k * b) = CeilDiv(a, b)
<1>1. k * a \in Nat /\ k * b \in Nat \ {0}
  OBVIOUS
<1>2. (k * a) * b = a * (k * b)
  OBVIOUS
<1>3. CeilDiv(k * a, k * b) <= CeilDiv(a, b) /\ CeilDiv(a, b) <= CeilDiv(k * a, k * b)
  BY <1>1, <1>2, CeilDivMonotone
<1>4. CeilDiv(k * a, k * b) \in Nat /\ CeilDiv(a, b) \in Nat
  BY <1>1, CeilDivBounds
<1> QED
  BY <1>3, <1>4

-----------------------------------------------------------------------------
(* Evidence that the rules can compute with. *)
Measured(e) ==
  /\ e.scope \in Scope /\ e.capacity \in Nat /\ e.total \in Nat /\ e.count \in Nat \ {0}

LEMMA UnitType == \A s \in Scope : Unit(s) \in Nat \ {0}
  BY DEF Unit

LEMMA BoundsType ==
  \A s \in Scope : /\ Minimum(s) \in Nat \ {0} /\ Maximum(s) \in Nat
                   /\ Minimum(s) <= Maximum(s)
  BY DEF Minimum, Maximum

(* What a rounded target has to do with the load: it carries it at 65 %.  *)
LEMMA RoundedCarries ==
  ASSUME NEW e, Measured(e)
  PROVE  /\ RoundedTarget(e) \in Nat
         /\ HasRawTarget(e) => RoundedTarget(e) # 0
         /\ e.capacity * e.total <= Target * e.count * RoundedTarget(e)
<1> DEFINE a == e.capacity * e.total
           u == Unit(e.scope)
           b == Target * e.count
           q == CeilDiv(a, b * u)
<1>1. a \in Nat /\ u \in Nat \ {0} /\ b \in Nat \ {0}
  BY UnitType DEF Measured, Target
<1>2. RoundedTarget(e) = q * u
  BY DEF RoundedTarget
<1>3. HasRawTarget(e) <=> a > 0
  BY DEF HasRawTarget
<1>4. Target * e.count * RoundedTarget(e) = b * (q * u)
  BY <1>2
<1> HIDE DEF a, u, b
<1>5. b * u \in Nat \ {0}
  BY <1>1
<1>6. q \in Nat /\ a <= q * (b * u)
  BY <1>1, <1>5, CeilDivBounds
<1> HIDE DEF q
<1>7. q * (b * u) = b * (q * u) /\ q * u \in Nat
  BY <1>1, <1>6
<1>8. a > 0 => q * u # 0
  BY <1>1, <1>6, <1>7
<1> QED
  BY <1>2, <1>3, <1>4, <1>6, <1>7, <1>8 DEF a

LEMMA BoundedType ==
  ASSUME NEW e, Measured(e)
  PROVE  /\ BoundedTarget(e) \in (Nat \ {0}) \cup {None}
         /\ BoundedTarget(e) # None =>
              /\ HasRawTarget(e)
              /\ ~AboveMax(e)
              /\ RoundedTarget(e) <= BoundedTarget(e)
              /\ e.scope \in Catalogued =>
                   Minimum(e.scope) <= BoundedTarget(e) /\ BoundedTarget(e) <= Maximum(e.scope)
<1> DEFINE t == RoundedTarget(e)  lo == Minimum(e.scope)  hi == Maximum(e.scope)
<1>1. t \in Nat /\ (HasRawTarget(e) => t # 0)
  BY RoundedCarries
<1>2. lo \in Nat \ {0} /\ hi \in Nat /\ lo <= hi
  BY BoundsType DEF Measured
<1>3. /\ BelowMin(e) <=> e.scope \in Catalogued /\ HasRawTarget(e) /\ t < lo
      /\ AboveMax(e) <=> e.scope \in Catalogued /\ HasRawTarget(e) /\ t > hi
  BY DEF BelowMin, AboveMax
<1>4. BoundedTarget(e) = CASE BelowMin(e) -> lo
                           [] AboveMax(e) \/ ~HasRawTarget(e) -> None
                           [] OTHER -> t
  BY DEF BoundedTarget
<1> HIDE DEF t, lo, hi
<1>5. CASE BelowMin(e)
  <2>1. ~(AboveMax(e) \/ ~HasRawTarget(e))
    BY <1>1, <1>2, <1>3, <1>5
  <2> QED
    BY <1>1, <1>2, <1>3, <1>4, <1>5, <2>1 DEF t, lo, hi
<1>6. CASE ~BelowMin(e) /\ (AboveMax(e) \/ ~HasRawTarget(e))
  BY <1>4, <1>6
<1>7. CASE ~BelowMin(e) /\ ~(AboveMax(e) \/ ~HasRawTarget(e))
  BY <1>1, <1>2, <1>3, <1>4, <1>7 DEF t, lo, hi
<1> QED
  BY <1>5, <1>6, <1>7

-----------------------------------------------------------------------------
LEMMA StatusOk ==
  ASSUME NEW e, e.providers \in Nat
  PROVE  Status(e) = "ok" <=> e.providers = 1 /\ e.capacity # None /\ e.count # 0
<1>1. \/ e.providers = 0
      \/ e.providers > 1
      \/ e.providers = 1 /\ e.capacity = None
      \/ e.providers = 1 /\ e.capacity # None /\ e.count = 0
      \/ e.providers = 1 /\ e.capacity # None /\ e.count # 0
  OBVIOUS
<1> QED
  BY <1>1 DEF Status

LEMMA OkIsMeasured ==
  ASSUME NEW e \in Evidence, Status(e) = "ok"
  PROVE  Measured(e) /\ e.providers = 1
<1>1. /\ e.scope \in Scope /\ e.providers \in Nat /\ e.capacity \in Nat \cup {None}
      /\ e.total \in Nat /\ e.count \in Nat
  BY DEF Evidence
<1> QED
  BY <1>1, StatusOk DEF Measured

(* The outcomes of the rules, one by one. *)
LEMMA Outcomes ==
  ASSUME NEW e, Status(e) = "ok"
  PROVE  /\ Undersized(e) => Evaluate(e) = Decision("ok", "scale_up", "raised_to_min", Minimum(e.scope))
         /\ ~Undersized(e) /\ GoesUp(e)
              => Evaluate(e) = Decision("ok", "scale_up", Reason(e, "pressure_high"), BoundedTarget(e))
         /\ ~Undersized(e) /\ ~GoesUp(e) /\ GoesDown(e)
              => Evaluate(e) = Decision("ok", "scale_down", Reason(e, "pressure_low"), BoundedTarget(e))
         /\ ~Undersized(e) /\ ~GoesUp(e) /\ ~GoesDown(e)
              => Evaluate(e) = Decision("ok", "keep", Reason(e, "within_hysteresis"), e.capacity)
  BY DEF Evaluate

LEMMA NotOk ==
  ASSUME NEW e, Status(e) # "ok"
  PROVE  /\ Evaluate(e).status = Status(e) /\ Evaluate(e).target = None
         /\ Evaluate(e).action \in {"insufficient_data", "unavailable"}
<1>1. CASE Status(e) = "insufficient_data"
  <2>1. Evaluate(e) = Decision("insufficient_data", "insufficient_data", "no_samples", None)
    BY <1>1 DEF Evaluate
  <2> QED
    BY <1>1, <2>1 DEF Decision
<1>2. CASE Status(e) # "insufficient_data"
  <2>1. Evaluate(e) = Decision(Status(e), "unavailable", Status(e), None)
    BY <1>2 DEF Evaluate
  <2> QED
    BY <2>1 DEF Decision
<1> QED
  BY <1>1, <1>2

LEMMA OkIsEvaluatedOk ==
  ASSUME NEW e
  PROVE  Evaluate(e).status = "ok" <=> Status(e) = "ok"
  BY Outcomes, NotOk DEF Decision

LEMMA ReasonType ==
  ASSUME NEW e, NEW rule \in Reasons
  PROVE  Reason(e, rule) \in Reasons
  BY DEF Reason, Reasons

LEMMA DecisionType ==
  ASSUME NEW status \in {"missing_provider", "ambiguous_provider", "missing_current_capacity",
                         "insufficient_data", "ok"},
         NEW action \in {"scale_up", "scale_down", "keep", "insufficient_data", "unavailable"},
         NEW reason \in Reasons, NEW target \in Nat \cup {None}
  PROVE  Decision(status, action, reason, target) \in Decisions
  BY DEF Decision, Decisions

LEMMA EvaluateType ==
  ASSUME NEW e \in Evidence
  PROVE  Evaluate(e) \in Decisions
<1>1. CASE Status(e) # "ok"
  <2>1. Status(e) \in {"missing_provider", "ambiguous_provider", "missing_current_capacity",
                       "insufficient_data"}
    <3>1. /\ e.providers \in Nat
          /\ Status(e) = "ok" <=> e.providers = 1 /\ e.capacity # None /\ e.count # 0
      BY StatusOk DEF Evidence
    <3> QED
      BY <1>1, <3>1 DEF Status
  <2>2. CASE Status(e) = "insufficient_data"
    <3>1. Evaluate(e) = Decision("insufficient_data", "insufficient_data", "no_samples", None)
      BY <2>2 DEF Evaluate
    <3> QED
      BY <3>1, DecisionType DEF Reasons
  <2>3. CASE Status(e) # "insufficient_data"
    <3>1. Evaluate(e) = Decision(Status(e), "unavailable", Status(e), None)
      BY <1>1, <2>3 DEF Evaluate
    <3> QED
      BY <2>1, <2>3, <3>1, DecisionType DEF Reasons
  <2> QED
    BY <2>2, <2>3
<1>2. CASE Status(e) = "ok"
  <2>1. Measured(e)
    BY <1>2, OkIsMeasured
  <2>2. /\ BoundedTarget(e) \in Nat \cup {None}
        /\ Minimum(e.scope) \in Nat
        /\ e.capacity \in Nat
    BY <2>1, BoundedType, BoundsType DEF Measured
  <2>3. {"pressure_high", "pressure_low", "within_hysteresis", "raised_to_min"} \subseteq Reasons
    BY DEF Reasons
  <2>4. \A rule \in {"pressure_high", "pressure_low", "within_hysteresis"} : Reason(e, rule) \in Reasons
    BY <2>3, ReasonType
  <2> QED
    BY <1>2, <2>2, <2>3, <2>4, Outcomes, DecisionType
<1> QED
  BY <1>1, <1>2

-----------------------------------------------------------------------------
(* A proposal is the minimum, for an undersized machine, or the bounded target *)
(* of a pressure that the margin confirms.                                     *)
LEMMA Proposals ==
  ASSUME NEW e \in Evidence, Evaluate(e).action \in {"scale_up", "scale_down"}
  PROVE  /\ Status(e) = "ok" /\ Measured(e) /\ e.providers = 1
         /\ Undersized(e) => Evaluate(e).target = Minimum(e.scope) /\ Evaluate(e).action = "scale_up"
         /\ ~Undersized(e) => /\ Evaluate(e).target = BoundedTarget(e)
                              /\ BoundedTarget(e) # None
                              /\ Evaluate(e).action = "scale_down" => GoesDown(e)
<1>1. Status(e) = "ok"
  BY NotOk
<1>2. Measured(e) /\ e.providers = 1
  BY <1>1, OkIsMeasured
<1>3. GoesUp(e) \/ GoesDown(e) => BoundedTarget(e) # None
  BY DEF GoesUp, GoesDown
<1> QED
  BY <1>1, <1>2, <1>3, Outcomes DEF Decision

(* A proposal carries the load within the catalog. *)
LEMMA ProposalCarriesTheLoad ==
  ASSUME NEW e \in Evidence, Evaluate(e).action \in {"scale_up", "scale_down"}
  PROVE  LET t == Evaluate(e).target
         IN  /\ t \in Nat \ {0}
             /\ Undersized(e) \/ Target * e.count * t >= e.capacity * e.total
             /\ e.scope \in Catalogued => Minimum(e.scope) <= t /\ t <= Maximum(e.scope)
             /\ e.scope = "disk" => Evaluate(e).action = "scale_up"
<1> DEFINE t == Evaluate(e).target
<1>1. Measured(e)
  BY Proposals
<1>2. CASE Undersized(e)
  BY <1>1, <1>2, Proposals, BoundsType DEF Measured
<1>3. CASE ~Undersized(e)
  <2>1. /\ t = BoundedTarget(e) /\ t # None
        /\ Evaluate(e).action = "scale_down" => GoesDown(e)
    BY <1>3, Proposals
  <2>2. /\ t \in Nat \ {0} /\ RoundedTarget(e) <= t
        /\ e.scope \in Catalogued => Minimum(e.scope) <= t /\ t <= Maximum(e.scope)
    BY <1>1, <2>1, BoundedType
  <2>3. /\ RoundedTarget(e) \in Nat
        /\ e.capacity * e.total <= Target * e.count * RoundedTarget(e)
    BY <1>1, RoundedCarries
  <2>4. Target * e.count \in Nat
    BY <1>1 DEF Measured, Target
  <2>5. Target * e.count * RoundedTarget(e) <= Target * e.count * t
    <3> DEFINE b == Target * e.count
    <3> HIDE DEF b, t
    <3>1. ASSUME NEW r \in Nat, r <= t PROVE b * r <= b * t
      BY <2>2, <2>4, <3>1 DEF b
    <3> QED
      BY <2>2, <2>3, <3>1 DEF b
  <2>6. e.capacity * e.total \in Nat /\ Target * e.count * t \in Nat /\ Target * e.count * RoundedTarget(e) \in Nat
    BY <1>1, <2>2, <2>3, <2>4 DEF Measured
  <2>7. Target * e.count * t >= e.capacity * e.total
    BY <2>3, <2>5, <2>6
  <2>8. e.scope = "disk" => Evaluate(e).action = "scale_up"
    BY <2>1 DEF GoesDown, PressureLow, Catalogued
  <2> QED
    BY <2>2, <2>7, <2>8
<1> QED
  BY <1>2, <1>3

(* The same load on another capacity has the same rounded and bounded target.  *)
LEMMA ResizedTarget ==
  ASSUME NEW e \in Evidence, Measured(e), NEW t \in Nat \ {0}
  PROVE  LET f == Resized(e, t)
         IN  /\ Measured(f) /\ f.scope = e.scope /\ f.capacity = t /\ f.providers = e.providers
             /\ BoundedTarget(f) = BoundedTarget(e)
<1> DEFINE f == Resized(e, t)
           a == e.capacity * e.total
           b == Target * e.count * Unit(e.scope)
<1>1. /\ f.scope = e.scope /\ f.capacity = t /\ f.providers = e.providers
      /\ f.total = e.total * e.capacity /\ f.count = e.count * t
  BY DEF Resized, Evidence
<1>2. e.capacity \in Nat /\ e.total \in Nat /\ e.count \in Nat \ {0} /\ Unit(e.scope) \in Nat \ {0}
  BY UnitType DEF Measured
<1> HIDE DEF f
<1>3. Measured(f)
  <2>1. f.total \in Nat /\ f.count \in Nat \ {0}
    BY <1>1, <1>2
  <2> QED
    BY <1>1, <2>1 DEF Measured
<1>4. f.capacity * f.total = t * a
  BY <1>1, <1>2
<1>5. Target * f.count * Unit(f.scope) = t * b
  <2> DEFINE u == Unit(e.scope)
  <2>1. Target * f.count * Unit(f.scope) = Target * (e.count * t) * u
    BY <1>1
  <2> HIDE DEF u
  <2>2. Target * (e.count * t) * u = t * (Target * e.count * u)
    BY <1>2 DEF u, Target
  <2> QED
    BY <2>1, <2>2 DEF u
<1>6. a \in Nat /\ b \in Nat \ {0}
  <2>1. Target * e.count \in Nat \ {0}
    BY <1>2 DEF Target
  <2> QED
    BY <1>2, <2>1
<1> HIDE DEF a, b
<1>7. CeilDiv(t * a, t * b) = CeilDiv(a, b)
  BY <1>6, CeilDivCancel
<1>8. RoundedTarget(f) = RoundedTarget(e)
  BY <1>1, <1>4, <1>5, <1>7 DEF RoundedTarget, a, b
<1>9. HasRawTarget(f) <=> HasRawTarget(e)
  <2>1. t * a > 0 <=> a > 0
    BY <1>6
  <2> QED
    BY <1>4, <2>1 DEF HasRawTarget, a
<1>10. BoundedTarget(f) = BoundedTarget(e)
  BY <1>1, <1>8, <1>9 DEF BoundedTarget, BelowMin, AboveMax
<1> QED
  BY <1>1, <1>3, <1>10 DEF f

(* A followed proposal is not followed by another. *)
LEMMA ProposalSettles ==
  ASSUME NEW e \in Evidence, Evaluate(e).action \in {"scale_up", "scale_down"}
  PROVE  LET f == Resized(e, Evaluate(e).target)
         IN  /\ Undersized(e) => Evaluate(f).action # "scale_down"
             /\ ~Undersized(e) => Evaluate(f).action = "keep"
<1> DEFINE t == Evaluate(e).target  f == Resized(e, t)
<1>1. /\ t \in Nat \ {0}
      /\ e.scope \in Catalogued => Minimum(e.scope) <= t
  BY ProposalCarriesTheLoad
<1>2. Measured(e) /\ e.providers = 1
  BY Proposals
<1>3. /\ Measured(f) /\ f.scope = e.scope /\ f.capacity = t /\ f.providers = 1
      /\ BoundedTarget(f) = BoundedTarget(e)
  BY <1>1, <1>2, ResizedTarget
<1>4. /\ Undersized(e) => t = Minimum(e.scope) /\ e.scope \in Catalogued
      /\ ~Undersized(e) => t = BoundedTarget(e)
  BY Proposals DEF Undersized
<1>5. BoundedTarget(f) # None => /\ BoundedTarget(f) \in Nat
                                 /\ e.scope \in Catalogued => Minimum(e.scope) <= BoundedTarget(f)
  BY <1>3, BoundedType
<1> HIDE DEF f, t
<1>6. Status(f) = "ok"
  BY <1>1, <1>3, StatusOk DEF Measured
<1>7. ~Undersized(f)
  <2>1. e.scope \in Catalogued => Minimum(e.scope) \in Nat
    BY BoundsType DEF Catalogued, Scope
  <2> QED
    BY <1>1, <1>3, <2>1 DEF Undersized
<1>8. ~GoesDown(f)
  BY <1>1, <1>3, <1>4, <1>5 DEF GoesDown, Smaller
<1>9. ~Undersized(e) => ~GoesUp(f)
  BY <1>1, <1>3, <1>4 DEF GoesUp, Larger
<1> QED
  BY <1>6, <1>7, <1>8, <1>9, Outcomes DEF Decision, f, t

-----------------------------------------------------------------------------
LEMMA CancelFactor ==
  ASSUME NEW k \in Nat \ {0}, NEW x \in Nat, NEW y \in Nat, k * x <= k * y
  PROVE  x <= y
<1> SUFFICES ASSUME y + 1 <= x PROVE FALSE
  OBVIOUS
<1>1. k * (y + 1) <= k * x
  OBVIOUS
<1>2. k * (y + 1) = k * y + k
  OBVIOUS
<1>3. k * x \in Nat /\ k * y \in Nat
  OBVIOUS
<1> QED
  BY <1>1, <1>2, <1>3

(* Everything the rules compare grows with the load. *)
LEMMA BusierMoreOfAll ==
  ASSUME NEW e, NEW f, Measured(e), Measured(f), Busier(e, f)
  PROVE  /\ RoundedTarget(e) <= RoundedTarget(f)
         /\ PressureHigh(e) => PressureHigh(f)
         /\ PressureLow(f) => PressureLow(e)
         /\ e.total > 0 => f.total > 0
<1> DEFINE c == e.capacity  u == Unit(e.scope)
           x == e.total  m == e.count
           y == f.total  n == f.count
<1>1. /\ c \in Nat /\ u \in Nat \ {0} /\ x \in Nat /\ y \in Nat
      /\ m \in Nat \ {0} /\ n \in Nat \ {0} /\ x * n <= y * m
      /\ f.scope = e.scope /\ f.capacity = c
  BY UnitType DEF Measured, Busier
<1>2. /\ PressureHigh(e) <=> x >= Upscale * m
      /\ PressureHigh(f) <=> y >= Upscale * n
      /\ PressureLow(e) <=> e.scope \in Catalogued /\ x <= Downscale * m
      /\ PressureLow(f) <=> e.scope \in Catalogued /\ y <= Downscale * n
      /\ RoundedTarget(e) = CeilDiv(c * x, Target * m * u) * u
      /\ RoundedTarget(f) = CeilDiv(c * y, Target * n * u) * u
  BY <1>1 DEF PressureHigh, PressureLow, RoundedTarget
<1> HIDE DEF c, u, x, y, m, n
<1>3. x >= Upscale * m => y >= Upscale * n
  <2>1. SUFFICES ASSUME x >= Upscale * m PROVE Upscale * n <= y
    BY <1>1 DEF Upscale
  <2>2. (Upscale * m) * n <= x * n
    BY <1>1, <2>1 DEF Upscale
  <2>3. (Upscale * m) * n = m * (Upscale * n) /\ y * m = m * y
    BY <1>1 DEF Upscale
  <2>4. Upscale * n \in Nat /\ m * (Upscale * n) \in Nat /\ x * n \in Nat /\ m * y \in Nat
    BY <1>1 DEF Upscale
  <2>5. m * (Upscale * n) <= m * y
    BY <1>1, <2>2, <2>3, <2>4
  <2> QED
    BY <1>1, <2>4, <2>5, CancelFactor
<1>4. y <= Downscale * n => x <= Downscale * m
  <2>1. SUFFICES ASSUME y <= Downscale * n PROVE x <= Downscale * m
    OBVIOUS
  <2>2. y * m <= (Downscale * n) * m
    BY <1>1, <2>1 DEF Downscale
  <2>3. (Downscale * n) * m = n * (Downscale * m) /\ x * n = n * x
    BY <1>1 DEF Downscale
  <2>4. Downscale * m \in Nat /\ n * (Downscale * m) \in Nat /\ n * x \in Nat /\ y * m \in Nat
    BY <1>1 DEF Downscale
  <2>5. n * x <= n * (Downscale * m)
    BY <1>1, <2>2, <2>3, <2>4
  <2> QED
    BY <1>1, <2>4, <2>5, CancelFactor
<1>5. x > 0 => y > 0
  <2>1. y = 0 => y * m = 0
    BY <1>1
  <2>2. x > 0 => x * n > 0
    BY <1>1
  <2> QED
    BY <1>1, <2>1, <2>2
<1>6. CeilDiv(c * x, Target * m * u) <= CeilDiv(c * y, Target * n * u)
  <2> DEFINE b == Target * m * u  d == Target * n * u  k == c * (Target * u)
  <2>1. (c * x) * d = k * (x * n)
    BY <1>1 DEF Target
  <2>2. (c * y) * b = k * (y * m)
    BY <1>1 DEF Target
  <2>3. Target * u \in Nat \ {0} /\ b = m * (Target * u) /\ d = n * (Target * u)
    BY <1>1 DEF Target
  <2>4. k \in Nat /\ x * n \in Nat /\ y * m \in Nat /\ c * x \in Nat /\ c * y \in Nat
    BY <1>1, <2>3
  <2>5. b \in Nat \ {0} /\ d \in Nat \ {0}
    <3>1. \A i, j \in Nat \ {0} : i * j \in Nat \ {0}
      OBVIOUS
    <3> QED
      BY <1>1, <2>3, <3>1
  <2> HIDE DEF b, d, k
  <2>6. k * (x * n) <= k * (y * m)
    <3> DEFINE v == x * n  w == y * m
    <3> HIDE DEF v, w
    <3>1. v \in Nat /\ w \in Nat /\ v <= w
      BY <1>1, <2>4 DEF v, w
    <3> QED
      BY <2>4, <3>1 DEF v, w
  <2>7. CeilDiv(c * x, b) <= CeilDiv(c * y, d)
    BY <2>1, <2>2, <2>4, <2>5, <2>6, CeilDivMonotone
  <2> QED
    BY <2>7 DEF b, d
<1>7. RoundedTarget(e) <= RoundedTarget(f)
  <2> DEFINE p == CeilDiv(c * x, Target * m * u)  q == CeilDiv(c * y, Target * n * u)
  <2>1. p \in Nat /\ q \in Nat
    <3>1. \A i, j \in Nat \ {0} : i * j \in Nat \ {0}
      OBVIOUS
    <3>2. Target * m \in Nat \ {0} /\ Target * n \in Nat \ {0} /\ c * x \in Nat /\ c * y \in Nat
      BY <1>1 DEF Target
    <3> QED
      BY <1>1, <3>1, <3>2, CeilDivBounds
  <2> HIDE DEF p, q
  <2>2. p <= q
    BY <1>6 DEF p, q
  <2>3. p * u <= q * u
    BY <1>1, <2>1, <2>2
  <2> QED
    BY <1>2, <2>3 DEF p, q
<1> QED
  BY <1>1, <1>2, <1>3, <1>4, <1>5, <1>7 DEF x, y

LEMMA BusierBoundedMore ==
  ASSUME NEW e, NEW f, Measured(e), Measured(f), Busier(e, f), e.total > 0, ~AboveMax(f)
  PROVE  /\ BoundedTarget(e) = None <=> BoundedTarget(f) = None
         /\ BoundedTarget(e) # None => BoundedTarget(e) <= BoundedTarget(f)
<1> DEFINE r == RoundedTarget(e)  s == RoundedTarget(f)  lo == Minimum(e.scope)
<1>1. /\ r \in Nat /\ s \in Nat /\ r <= s /\ f.total > 0
      /\ f.scope = e.scope /\ f.capacity = e.capacity /\ e.scope \in Scope
  BY RoundedCarries, BusierMoreOfAll DEF Busier, Measured
<1>2. HasRawTarget(e) <=> HasRawTarget(f)
  <2>1. e.capacity \in Nat /\ e.total \in Nat \ {0} /\ f.total \in Nat \ {0}
    BY <1>1 DEF Measured
  <2>2. \A i \in Nat, j \in Nat \ {0} : i * j > 0 <=> i > 0
    OBVIOUS
  <2> QED
    BY <1>1, <2>1, <2>2 DEF HasRawTarget
<1>3. lo \in Nat /\ Maximum(e.scope) \in Nat
  BY <1>1, BoundsType
<1>4. ~AboveMax(e)
  BY <1>1, <1>2, <1>3 DEF AboveMax
<1>5. /\ BelowMin(e) <=> e.scope \in Catalogued /\ HasRawTarget(e) /\ r < lo
      /\ BelowMin(f) <=> e.scope \in Catalogued /\ HasRawTarget(e) /\ s < lo
  BY <1>1, <1>2 DEF BelowMin
<1>6. /\ BelowMin(e) => BoundedTarget(e) = lo
      /\ ~BelowMin(e) /\ ~HasRawTarget(e) => BoundedTarget(e) = None
      /\ ~BelowMin(e) /\ HasRawTarget(e) => BoundedTarget(e) = r
  BY <1>4 DEF BoundedTarget, BelowMin
<1>7. /\ BelowMin(f) => BoundedTarget(f) = lo
      /\ ~BelowMin(f) /\ ~HasRawTarget(e) => BoundedTarget(f) = None
      /\ ~BelowMin(f) /\ HasRawTarget(e) => BoundedTarget(f) = s
  BY <1>1, <1>2 DEF BoundedTarget, BelowMin
<1> HIDE DEF r, s, lo
<1> QED
  BY <1>1, <1>3, <1>5, <1>6, <1>7

(* More load never means a smaller proposal, within the catalog. *)
LEMMA MoreLoadMoreCapacity ==
  ASSUME NEW e \in Evidence, NEW f \in Evidence, Status(e) = "ok", Status(f) = "ok",
         Busier(e, f), e.total > 0, ~AboveMax(f)
  PROVE  Evaluate(e).target <= Evaluate(f).target
<1> DEFINE s == BoundedTarget(e)  t == BoundedTarget(f)  c == e.capacity
<1>1. /\ Measured(e) /\ Measured(f) /\ c \in Nat
      /\ f.scope = e.scope /\ f.capacity = c /\ e.scope \in Scope
  BY OkIsMeasured DEF Measured, Busier
<1>2. /\ s = None <=> t = None
      /\ s # None => s <= t /\ s \in Nat /\ t \in Nat
  BY <1>1, BusierBoundedMore, BoundedType
<1>3. /\ PressureHigh(e) => PressureHigh(f)
      /\ PressureLow(f) => PressureLow(e)
  BY <1>1, BusierMoreOfAll
<1>4. /\ GoesUp(e) <=> PressureHigh(e) /\ s # None /\ 10 * s > 11 * c
      /\ GoesUp(f) <=> PressureHigh(f) /\ t # None /\ 10 * t > 11 * c
      /\ GoesDown(e) <=> PressureLow(e) /\ s # None /\ 10 * s < 8 * c
      /\ GoesDown(f) <=> PressureLow(f) /\ t # None /\ 10 * t < 8 * c
      /\ Undersized(e) <=> Undersized(f)
  BY <1>1 DEF GoesUp, GoesDown, Larger, Smaller, Undersized
<1>5. Minimum(e.scope) \in Nat
  BY <1>1, BoundsType
<1>6. /\ Evaluate(e).target = IF Undersized(e) THEN Minimum(e.scope)
                              ELSE IF GoesUp(e) \/ GoesDown(e) THEN s ELSE c
      /\ Evaluate(f).target = IF Undersized(e) THEN Minimum(e.scope)
                              ELSE IF GoesUp(f) \/ GoesDown(f) THEN t ELSE c
  BY <1>1, <1>4, Outcomes DEF Decision
<1> HIDE DEF s, t, c
<1>7. CASE Undersized(e)
  BY <1>5, <1>6, <1>7
<1>8. CASE ~Undersized(e) /\ s = None
  BY <1>1, <1>2, <1>4, <1>6, <1>8
<1>9. CASE ~Undersized(e) /\ s # None
  <2>1. GoesUp(e) => GoesUp(f)
    BY <1>1, <1>2, <1>3, <1>4, <1>9
  <2>2. GoesDown(f) => GoesDown(e)
    BY <1>1, <1>2, <1>3, <1>4, <1>9
  <2> QED
    BY <1>1, <1>2, <1>4, <1>6, <1>9, <2>1, <2>2
<1> QED
  BY <1>7, <1>8, <1>9

-----------------------------------------------------------------------------
LEMMA WindowsType ==
  ASSUME NEW w \in Windows
  PROVE  w.total \in Nat /\ w.count \in 0..Window
<1>1. CASE w \in [total : {0}, count : {0}]
  BY <1>1
<1>2. CASE w \in [total : Total, count : 1..Window]
  <2>1. w.total \in Total /\ w.count \in 1..Window
    BY <1>2
  <2>2. w.total \in Nat
    BY <2>1, DataAssumption, Zenon
  <2>3. w.count \in 0..Window
    BY <2>1
  <2> QED
    BY <2>2, <2>3
<1> QED
  BY <1>1, <1>2 DEF Windows

LEMMA CurrentType ==
  ASSUME scope \in Scope, providers \in 0..2, capacity \in Capacity, samples \in Windows
  PROVE  Current \in Evidence
<1>1. samples.total \in Nat /\ samples.count \in 0..Window
  BY WindowsType
<1>2. capacity \in Nat \cup {None} /\ providers \in Nat
  BY DataAssumption
<1> QED
  BY <1>1, <1>2 DEF Current, Evidence

LEMMA RowType ==
  ASSUME NEW e \in Evidence
  PROVE  Row(e).evidence = e /\ Row(e).decision = Evaluate(e) /\ Evaluate(e) \in Decisions
  BY EvaluateType DEF Row

LEMMA RefreshKeepsRow ==
  ASSUME scope' \in Scope, providers' \in 0..2, capacity' \in Capacity, samples' \in Windows,
         Refresh
  PROVE  RowTypeOK'
<1>1. Current' \in Evidence
  <2>1. samples'.total \in Nat /\ samples'.count \in 0..Window
    BY WindowsType
  <2>2. capacity' \in Nat \cup {None} /\ providers' \in Nat
    BY DataAssumption
  <2> QED
    BY <2>1, <2>2 DEF Current, Evidence
<1>2. row' = Row(Current')
  BY DEF Refresh
<1> QED
  BY <1>1, <1>2, RowType DEF RowTypeOK, Current

LEMMA RowInitTypeOK == RowInit => RowTypeOK
<1> SUFFICES ASSUME RowInit PROVE RowTypeOK
  OBVIOUS
<1>1. samples \in Windows
  BY DEF RowInit, Windows
<1>2. Current \in Evidence
  BY <1>1, CurrentType DEF RowInit
<1> QED
  BY <1>1, <1>2, RowType DEF RowInit, RowTypeOK, Current

LEMMA RowNextTypeOK == RowTypeOK /\ [RowNext]_rowVars => RowTypeOK'
<1> SUFFICES ASSUME RowTypeOK, [RowNext]_rowVars PROVE RowTypeOK'
  OBVIOUS
<1> USE DEF RowTypeOK
<1>1. CASE Collect
  BY <1>1, RefreshKeepsRow DEF Collect
<1>2. CASE Discover
  BY <1>2, RefreshKeepsRow DEF Discover
<1>3. CASE Recalculate
  BY <1>3, RefreshKeepsRow DEF Recalculate
<1>4. CASE ConfigureProviders
  BY <1>4 DEF ConfigureProviders
<1>5. CASE UNCHANGED rowVars
  BY <1>5 DEF rowVars
<1> QED
  BY <1>1, <1>2, <1>3, <1>4, <1>5 DEF RowNext

(* The stored row has the type of the code's rows, follows from the evidence   *)
(* recorded in it, and that evidence is of the machine's capacity.             *)
THEOREM RowTypeCorrect == RowSpec => []RowTypeOK
  BY RowInitTypeOK, RowNextTypeOK, PTL DEF RowSpec

(* For every catalog and load, a proposed capacity carries the load at 65 % or *)
(* less, and is in the catalog.                                                *)
THEOREM ProposalsAlwaysCarryTheLoad == RowSpec => []ProposalsCarryTheLoad
<1>1. RowTypeOK => ProposalsCarryTheLoad
  <2> SUFFICES ASSUME RowTypeOK, Proposes(row) PROVE ProposalsCarryTheLoad
    BY DEF ProposalsCarryTheLoad
  <2> QED
    BY ProposalCarriesTheLoad DEF RowTypeOK, Proposes, ProposalsCarryTheLoad
<1> QED
  BY <1>1, RowTypeCorrect, PTL

(* For every catalog and load, following a proposal ends it. *)
THEOREM ProposalsAlwaysSettle == RowSpec => []ProposalsSettle
<1>1. RowTypeOK => ProposalsSettle
  <2> SUFFICES ASSUME RowTypeOK, Proposes(row) PROVE ProposalsSettle
    BY DEF ProposalsSettle
  <2> QED
    BY ProposalSettles DEF RowTypeOK, Proposes, ProposalsSettle
<1> QED
  BY <1>1, RowTypeCorrect, PTL

(* For every catalog, a busier machine is never told to be smaller. *)
THEOREM MoreLoadIsNeverLess == RowSpec => MoreLoadNeverLess
<1>1. RowTypeOK /\ RowTypeOK' =>
        LET e == row.evidence
            f == row'.evidence
        IN  /\ row.decision.status = "ok" /\ row'.decision.status = "ok"
            /\ Busier(e, f) /\ e.total > 0 /\ ~AboveMax(f)
            => row.decision.target <= row'.decision.target
  BY MoreLoadMoreCapacity, OkIsEvaluatedOk DEF RowTypeOK
<1> QED
  BY <1>1, RowTypeCorrect, PTL DEF MoreLoadNeverLess

-----------------------------------------------------------------------------
(* The transactions of MetricCollection *)

WorkerState ==
  [pc : {"idle", "loaded", "written", "flushed"},
   task : Tasks \cup {None}, flavor : Flavor \cup {None},
   value : Value \cup {None}, found : Value \cup {None},
   snapshot : Rows \cup {None}, overlapped : BOOLEAN]

(* Which fields a run has filled in by then. *)
RunHasRead ==
  \A w \in Worker :
    /\ Busy(w) => worker[w].task \in Tasks /\ worker[w].flavor \in Flavor
    /\ worker[w].pc = "loaded" => worker[w].task \in Scope
    /\ worker[w].pc \in {"written", "flushed"} /\ worker[w].task \in Scope => worker[w].value \in Value
    /\ worker[w].pc = "flushed" => worker[w].snapshot \in Rows

(* What a run has loaded and built is what it would load and build now.        *)
Fresh(k, c, e, m) ==
  /\ k.task # "discover" => k.flavor = c
  /\ k.pc \in {"written", "flushed"} /\ k.task \in Scope => k.found = m[k.task]
  /\ k.pc = "flushed" => k.snapshot = Snapshot(k.flavor, e, View(k, m))

(* So it is for every run that no commit has overlapped. *)
ViewsAreFresh ==
  \A w \in Worker :
    Busy(w) /\ ~worker[w].overlapped => Fresh(worker[w], flavor, enabled, sample)

IInv == TypeOK /\ RunHasRead /\ ViewsAreFresh /\ CurrentUnlessOverlapped

LEMMA SnapshotType ==
  ASSUME NEW c \in Flavor, NEW e \in [Scope -> BOOLEAN], NEW m \in [Scope -> Value \cup {None}]
  PROVE  Snapshot(c, e, m) \in Rows
<1>1. ASSUME NEW s \in Scope PROVE Snapshot(c, e, m)[s] \in Evidence
  <2> DEFINE seen == e[s] /\ m[s] # None
             t == IF seen THEN m[s] ELSE 0
             n == IF seen THEN 1 ELSE 0
             p == IF e[s] THEN 1 ELSE 0
  <2>1. Snapshot(c, e, m)[s] = [scope |-> s, providers |-> p, capacity |-> c, total |-> t, count |-> n]
    BY DEF Snapshot
  <2>2. m[s] # None => m[s] \in Value
    OBVIOUS
  <2>3. t \in Nat
    BY <2>2, CollectionAssumption
  <2>4. n \in 0..Window /\ p \in Nat
    BY SettingsAssumption
  <2>5. c \in Nat
    BY CollectionAssumption
  <2> HIDE DEF t, n, p
  <2> QED
    BY <2>1, <2>3, <2>4, <2>5 DEF Evidence
<1>2. Snapshot(c, e, m) = [s \in Scope |-> Snapshot(c, e, m)[s]]
  BY DEF Snapshot
<1> QED
  BY <1>1, <1>2 DEF Rows

LEMMA IdleType == Idle \in WorkerState /\ Idle.pc = "idle"
  BY DEF Idle, WorkerState

LEMMA InitIInv == Init => IInv
<1> SUFFICES ASSUME Init PROVE IInv
  OBVIOUS
<1>1. enabled \in [Scope -> BOOLEAN]
  BY DEF Init
<1>2. optimization \in Rows
  BY <1>1, SnapshotType DEF Init
<1>3. TypeOK
  BY <1>1, <1>2, IdleType DEF Init, TypeOK, WorkerState
<1>4. \A w \in Worker : ~Busy(w) /\ worker[w].pc = "idle"
  BY IdleType DEF Init, Busy
<1>5. RunHasRead /\ ViewsAreFresh
  BY <1>4 DEF RunHasRead, ViewsAreFresh
<1> QED
  BY <1>3, <1>5 DEF Init, IInv, CurrentUnlessOverlapped

-----------------------------------------------------------------------------
(* Most steps change nothing but one worker's transaction. *)
LEMMA OneWorkerChanges ==
  ASSUME IInv, NEW w \in Worker, NEW k \in WorkerState,
         worker' = [worker EXCEPT ![w] = k],
         UNCHANGED <<flavor, enabled, sample, optimization, stale>>,
         k.pc # "idle" =>
           /\ k.task \in Tasks /\ k.flavor \in Flavor
           /\ k.pc = "loaded" => k.task \in Scope
           /\ k.pc \in {"written", "flushed"} /\ k.task \in Scope => k.value \in Value
           /\ k.pc = "flushed" => k.snapshot \in Rows
           /\ ~k.overlapped => Fresh(k, flavor, enabled, sample)
  PROVE  IInv'
<1> USE DEF IInv
<1>1. worker'[w] = k /\ \A x \in Worker : x # w => worker'[x] = worker[x]
  BY DEF TypeOK
<1>2. TypeOK'
  BY DEF TypeOK, WorkerState
<1>3. RunHasRead'
  BY <1>1 DEF RunHasRead, Busy
<1>4. ViewsAreFresh'
  <2> SUFFICES ASSUME NEW x \in Worker, Busy(x)', ~worker'[x].overlapped
               PROVE  Fresh(worker'[x], flavor, enabled, sample)
    BY DEF ViewsAreFresh, Fresh
  <2>1. CASE x = w
    BY <1>1, <2>1 DEF Busy
  <2>2. CASE x # w
    BY <1>1, <2>2 DEF Busy, ViewsAreFresh
  <2> QED
    BY <2>1, <2>2
<1>5. CurrentUnlessOverlapped'
  BY DEF CurrentUnlessOverlapped
<1> QED
  BY <1>2, <1>3, <1>4, <1>5

LEMMA IdleKeepsIInv ==
  ASSUME IInv, NEW w \in Worker, worker' = [worker EXCEPT ![w] = Idle],
         UNCHANGED <<flavor, enabled, sample, optimization, stale>>
  PROVE  IInv'
  BY OneWorkerChanges, IdleType

LEMMA StartKeepsIInv ==
  ASSUME IInv, NEW w \in Worker, NEW task \in Tasks, NEW c \in Flavor,
         NEW pc \in {"loaded", "written"},
         worker' = [worker EXCEPT ![w] = [Idle EXCEPT !.pc = pc, !.task = task, !.flavor = c]],
         UNCHANGED <<flavor, enabled, sample, optimization, stale>>,
         pc = "loaded" <=> task \in Scope,
         task # "discover" => c = flavor
  PROVE  IInv'
<1> DEFINE k == [Idle EXCEPT !.pc = pc, !.task = task, !.flavor = c]
<1>1. k \in WorkerState /\ k.pc = pc /\ k.task = task /\ k.flavor = c
  BY DEF Idle, WorkerState
<1> HIDE DEF k
<1>2. pc # "flushed" /\ (pc = "written" => task \notin Scope)
  OBVIOUS
<1> QED
  BY <1>1, <1>2, OneWorkerChanges DEF Fresh, k

LEMMA UpsertKeepsIInv ==
  ASSUME IInv, NEW w \in Worker, Upsert(w)
  PROVE  IInv'
<1> USE DEF IInv
<1>1. worker[w] \in WorkerState
  BY DEF TypeOK, WorkerState
<1>2. PICK v \in Value : worker' = [worker EXCEPT ![w].pc = "written", ![w].value = v,
                                              ![w].found = sample[worker[w].task]]
  BY DEF Upsert
<1> DEFINE k == [worker[w] EXCEPT !.pc = "written", !.value = v, !.found = sample[worker[w].task]]
<1>3. worker' = [worker EXCEPT ![w] = k]
  BY <1>2 DEF TypeOK
<1>4. worker[w].task \in Scope /\ worker[w].flavor \in Flavor /\ worker[w].task \in Tasks
  BY DEF Upsert, RunHasRead, Busy
<1>5. sample[worker[w].task] \in Value \cup {None}
  BY <1>4 DEF TypeOK
<1>6. /\ k \in WorkerState /\ k.pc = "written" /\ k.value = v /\ k.found = sample[k.task]
      /\ k.task = worker[w].task /\ k.flavor = worker[w].flavor
      /\ k.overlapped = worker[w].overlapped
  BY <1>1, <1>5 DEF WorkerState
<1>7. ~worker[w].overlapped /\ k.task # "discover" => k.flavor = flavor
  BY <1>6 DEF ViewsAreFresh, Fresh, Upsert, Busy
<1> HIDE DEF k
<1>8. UNCHANGED <<flavor, enabled, sample, optimization, stale>>
  BY DEF Upsert
<1>9. ~k.overlapped => Fresh(k, flavor, enabled, sample)
  BY <1>6, <1>7 DEF Fresh
<1> QED
  BY <1>3, <1>4, <1>6, <1>8, <1>9, OneWorkerChanges

LEMMA FlushKeepsIInv ==
  ASSUME IInv, NEW w \in Worker, Flush(w)
  PROVE  IInv'
<1> USE DEF IInv
<1>1. worker[w] \in WorkerState
  BY DEF TypeOK, WorkerState
<1> DEFINE s == Snapshot(worker[w].flavor, enabled, View(worker[w], sample))
           k == [worker[w] EXCEPT !.pc = "flushed", !.snapshot = s]
<1>2. worker' = [worker EXCEPT ![w] = k]
  BY DEF Flush, TypeOK
<1>3. /\ worker[w].task \in Tasks /\ worker[w].flavor \in Flavor
      /\ worker[w].task \in Scope => worker[w].value \in Value
      /\ Busy(w)
  BY DEF Flush, RunHasRead, Busy
<1>4. View(worker[w], sample) \in [Scope -> Value \cup {None}]
  BY <1>3 DEF View, TypeOK
<1>5. s \in Rows
  BY <1>3, <1>4, SnapshotType DEF TypeOK
<1>6. /\ k \in WorkerState /\ k.pc = "flushed" /\ k.snapshot = s
      /\ k.task = worker[w].task /\ k.flavor = worker[w].flavor /\ k.value = worker[w].value
      /\ k.found = worker[w].found /\ k.overlapped = worker[w].overlapped
  BY <1>1, <1>5 DEF WorkerState
<1>7. View(k, sample) = View(worker[w], sample)
  BY <1>6 DEF View
<1>8. ~worker[w].overlapped => Fresh(worker[w], flavor, enabled, sample)
  BY <1>3 DEF ViewsAreFresh
<1>9. ~k.overlapped => Fresh(k, flavor, enabled, sample)
  <2> HIDE DEF k
  <2> QED
    BY <1>6, <1>7, <1>8 DEF Fresh, Flush
<1> HIDE DEF k, s
<1>10. UNCHANGED <<flavor, enabled, sample, optimization, stale>>
  BY DEF Flush
<1> QED
  BY <1>2, <1>3, <1>5, <1>6, <1>9, <1>10, OneWorkerChanges

(* The run of a commit ends; the others have missed it.  A run that missed     *)
(* nothing has found the row that it overwrites, so what is stored is what its *)
(* snapshot has seen.                                                          *)
LEMMA CommitKeepsIInv ==
  ASSUME IInv, NEW w \in Worker, Commit(w)
  PROVE  IInv'
<1> USE DEF IInv
<1> DEFINE k == worker[w]
<1>1. /\ k.task \in Tasks /\ k.flavor \in Flavor /\ k.snapshot \in Rows
      /\ k.task \in Scope => k.value \in Value
      /\ Busy(w)
  BY DEF Commit, RunHasRead, Busy
<1>2. Stored(k, sample) \in [Scope -> Value \cup {None}]
  BY <1>1 DEF Stored, TypeOK
<1>3. worker'[w] = Idle
  BY DEF Commit, Overlap
<1>4. ASSUME NEW x \in Worker, x # w
      PROVE  worker'[x] = IF Busy(x) THEN [worker[x] EXCEPT !.overlapped = TRUE] ELSE worker[x]
  BY <1>4 DEF Commit, Overlap, Busy
<1>5. worker' = [x \in Worker |-> worker'[x]]
  BY DEF Commit, Overlap
<1>6. ASSUME NEW x \in Worker PROVE worker'[x] \in WorkerState
  <2>1. worker[x] \in WorkerState
    BY DEF TypeOK, WorkerState
  <2>2. [worker[x] EXCEPT !.overlapped = TRUE] \in WorkerState
    BY <2>1 DEF WorkerState
  <2> QED
    BY <1>3, <1>4, <2>1, <2>2, IdleType
<1>7. TypeOK'
  <2>1. worker' \in [Worker -> WorkerState]
    BY <1>5, <1>6
  <2>2. k \in WorkerState
    BY DEF TypeOK, WorkerState
  <2>3. k.overlapped \in BOOLEAN
    BY <2>2 DEF WorkerState
  <2> QED
    BY <1>1, <1>2, <2>1, <2>3 DEF TypeOK, Commit, WorkerState
<1>8. ASSUME NEW x \in Worker, x # w
      PROVE  /\ worker'[x].pc = worker[x].pc /\ worker'[x].task = worker[x].task
             /\ worker'[x].flavor = worker[x].flavor /\ worker'[x].value = worker[x].value
             /\ worker'[x].snapshot = worker[x].snapshot
             /\ Busy(x) => worker'[x].overlapped
  <2>1. worker[x] \in WorkerState
    BY DEF TypeOK, WorkerState
  <2> QED
    BY <1>4, <1>8, <2>1 DEF WorkerState
<1>9. RunHasRead'
  BY <1>3, <1>8, IdleType DEF RunHasRead, Busy
<1>10. ViewsAreFresh'
  BY <1>3, <1>8, IdleType DEF ViewsAreFresh, Busy
<1>11. CurrentUnlessOverlapped'
  <2> SUFFICES ASSUME ~k.overlapped
               PROVE  optimization' = Snapshot(flavor', enabled', sample')
    BY DEF CurrentUnlessOverlapped, Commit
  <2>1. Fresh(k, flavor, enabled, sample)
    BY <1>1 DEF ViewsAreFresh
  <2>2. optimization' = Snapshot(k.flavor, enabled, View(k, sample))
    BY <2>1 DEF Fresh, Commit
  <2>3. flavor' = k.flavor
    BY <2>1 DEF Fresh, Commit
  <2>4. Stored(k, sample) = View(k, sample)
    <3>1. CASE k.task \in Scope /\ k.value = k.found
      BY <2>1, <3>1 DEF Fresh, Commit, Stored, View, TypeOK
    <3> QED
      BY <3>1 DEF Stored, View
  <2> QED
    BY <2>2, <2>3, <2>4 DEF Commit
<1> QED
  BY <1>7, <1>9, <1>10, <1>11

LEMMA ConfigureKeepsIInv ==
  ASSUME IInv, NEW s \in Switched, Configure(s)
  PROVE  IInv'
<1> USE DEF IInv
<1>1. ASSUME NEW x \in Worker
      PROVE  /\ worker'[x] \in WorkerState
             /\ worker'[x].pc = worker[x].pc /\ worker'[x].task = worker[x].task
             /\ worker'[x].flavor = worker[x].flavor /\ worker'[x].value = worker[x].value
             /\ worker'[x].snapshot = worker[x].snapshot
             /\ Busy(x) => worker'[x].overlapped
  <2>1. worker[x] \in WorkerState
    BY DEF TypeOK, WorkerState
  <2>2. worker'[x] = IF Busy(x) THEN [worker[x] EXCEPT !.overlapped = TRUE] ELSE worker[x]
    BY DEF Configure
  <2> QED
    BY <2>1, <2>2 DEF WorkerState
<1>2. TypeOK'
  <2>1. worker' = [x \in Worker |-> worker'[x]]
    BY DEF Configure
  <2>2. worker' \in [Worker -> WorkerState]
    BY <1>1, <2>1
  <2>3. enabled' \in [Scope -> BOOLEAN]
    BY CollectionAssumption DEF Configure, TypeOK
  <2> QED
    BY <2>2, <2>3 DEF TypeOK, Configure, WorkerState
<1>3. RunHasRead' /\ ViewsAreFresh'
  BY <1>1 DEF RunHasRead, ViewsAreFresh, Busy
<1>4. CurrentUnlessOverlapped'
  BY DEF CurrentUnlessOverlapped, Configure
<1> QED
  BY <1>2, <1>3, <1>4

LEMMA NextKeepsIInv == IInv /\ [Next]_vars => IInv'
<1> SUFFICES ASSUME IInv, [Next]_vars PROVE IInv'
  OBVIOUS
<1>1. ASSUME NEW w \in Worker, NEW s \in Collected, StartCollection(w, s) PROVE IInv'
  BY <1>1, StartKeepsIInv, CollectionAssumption DEF StartCollection, Tasks, Scope, IInv, TypeOK
<1>2. ASSUME NEW w \in Worker, StartRecalculation(w) PROVE IInv'
  BY <1>2, StartKeepsIInv DEF StartRecalculation, Tasks, Scope, IInv, TypeOK
<1>3. ASSUME NEW w \in Worker, StartDiscovery(w) PROVE IInv'
  BY <1>3, StartKeepsIInv DEF StartDiscovery, Tasks, Scope
<1>4. ASSUME NEW w \in Worker, Conflict(w) PROVE IInv'
  BY <1>4, IdleKeepsIInv DEF Conflict
<1>5. ASSUME NEW w \in Worker, Fail(w) PROVE IInv'
  BY <1>5, IdleKeepsIInv DEF Fail
<1>6. CASE UNCHANGED vars
  BY <1>6 DEF vars, IInv, TypeOK, RunHasRead, ViewsAreFresh, Fresh, CurrentUnlessOverlapped, Busy
<1> QED
  BY <1>1, <1>2, <1>3, <1>4, <1>5, <1>6, UpsertKeepsIInv, FlushKeepsIInv, CommitKeepsIInv,
     ConfigureKeepsIInv
  DEF Next, Run

(* The types and the current optimization hold in every reachable state,       *)
(* because a run that no commit has overlapped keeps a fresh view of the rows. *)
THEOREM InductiveInvariant == Spec => []IInv
  BY InitIInv, NextKeepsIInv, PTL DEF Spec

(* Every reachable state is well typed: in particular the stored optimization  *)
(* is evidence that the rules accept.                                          *)
THEOREM TypeCorrect == Spec => []TypeOK
<1>1. IInv => TypeOK
  BY DEF IInv
<1> QED
  BY <1>1, InductiveInvariant, PTL

(* However many collections, discoveries and recalculations run, whatever they *)
(* report and wherever they fail: the stored optimization is built from the    *)
(* rows as they are, unless its last writer overlapped another transaction or  *)
(* a provider was switched since.                                              *)
THEOREM OptimizationIsCurrent == Spec => []CurrentUnlessOverlapped
<1>1. IInv => CurrentUnlessOverlapped
  BY DEF IInv
<1> QED
  BY <1>1, InductiveInvariant, PTL

-----------------------------------------------------------------------------
(* One scope that cannot be evaluated keeps the machine from being "ready". *)
LEMMA ReadyIsAllOk ==
  ASSUME NEW ds, Aggregate(ds)[1] = "ready"
  PROVE  \A d \in ds : d.status = "ok"
<1> DEFINE ok == {d \in ds : d.status = "ok"}
           ambiguous == \E d \in ds : d.status = "ambiguous_provider"
<1>1. SUFFICES ASSUME ok # ds PROVE FALSE
  OBVIOUS
<1>2. Aggregate(ds)[1] \in {"error", "partial"}
  BY <1>1 DEF Aggregate
<1> QED
  BY <1>2

(* A machine is published as ready on the evidence of an enabled provider and  *)
(* of a sample for every scope, never on the scopes that happen to have them.  *)
THEOREM ReadyMachinesAreMeasured == Spec => []ReadyIsMeasured
<1>1. IInv => ReadyIsMeasured
  <2> SUFFICES ASSUME IInv, ~stale, Published[1] = "ready", NEW s \in Scope
               PROVE  enabled[s] /\ sample[s] # None
    BY DEF ReadyIsMeasured
  <2>1. optimization = Snapshot(flavor, enabled, sample)
    BY DEF IInv, CurrentUnlessOverlapped
  <2>2. Status(optimization[s]) = "ok"
    BY ReadyIsAllOk, OkIsEvaluatedOk DEF Published
  <2>3. optimization[s].providers # 0 /\ optimization[s].count # 0
    <3> optimization[s] \in Evidence
      BY DEF IInv, TypeOK, Rows
    <3> QED
      BY <2>2, SettingsAssumption DEF Status, Evidence
  <2>4. /\ optimization[s].providers = IF enabled[s] THEN 1 ELSE 0
        /\ optimization[s].count = IF enabled[s] /\ sample[s] # None THEN 1 ELSE 0
    BY <2>1 DEF Snapshot
  <2> QED
    BY <2>3, <2>4
<1> QED
  BY <1>1, InductiveInvariant, PTL

-----------------------------------------------------------------------------
(* What requests answer: types *)

(* What a refresh may have stored of a machine *)
StoredRows == {Refreshed(size, sight, t) : size \in Size, sight \in Sight, t \in Nat}

Remaining == {<<"cpu", "ram", "disk">>, <<"ram", "disk">>, <<"disk">>, <<>>}

RequestState ==
  [pc : {"idle", "machines", "optimizations", "latest", "usage", "count", "page", "next", "answered"},
   ask : Asks \cup {None}, members : SUBSET Machine,
   rows : UNION {[M -> StoredRows] : M \in SUBSET Machine}, todo : Remaining,
   end : Day \cup {None}, usage : SUBSET Sample, offset : Nat, total : Nat,
   seen : Seq(Key \cup Machine \cup Sample), disturbed : BOOLEAN,
   always : SUBSET Sample, sometime : SUBSET Sample]

(* Each step is of a request of one kind. *)
RequestOK(r) ==
  /\ r \in RequestState
  /\ r.pc # "idle" => r.ask \in Asks
  /\ DOMAIN r.rows \subseteq r.members
  /\ r.pc \in {"count", "page", "next"} => r.ask.kind = "pages"
  /\ r.pc = "optimizations" => r.ask.kind = "summary"
  /\ r.pc \in {"latest", "usage"} => r.ask.kind = "stats" /\ r.todo # <<>>
  /\ r.pc = "machines" => r.ask.kind # "pages" /\ r.rows = <<>> /\ r.end = None /\ r.usage = {}

TablesOK ==
  /\ machine \in [Machine -> MachineRow \cup {None}]
  /\ application \subseteq Key /\ IsFiniteSet(application)
  /\ machineOptimization \in [Machine -> StoredRows \cup {None}]
  /\ \A m \in Machine : Exists(m) <=> machineOptimization[m] # None
  /\ machineSample \subseteq Sample /\ IsFiniteSet(machineSample)
  /\ \A x \in machineSample : Exists(x.machine)
  /\ commits \in 0..MaxCommits /\ now \in 0..commits

ReadsTyped == TablesOK /\ RequestOK(request)

LEMMA DecidedType ==
  ASSUME NEW size \in Size, NEW sight \in Sight
  PROVE  /\ Decided[size][sight] \in [Scope -> Decisions]
         /\ \A s \in Scope :
              /\ Decided[size][sight][s].status = "ok"
                   => size[s] \in Nat /\ Decided[size][sight][s].target \in Nat
<1> DEFINE E(s) == [scope |-> s, capacity |-> size[s], providers |-> sight[s].providers,
                    total |-> sight[s].total, count |-> sight[s].count]
<1>1. Decided[size][sight] = [s \in Scope |-> Evaluate(E(s))]
  BY DEF Decided
<1>2. ASSUME NEW s \in Scope PROVE E(s) \in Evidence
  BY ReadsAssumption DEF Evidence
<1> HIDE DEF E
<1>3. ASSUME NEW s \in Scope PROVE Evaluate(E(s)) \in Decisions
  BY <1>2, EvaluateType
<1>4. ASSUME NEW s \in Scope, Evaluate(E(s)).status = "ok"
      PROVE  size[s] \in Nat /\ Evaluate(E(s)).target \in Nat
  <2>1. Status(E(s)) = "ok"
    BY <1>4, OkIsEvaluatedOk
  <2>2. Measured(E(s))
    BY <1>2, <2>1, OkIsMeasured
  <2>3. size[s] \in Nat /\ E(s).capacity \in Nat /\ E(s).scope \in Scope
    BY <2>2 DEF Measured, E
  <2>4. BoundedTarget(E(s)) # None => BoundedTarget(E(s)) \in Nat
    BY <2>2, BoundedType
  <2>5. Minimum(E(s).scope) \in Nat
    BY <2>3, BoundsType
  <2> QED
    BY <2>1, <2>3, <2>4, <2>5, Outcomes DEF Decision, GoesUp, GoesDown
<1> QED
  BY <1>1, <1>3, <1>4

LEMMA StoredRowType ==
  ASSUME NEW o \in StoredRows
  PROVE  /\ o \in Optimization
         /\ o # None
         /\ \A s \in Scope : o.decision[s].status = "ok" => o.current[s] \in Nat /\ o.decision[s].target \in Nat
<1>1. PICK size \in Size, sight \in Sight, t \in Nat : o = Refreshed(size, sight, t)
  BY DEF StoredRows
<1>2. o = [computed |-> t, current |-> size, decision |-> Decided[size][sight]]
  BY <1>1 DEF Refreshed
<1>3. o \in Optimization
  BY <1>2, DecidedType DEF Optimization
<1> QED
  BY <1>2, <1>3, DecidedType, ReadsAssumption

LEMMA RefreshedType ==
  ASSUME NEW size \in Size, NEW sight \in Sight, NEW t \in Nat
  PROVE  Refreshed(size, sight, t) \in StoredRows
BY DEF StoredRows

LEMMA ReadsTypedTypeOK == ReadsTyped => ReadTypeOK
<1> SUFFICES ASSUME ReadsTyped PROVE ReadTypeOK
  OBVIOUS
<1>1. ASSUME NEW m \in Machine
      PROVE  IF Exists(m) THEN machineOptimization[m] \in Optimization ELSE machineOptimization[m] = None
  BY StoredRowType DEF ReadsTyped, TablesOK
<1>2. /\ request.ask \in Asks \cup {None}
      /\ request.members \subseteq Machine /\ DOMAIN request.rows \subseteq request.members
      /\ request.end \in Day \cup {None}
      /\ request.usage \subseteq Sample
      /\ request.todo \in Remaining
  BY DEF ReadsTyped, RequestOK, RequestState
<1>3. \A i, j \in DOMAIN request.todo : i # j => request.todo[i] # request.todo[j]
  <2>1. CASE request.todo = <<"cpu", "ram", "disk">>
    BY <2>1
  <2>2. CASE request.todo = <<"ram", "disk">>
    BY <2>2
  <2>3. CASE request.todo = <<"disk">> \/ request.todo = <<>>
    BY <2>3
  <2> QED
    BY <1>2, <2>1, <2>2, <2>3 DEF Remaining
<1> QED
  BY <1>1, <1>2, <1>3 DEF ReadsTyped, TablesOK, ReadTypeOK

LEMMA TodoStep ==
  ASSUME NEW todo \in Remaining, todo # <<>>
  PROVE  /\ Head(todo) \in Scope /\ Tail(todo) \in Remaining
         /\ Len(todo) = 1 <=> Tail(todo) = <<>>
         /\ ToSet(todo) = {Head(todo)} \cup ToSet(Tail(todo))
         /\ ToSet(<<>>) = {} /\ ToSet(<<"cpu", "ram", "disk">>) = Scope
<1>1. /\ ToSet(<<>>) = {} /\ ToSet(<<"disk">>) = {"disk"} /\ ToSet(<<"ram", "disk">>) = {"ram", "disk"}
      /\ ToSet(<<"cpu", "ram", "disk">>) = {"cpu", "ram", "disk"}
  BY DEF ToSet
<1>2. CASE todo = <<"cpu", "ram", "disk">>
  <2>1. Head(todo) = "cpu" /\ Tail(todo) = <<"ram", "disk">> /\ Len(todo) = 3
    BY <1>2
  <2> QED
    BY <1>1, <1>2, <2>1 DEF Remaining, Scope
<1>3. CASE todo = <<"ram", "disk">>
  <2>1. Head(todo) = "ram" /\ Tail(todo) = <<"disk">> /\ Len(todo) = 2
    BY <1>3
  <2> QED
    BY <1>1, <1>3, <2>1 DEF Remaining, Scope
<1>4. CASE todo = <<"disk">>
  <2>1. Head(todo) = "disk" /\ Tail(todo) = <<>> /\ Len(todo) = 1
    BY <1>4
  <2> QED
    BY <1>1, <1>4, <2>1 DEF Remaining, Scope
<1> QED
  BY <1>2, <1>3, <1>4 DEF Remaining

-----------------------------------------------------------------------------
(* The greatest of a finite set of days *)
LEMMA MaxOfDays ==
  ASSUME NEW S, IsFiniteSet(S), S \subseteq Nat, S # {}
  PROVE  Max(S) \in S /\ \A x \in S : x <= Max(S)
<1> DEFINE F == {T \in SUBSET S : T # {} /\ ~\E x \in T : \A y \in T : x >= y}
<1>1. SUFFICES ASSUME F # {} PROVE FALSE
  <2>1. \E x \in S : \A y \in S : x >= y
    BY <1>1
  <2>2. Max(S) \in S /\ \A y \in S : Max(S) >= y
    BY <2>1 DEF Max
  <2> QED
    BY <2>2
<1>2. PICK T \in F : \A U \in F : U \subseteq T => U = T
  <2>1. F \subseteq SUBSET S
    OBVIOUS
  <2>2. F # {}
    BY <1>1
  <2> HIDE DEF F
  <2> QED
    BY ONLY <2>1, <2>2, IsFiniteSet(S), MinimalSubset
<1>3. PICK x \in T : TRUE
  OBVIOUS
<1>4. CASE T \ {x} = {}
  BY <1>2, <1>3, <1>4
<1>5. CASE T \ {x} # {}
  <2>1. T \ {x} \notin F
    BY <1>2, <1>3
  <2>2. PICK z \in T \ {x} : \A y \in T \ {x} : z >= y
    BY <1>5, <2>1
  <2>3. x \in Nat /\ z \in Nat /\ \A y \in T : y \in Nat
    BY <1>3, <2>2
  <2>4. CASE x >= z
    BY <1>3, <2>2, <2>3, <2>4
  <2>5. CASE z >= x
    BY <1>3, <2>2, <2>3, <2>5
  <2> QED
    BY <2>3, <2>4, <2>5
<1> QED
  BY <1>4, <1>5

LEMMA KeysType ==
  ASSUME machine \in [Machine -> MachineRow \cup {None}]
  PROVE  Keys \subseteq Key /\ IsFiniteSet(Keys)
<1> DEFINE with == {m \in Machine : Exists(m) /\ machine[m].columns.code # None}
           f == [m \in with |-> KeyOf(machine[m].columns)]
<1>1. \A m \in with : KeyOf(machine[m].columns) \in Key
  BY KeysAssumption DEF Exists, MachineRow
<1>2. Keys = {KeyOf(machine[m].columns) : m \in with}
  BY DEF Keys
<1>3. IsFiniteSet(with)
  BY ReadsAssumption, FS_Subset
<1>4. f \in Surjection(with, Keys)
  BY <1>2 DEF Surjection
<1> QED
  BY <1>1, <1>2, <1>3, <1>4, FS_Surjection

-----------------------------------------------------------------------------
LEMMA NoRequestOK == RequestOK(NoRequest)
<1>1. <<>> \in UNION {[M -> StoredRows] : M \in SUBSET Machine} /\ DOMAIN <<>> = {}
  <2>1. DOMAIN <<>> = {}
    OBVIOUS
  <2>2. <<>> = [m \in {} |-> None]
    OBVIOUS
  <2>3. [m \in {} |-> None] \in [{} -> StoredRows]
    OBVIOUS
  <2> QED
    BY <2>1, <2>2, <2>3
<1>2. <<>> \in Seq(Key \cup Machine \cup Sample)
  OBVIOUS
<1>3. NoRequest \in RequestState
  BY <1>1, <1>2 DEF RequestState, NoRequest, Remaining
<1> QED
  BY <1>1, <1>3 DEF RequestOK, NoRequest

LEMMA MembersType ==
  ASSUME TablesOK, NEW k
  PROVE  Members(k) \subseteq Machine /\ \A m \in Members(k) : machineOptimization[m] \in StoredRows
BY DEF TablesOK, Members

LEMMA AskKeepsType ==
  ASSUME ReadsTyped, NEW a \in Asks, Ask(a)
  PROVE  RequestOK(request')
<1>1. /\ request'.pc = IF a.kind = "pages" THEN "count" ELSE "machines"
      /\ request' \in RequestState /\ request'.ask = a /\ request'.rows = <<>>
      /\ request'.end = None /\ request'.usage = {}
  BY NoRequestOK DEF ReadsTyped, TablesOK, Ask, RequestOK, RequestState, NoRequest
<1> QED
  BY <1>1, AsksAssumption DEF RequestOK

LEMMA ListedType ==
  ASSUME TablesOK, NEW a \in Asks, a.kind = "pages"
  PROVE  IsFiniteSet(Listed(a)) /\ Listed(a) \subseteq Key \cup Machine \cup Sample
<1>1. a.listing \in Listings
  BY AsksAssumption
<1>2. CASE a.listing = "applications"
  <2>1. Listed(a) \subseteq application
    BY <1>2 DEF Listed, Applications
  <2> QED
    BY <2>1, FS_Subset DEF TablesOK
<1>3. CASE a.listing = "machines"
  <2>1. Listed(a) \subseteq Machine
    BY <1>3 DEF Listed, Machines
  <2> QED
    BY <2>1, FS_Subset, ReadsAssumption
<1>4. CASE a.listing = "optimizations"
  <2>1. Listed(a) \subseteq Machine
    BY <1>4 DEF Listed, Optimizations, Machines
  <2> QED
    BY <2>1, FS_Subset, ReadsAssumption
<1>5. CASE a.listing = "metrics"
  <2>1. Listed(a) \subseteq machineSample
    BY <1>5 DEF Listed, Metrics
  <2> QED
    BY <2>1, FS_Subset DEF TablesOK
<1> QED
  BY <1>1, <1>2, <1>3, <1>4, <1>5 DEF Listings

(* An order of a listing enumerates it. *)
LEMMA OrdersEnumerate ==
  ASSUME TablesOK, NEW a \in Asks, a.kind = "pages", NEW s \in Orders(a)
  PROVE  /\ Cardinality(Listed(a)) \in Nat
         /\ s \in [1..Cardinality(Listed(a)) -> Listed(a)]
         /\ \A i, j \in 1..Cardinality(Listed(a)) : i # j => s[i] # s[j]
         /\ \A x \in Listed(a) : \E i \in 1..Cardinality(Listed(a)) : s[i] = x
         /\ s \in Seq(Key \cup Machine \cup Sample) /\ Len(s) = Cardinality(Listed(a))
<1> DEFINE L == Listed(a)  n == Cardinality(L)
<1>1. IsFiniteSet(L) /\ L \subseteq Key \cup Machine \cup Sample
  BY ListedType
<1>2. n \in Nat /\ IsFiniteSet(1..n) /\ Cardinality(1..n) = n
  BY <1>1, FS_CardinalityType, FS_Interval
<1>3. s \in [1..n -> L] /\ \A i, j \in 1..n : i # j => s[i] # s[j]
  BY DEF Orders, SetToSeqs
<1> HIDE DEF L, n
<1>4. s \in Injection(1..n, L)
  BY <1>3 DEF Injection, IsInjective
<1>5. s \in Surjection(1..n, L)
  BY <1>1, <1>2, <1>4, FS_Injection DEF n
<1>6. \A x \in L : \E i \in 1..n : s[i] = x
  BY <1>5 DEF Surjection
<1>7. s \in Seq(Key \cup Machine \cup Sample) /\ Len(s) = n
  BY <1>1, <1>2, <1>3
<1> QED
  BY <1>2, <1>3, <1>6, <1>7 DEF L, n

LEMMA LesserOfTwo ==
  ASSUME NEW x \in Int, NEW y \in Int
  PROVE  Min({x, y}) = IF x <= y THEN x ELSE y
BY DEF Min

LEMMA ReadMachinesKeepsType ==
  ASSUME ReadsTyped, ReadMachines
  PROVE  RequestOK(request')
<1> DEFINE ids == Members(request.ask.key)
<1>1. ids \in SUBSET Machine
  BY MembersType DEF ReadsTyped
<1>2. /\ request \in RequestState /\ request.pc = "machines" /\ request.ask \in Asks
      /\ request.ask.kind # "pages" /\ DOMAIN request.rows = {}
  BY DEF ReadsTyped, ReadMachines, At, RequestOK
<1> HIDE DEF ids
<1>3. request' = [request EXCEPT !.members = ids, !.todo = <<"cpu", "ram", "disk">>,
         !.pc = IF ids = {} THEN "answered"
                ELSE IF request.ask.kind = "summary" THEN "optimizations" ELSE "latest"]
  BY DEF ReadMachines, ids
<1>4. /\ request' \in RequestState /\ request'.ask = request.ask /\ request'.rows = request.rows
      /\ request'.members = ids
      /\ request'.pc = IF ids = {} THEN "answered"
                       ELSE IF request.ask.kind = "summary" THEN "optimizations" ELSE "latest"
      /\ request'.todo = <<"cpu", "ram", "disk">>
  BY <1>1, <1>2, <1>3 DEF RequestState, Remaining
<1> QED
  BY <1>2, <1>4, AsksAssumption DEF RequestOK

LEMMA ReadOptimizationsKeepsType ==
  ASSUME ReadsTyped, ReadOptimizations
  PROVE  RequestOK(request')
<1> DEFINE found == {m \in request.members : machineOptimization[m] # None}
           rows == [m \in found |-> machineOptimization[m]]
<1>1. request \in RequestState /\ request.ask \in Asks
  BY DEF ReadsTyped, ReadOptimizations, At, RequestOK
<1>2. found \in SUBSET Machine /\ found \subseteq request.members
  BY <1>1 DEF RequestState
<1>3. rows \in [found -> StoredRows]
  BY <1>2 DEF ReadsTyped, TablesOK
<1>4. rows \in UNION {[M -> StoredRows] : M \in SUBSET Machine} /\ DOMAIN rows \subseteq request.members
  BY <1>2, <1>3
<1>5. request' = Answer([request EXCEPT !.rows = rows])
  BY DEF ReadOptimizations
<1> HIDE DEF found, rows
<1>6. /\ request' \in RequestState /\ request'.ask = request.ask
      /\ request'.rows = rows /\ request'.members = request.members /\ request'.pc = "answered"
  BY <1>1, <1>4, <1>5 DEF RequestState, Answer
<1> QED
  BY <1>1, <1>4, <1>6 DEF RequestOK

LEMMA DayType == Day \subseteq Nat /\ None \notin Day /\ WindowDays \in Nat \ {0} /\ Limit \in Nat \ {0}
<1>1. Day \subseteq Nat /\ WindowDays \in Nat \ {0} /\ Limit \in Nat \ {0}
  BY ReadsAssumption
<1>2. None \notin Int
  BY SettingsAssumption
<1>3. ASSUME None \in Day PROVE FALSE
  <2>1. None \in Nat
    BY ONLY <1>1, <1>3
  <2> QED
    BY ONLY <1>2, <2>1
<1> QED
  BY ONLY <1>1, <1>3

(* The days of a table's samples of the machines, the latest found so far *)
LEMMA LatestType ==
  ASSUME ReadsTyped, NEW s
  PROVE  LET known == Days(s) \cup ({request.end} \ {None})
         IN  /\ known \subseteq Day /\ IsFiniteSet(known)
             /\ Latest(known) \in Day \cup {None}
             /\ known = {} <=> Latest(known) = None
             /\ known # {} => Latest(known) \in known /\ \A d \in known : d <= Latest(known)
<1> DEFINE of == {y \in machineSample : y.scope = s /\ y.machine \in request.members}
           f == [x \in of |-> x.day]
           known == Days(s) \cup ({request.end} \ {None})
<1>1. machineSample \subseteq Sample /\ IsFiniteSet(machineSample) /\ request.end \in Day \cup {None}
  BY DEF ReadsTyped, TablesOK, RequestOK, RequestState
<1>2. IsFiniteSet(of) /\ \A x \in of : x.day \in Day
  BY <1>1, FS_Subset DEF Sample
<1>3. Days(s) = {x.day : x \in of}
  BY DEF Days
<1>4. f \in Surjection(of, Days(s))
  BY <1>3 DEF Surjection
<1>5. IsFiniteSet(Days(s)) /\ Days(s) \subseteq Day
  BY <1>2, <1>3, <1>4, FS_Surjection
<1>6. IsFiniteSet({request.end} \ {None})
  BY FS_Singleton, FS_Subset
<1>7. known \subseteq Day /\ IsFiniteSet(known)
  BY <1>1, <1>5, <1>6, FS_Union
<1> HIDE DEF known
<1>8. known \subseteq Nat /\ None \notin known
  BY <1>7, DayType
<1>9. known # {} => Max(known) \in known /\ \A d \in known : d <= Max(known)
  BY <1>7, <1>8, MaxOfDays
<1>10. known # {} => Latest(known) \in known /\ \A d \in known : d <= Latest(known)
  BY <1>9 DEF Latest
<1>11. known = {} => Latest(known) = None
  BY DEF Latest
<1>12. /\ Latest(known) \in Day \cup {None}
       /\ known = {} <=> Latest(known) = None
  BY <1>7, <1>8, <1>10, <1>11
<1> QED
  BY <1>7, <1>10, <1>12 DEF known

LEMMA ReadLatestKeepsType ==
  ASSUME ReadsTyped, ReadLatest
  PROVE  /\ RequestOK(request')
         /\ request'.ask = request.ask /\ request'.members = request.members
         /\ request'.usage = request.usage /\ request'.disturbed = request.disturbed
         /\ request'.always = request.always /\ request'.sometime = request.sometime
         /\ LET known == Days(Head(request.todo)) \cup ({request.end} \ {None})
            IN  /\ request'.end = Latest(known)
                /\ \/ /\ Tail(request.todo) # <<>> /\ request'.pc = "latest"
                      /\ request'.todo = Tail(request.todo)
                   \/ Tail(request.todo) = <<>> /\ known = {} /\ request'.pc = "answered"
                   \/ /\ Tail(request.todo) = <<>> /\ known # {} /\ request'.pc = "usage"
                      /\ request'.todo = <<"cpu", "ram", "disk">>
<1> DEFINE known == Days(Head(request.todo)) \cup ({request.end} \ {None})
           r == [request EXCEPT !.end = Latest(known), !.todo = Tail(@)]
<1>1. /\ request \in RequestState /\ request.ask \in Asks /\ request.ask.kind = "stats"
      /\ request.todo \in Remaining \ {<<>>} /\ request.pc = "latest"
      /\ DOMAIN request.rows \subseteq request.members
  BY DEF ReadsTyped, ReadLatest, At, RequestOK, RequestState
<1>2. Latest(known) \in Day \cup {None}
  BY LatestType
<1>3. Tail(request.todo) \in Remaining /\ (Len(request.todo) = 1 <=> Tail(request.todo) = <<>>)
  BY <1>1, TodoStep
<1>4. request' = CASE ~(Len(request.todo) = 1) -> r
                   [] Len(request.todo) = 1 /\ known = {} -> Answer(r)
                   [] OTHER -> [r EXCEPT !.pc = "usage", !.todo = <<"cpu", "ram", "disk">>]
  BY DEF ReadLatest
<1> HIDE DEF known
<1>5. /\ r \in RequestState /\ r.ask = request.ask /\ r.members = request.members
      /\ r.rows = request.rows /\ r.pc = "latest"
      /\ r.usage = request.usage /\ r.disturbed = request.disturbed
      /\ r.always = request.always /\ r.sometime = request.sometime
      /\ r.end = Latest(known) /\ r.todo = Tail(request.todo)
  BY <1>1, <1>2, <1>3 DEF RequestState
<1> HIDE DEF r
<1>6. CASE Len(request.todo) # 1
  BY <1>1, <1>3, <1>4, <1>5, <1>6 DEF RequestOK, known
<1>7. CASE Len(request.todo) = 1 /\ known = {}
  <2>1. request' = [r EXCEPT !.pc = "answered"]
    BY <1>4, <1>7 DEF Answer
  <2>2. /\ request' \in RequestState /\ request'.ask = request.ask /\ request'.members = request.members
        /\ request'.rows = request.rows /\ request'.pc = "answered"
        /\ request'.usage = request.usage /\ request'.disturbed = request.disturbed
        /\ request'.always = request.always /\ request'.sometime = request.sometime
        /\ request'.end = Latest(known)
    BY <1>5, <2>1 DEF RequestState
  <2> QED
    BY <1>1, <1>3, <1>7, <2>2 DEF RequestOK, known
<1>8. CASE Len(request.todo) = 1 /\ known # {}
  <2>1. request' = [r EXCEPT !.pc = "usage", !.todo = <<"cpu", "ram", "disk">>]
    BY <1>4, <1>8
  <2>2. /\ request' \in RequestState /\ request'.ask = request.ask /\ request'.members = request.members
        /\ request'.rows = request.rows /\ request'.pc = "usage"
        /\ request'.usage = request.usage /\ request'.disturbed = request.disturbed
        /\ request'.always = request.always /\ request'.sometime = request.sometime
        /\ request'.end = Latest(known) /\ request'.todo = <<"cpu", "ram", "disk">>
    BY <1>5, <2>1 DEF RequestState, Remaining
  <2> QED
    BY <1>1, <1>3, <1>8, <2>2 DEF RequestOK, known
<1> QED
  BY <1>6, <1>7, <1>8

LEMMA ReadUsageKeepsType ==
  ASSUME ReadsTyped, ReadUsage
  PROVE  /\ RequestOK(request')
         /\ request'.ask = request.ask /\ request'.members = request.members
         /\ request'.end = request.end /\ request'.disturbed = request.disturbed
         /\ request'.always = request.always /\ request'.sometime = request.sometime
         /\ request'.usage = request.usage \cup Usage(Head(request.todo))
         /\ request'.todo = Tail(request.todo)
         /\ request'.pc = IF Tail(request.todo) = <<>> THEN "answered" ELSE "usage"
<1> DEFINE new == Usage(Head(request.todo))
           r == [request EXCEPT !.usage = @ \cup new, !.todo = Tail(@)]
<1>1. /\ request \in RequestState /\ request.ask \in Asks /\ request.ask.kind = "stats"
      /\ request.todo \in Remaining \ {<<>>} /\ request.pc = "usage"
      /\ DOMAIN request.rows \subseteq request.members
  BY DEF ReadsTyped, ReadUsage, At, RequestOK, RequestState
<1>2. new \subseteq Sample
  BY DEF Usage, ReadsTyped, TablesOK
<1>3. Tail(request.todo) \in Remaining /\ (Len(request.todo) = 1 <=> Tail(request.todo) = <<>>)
  BY <1>1, TodoStep
<1>4. request' = IF Len(request.todo) = 1 THEN Answer(r) ELSE r
  BY DEF ReadUsage
<1> HIDE DEF new
<1>5. /\ r \in RequestState /\ r.ask = request.ask /\ r.members = request.members
      /\ r.rows = request.rows /\ r.pc = "usage"
      /\ r.usage = request.usage \cup new /\ r.disturbed = request.disturbed
      /\ r.always = request.always /\ r.sometime = request.sometime
      /\ r.end = request.end /\ r.todo = Tail(request.todo)
  BY <1>1, <1>2, <1>3 DEF RequestState
<1> HIDE DEF r
<1>6. CASE Len(request.todo) # 1
  BY <1>1, <1>3, <1>4, <1>5, <1>6 DEF RequestOK, new
<1>7. CASE Len(request.todo) = 1
  <2>1. request' = [r EXCEPT !.pc = "answered"]
    BY <1>4, <1>7 DEF Answer
  <2>2. /\ request' \in RequestState /\ request'.ask = request.ask /\ request'.members = request.members
        /\ request'.rows = request.rows /\ request'.pc = "answered"
        /\ request'.usage = request.usage \cup new /\ request'.disturbed = request.disturbed
        /\ request'.always = request.always /\ request'.sometime = request.sometime
        /\ request'.end = request.end /\ request'.todo = Tail(request.todo)
    BY <1>5, <2>1 DEF RequestState
  <2> QED
    BY <1>1, <1>3, <1>7, <2>2 DEF RequestOK, new
<1> QED
  BY <1>6, <1>7

LEMMA CountKeepsType ==
  ASSUME ReadsTyped, Count
  PROVE  /\ RequestOK(request')
         /\ request'.pc = "page" /\ request'.ask = request.ask /\ request'.offset = request.offset
         /\ request'.seen = request.seen /\ request'.disturbed = request.disturbed
         /\ request'.total = Cardinality(Listed(request.ask))
<1> DEFINE n == Cardinality(Listed(request.ask))
<1>1. /\ request \in RequestState /\ request.ask \in Asks /\ request.ask.kind = "pages"
      /\ request.pc = "count" /\ DOMAIN request.rows \subseteq request.members
  BY DEF ReadsTyped, Count, At, RequestOK
<1>2. n \in Nat
  BY <1>1, ListedType, FS_CardinalityType DEF ReadsTyped
<1>3. request' = [request EXCEPT !.total = n, !.pc = "page"]
  BY DEF Count
<1> HIDE DEF n
<1>4. /\ request' \in RequestState /\ request'.ask = request.ask /\ request'.members = request.members
      /\ request'.rows = request.rows /\ request'.pc = "page" /\ request'.offset = request.offset
      /\ request'.seen = request.seen /\ request'.disturbed = request.disturbed
      /\ request'.total = n
  BY <1>1, <1>2, <1>3 DEF RequestState
<1> QED
  BY <1>1, <1>4 DEF RequestOK, n

LEMMA NextPageKeepsType ==
  ASSUME ReadsTyped, NextPage
  PROVE  /\ RequestOK(request')
         /\ \/ request' = NoRequest
            \/ /\ request.pc = "next" /\ request'.pc = "count" /\ request'.ask = request.ask
               /\ request'.offset = request.offset /\ request'.seen = request.seen
               /\ request'.disturbed = request.disturbed
<1>1. CASE ~Found(request.ask.key)
  BY <1>1, NoRequestOK DEF NextPage
<1>2. CASE Found(request.ask.key)
  <2>1. /\ request \in RequestState /\ request.ask \in Asks /\ request.ask.kind = "pages"
        /\ request.pc = "next" /\ DOMAIN request.rows \subseteq request.members
        /\ request' = [request EXCEPT !.pc = "count"]
    BY <1>2 DEF ReadsTyped, NextPage, At, RequestOK
  <2>2. /\ request' \in RequestState /\ request'.ask = request.ask /\ request'.members = request.members
        /\ request'.rows = request.rows /\ request'.pc = "count" /\ request'.offset = request.offset
        /\ request'.seen = request.seen /\ request'.disturbed = request.disturbed
    BY <2>1 DEF RequestState
  <2> QED
    BY <2>1, <2>2 DEF RequestOK
<1> QED
  BY <1>1, <1>2

(* A page of an order s is added to what was seen. *)
LEMMA ReadPageKeepsType ==
  ASSUME ReadsTyped, ReadPage
  PROVE  /\ RequestOK(request')
         /\ request'.ask = request.ask /\ request'.disturbed = request.disturbed
         /\ request'.total = request.total
         /\ \E s \in Orders(request.ask) :
              LET last == IF request.offset + Limit <= Len(s) THEN request.offset + Limit ELSE Len(s)
                  new  == SubSeq(s, request.offset + 1, last)
              IN  /\ request'.seen = request.seen \o new /\ new \in Seq(Key \cup Machine \cup Sample)
                  /\ \/ /\ request.offset + Limit < request.total
                        /\ request'.pc = "next" /\ request'.offset = request.offset + Limit
                     \/ request.offset + Limit >= request.total /\ request'.pc = "answered"
<1>1. /\ request \in RequestState /\ request.ask \in Asks /\ request.ask.kind = "pages"
      /\ request.pc = "page" /\ DOMAIN request.rows \subseteq request.members
  BY DEF ReadsTyped, ReadPage, At, RequestOK
<1>2. /\ request.offset \in Nat /\ request.total \in Nat
      /\ request.seen \in Seq(Key \cup Machine \cup Sample)
  BY <1>1 DEF RequestState
<1>3. PICK s \in Orders(request.ask) :
        LET r == [request EXCEPT !.seen = @ \o SubSeq(s, request.offset + 1,
                                                      Min({request.offset + Limit, Len(s)}))]
        IN  request' = IF request.offset + Limit < request.total
                       THEN [r EXCEPT !.offset = @ + Limit, !.pc = "next"] ELSE Answer(r)
  BY DEF ReadPage
<1> DEFINE last == IF request.offset + Limit <= Len(s) THEN request.offset + Limit ELSE Len(s)
           new == SubSeq(s, request.offset + 1, last)
           r == [request EXCEPT !.seen = @ \o new]
<1>4. /\ s \in Seq(Key \cup Machine \cup Sample) /\ Len(s) \in Nat
      /\ \A i \in 1..Len(s) : s[i] \in Key \cup Machine \cup Sample
  BY <1>1, OrdersEnumerate DEF ReadsTyped
<1>5. Limit \in Nat \ {0} /\ last \in Nat /\ last <= Len(s)
  BY <1>2, <1>4, DayType
<1>6. Min({request.offset + Limit, Len(s)}) = last
  BY <1>2, <1>4, <1>5, LesserOfTwo
<1> HIDE DEF last
<1>7. new \in Seq(Key \cup Machine \cup Sample)
  BY <1>2, <1>4, <1>5, SubSeqProperties
<1>8. request.seen \o new \in Seq(Key \cup Machine \cup Sample)
  BY <1>2, <1>7, ConcatProperties
<1>9. request' = IF request.offset + Limit < request.total
                 THEN [r EXCEPT !.offset = @ + Limit, !.pc = "next"] ELSE Answer(r)
  BY <1>3, <1>6
<1> HIDE DEF new
<1>10. /\ r \in RequestState /\ r.ask = request.ask /\ r.members = request.members
       /\ r.rows = request.rows /\ r.disturbed = request.disturbed /\ r.total = request.total
       /\ r.offset = request.offset /\ r.seen = request.seen \o new
  BY <1>1, <1>8 DEF RequestState
<1> HIDE DEF r
<1>11. CASE request.offset + Limit < request.total
  <2> DEFINE o == request.offset + Limit
  <2>1. request' = [r EXCEPT !.offset = o, !.pc = "next"] /\ o \in Nat
    BY <1>2, <1>5, <1>9, <1>10, <1>11 DEF RequestState
  <2> HIDE DEF o
  <2>2. /\ request' \in RequestState /\ request'.ask = request.ask /\ request'.members = request.members
        /\ request'.rows = request.rows /\ request'.disturbed = request.disturbed
        /\ request'.total = request.total /\ request'.pc = "next"
        /\ request'.offset = o /\ request'.seen = request.seen \o new
    BY <1>10, <2>1 DEF RequestState
  <2>3. RequestOK(request')
    BY <1>1, <2>2 DEF RequestOK
  <2> QED
    BY <1>7, <1>11, <2>2, <2>3 DEF last, new, o
<1>12. CASE ~(request.offset + Limit < request.total)
  <2>1. request' = [r EXCEPT !.pc = "answered"]
    BY <1>9, <1>12 DEF Answer
  <2>2. /\ request' \in RequestState /\ request'.ask = request.ask /\ request'.members = request.members
        /\ request'.rows = request.rows /\ request'.disturbed = request.disturbed
        /\ request'.total = request.total /\ request'.pc = "answered"
        /\ request'.seen = request.seen \o new
    BY <1>10, <2>1 DEF RequestState
  <2>3. RequestOK(request')
    BY <1>1, <2>2 DEF RequestOK
  <2>4. request.offset + Limit >= request.total
    BY <1>2, <1>5, <1>12
  <2> QED
    BY <1>7, <2>2, <2>3, <2>4 DEF last, new
<1> QED
  BY <1>11, <1>12

Asked == request.pc \notin {"idle", "answered"}

(* A commit of others leaves the request where it is, and remembers the samples. *)
LEMMA ObserveKeepsType ==
  ASSUME ReadsTyped, Observe, machineSample' \subseteq Sample
  PROVE  /\ RequestOK(request')
         /\ \/ ~Asked /\ request' = NoRequest
            \/ /\ Asked
               /\ request' = [request EXCEPT !.disturbed = request'.disturbed,
                    !.always = request.always \cap machineSample',
                    !.sometime = request.sometime \cup machineSample']
               /\ request'.disturbed \in BOOLEAN
               /\ request'.disturbed = (request.disturbed \/ Disturbs)
<1>1. CASE ~Asked
  BY <1>1, NoRequestOK DEF Observe, Asked
<1>2. CASE Asked
  <2> DEFINE d == request.disturbed \/ Disturbs
             al == request.always \cap machineSample'
             so == request.sometime \cup machineSample'
  <2>1. request' = [request EXCEPT !.disturbed = d, !.always = al, !.sometime = so]
    BY <1>2 DEF Observe, Asked
  <2>2. /\ request \in RequestState
        /\ RequestOK(request)
    BY DEF ReadsTyped, RequestOK
  <2>3. al \in SUBSET Sample /\ so \in SUBSET Sample /\ d \in BOOLEAN
    BY <2>2 DEF RequestState
  <2>6. request'.disturbed = d
    BY <2>1, <2>2 DEF RequestState
  <2> HIDE DEF d, al, so
  <2>4. /\ request' \in RequestState /\ request'.ask = request.ask /\ request'.members = request.members
        /\ request'.rows = request.rows /\ request'.pc = request.pc /\ request'.end = request.end
        /\ request'.usage = request.usage /\ request'.todo = request.todo
        /\ request'.disturbed = d
    BY <2>1, <2>2, <2>3 DEF RequestState
  <2>5. RequestOK(request')
    BY <2>2, <2>4 DEF RequestOK
  <2> QED
    BY <1>2, <2>1, <2>3, <2>4, <2>5 DEF al, so, d
<1> QED
  BY <1>1, <1>2

LEMMA CommitsType ==
  ASSUME TablesOK, CommitOfOthers, now' \in {now, now + 1}
  PROVE  commits' \in 0..MaxCommits /\ now' \in 0..commits'
BY ReadsAssumption DEF TablesOK, CommitOfOthers

LEMMA RefreshMachineType ==
  ASSUME TablesOK, NEW m \in Machine, RefreshMachine(m), machine' \in [Machine -> MachineRow \cup {None}],
         machine'[m] # None
  PROVE  /\ now' = now + 1
         /\ \E o \in StoredRows : machineOptimization' = [machineOptimization EXCEPT ![m] = o]
<1>1. now' = now + 1 /\ now' \in Nat
  BY ReadsAssumption DEF RefreshMachine, TablesOK
<1>2. machine'[m].size \in Size
  BY DEF MachineRow
<1>3. PICK sight \in Sight :
        machineOptimization' = [machineOptimization EXCEPT ![m] = Refreshed(machine'[m].size, sight, now')]
  BY DEF RefreshMachine
<1>4. Refreshed(machine'[m].size, sight, now') \in StoredRows
  BY <1>1, <1>2, RefreshedType
<1> QED
  BY <1>1, <1>3, <1>4

LEMMA StoredIsNotNone == None \notin StoredRows /\ None \notin MachineRow
BY StoredRowType, ReadsAssumption

LEMMA DiscoverKeepsTables ==
  ASSUME TablesOK, NEW m \in Machine, DiscoverMachine(m)
  PROVE  TablesOK'
<1>1. PICK found \in MachineRow :
        /\ machine' = [machine EXCEPT ![m] = found]
        /\ IF Exists(m) /\ machine[m].size = found.size THEN UNCHANGED <<now, machineOptimization>>
           ELSE RefreshMachine(m)
  BY DEF DiscoverMachine
<1>2. UNCHANGED <<application, machineSample>> /\ CommitOfOthers
  BY DEF DiscoverMachine
<1>3. machine' \in [Machine -> MachineRow \cup {None}] /\ machine'[m] = found /\ found # None
  BY <1>1, StoredIsNotNone DEF TablesOK
<1>4. \A x \in machineSample' : Exists(x.machine)'
  <2>1. ASSUME NEW x \in machineSample PROVE machine'[x.machine] # None
    BY <1>1, <1>3 DEF TablesOK, Exists, Sample
  <2> QED
    BY <1>2, <2>1 DEF Exists
<1>5. CASE Exists(m) /\ machine[m].size = found.size
  <2>1. UNCHANGED <<now, machineOptimization>>
    BY <1>1, <1>5
  <2>2. \A n \in Machine : Exists(n)' <=> machineOptimization'[n] # None
    BY <1>1, <1>3, <1>5, <2>1 DEF TablesOK, Exists
  <2>3. commits' \in 0..MaxCommits /\ now' \in 0..commits'
    BY <1>2, <2>1, CommitsType
  <2> QED
    BY <1>2, <1>3, <1>4, <2>1, <2>2, <2>3 DEF TablesOK
<1>6. CASE ~(Exists(m) /\ machine[m].size = found.size)
  <2>1. /\ now' = now + 1
        /\ \E o \in StoredRows : machineOptimization' = [machineOptimization EXCEPT ![m] = o]
    BY <1>1, <1>3, <1>6, RefreshMachineType
  <2>2. PICK o \in StoredRows : machineOptimization' = [machineOptimization EXCEPT ![m] = o]
    BY <2>1
  <2>3. machineOptimization' \in [Machine -> StoredRows \cup {None}]
    BY <2>2 DEF TablesOK
  <2>4. \A n \in Machine : Exists(n)' <=> machineOptimization'[n] # None
    BY <1>1, <1>3, <2>2, StoredIsNotNone DEF TablesOK, Exists
  <2>5. commits' \in 0..MaxCommits /\ now' \in 0..commits'
    BY <1>2, <2>1, CommitsType
  <2> QED
    BY <1>2, <1>3, <1>4, <2>3, <2>4, <2>5 DEF TablesOK
<1> QED
  BY <1>5, <1>6

LEMMA RefreshKeepsTables ==
  ASSUME TablesOK, NEW m \in Machine, Exists(m), RefreshMachine(m), CommitOfOthers,
         UNCHANGED <<machine, application>>,
         machineSample' \subseteq Sample, IsFiniteSet(machineSample'),
         \A x \in machineSample' : x \in machineSample \/ x.machine = m
  PROVE  TablesOK'
<1>1. /\ now' = now + 1
      /\ \E o \in StoredRows : machineOptimization' = [machineOptimization EXCEPT ![m] = o]
  BY RefreshMachineType DEF TablesOK, Exists
<1>2. PICK o \in StoredRows : machineOptimization' = [machineOptimization EXCEPT ![m] = o]
  BY <1>1
<1>3. machineOptimization' \in [Machine -> StoredRows \cup {None}]
  BY <1>2 DEF TablesOK
<1>4. \A n \in Machine : Exists(n)' <=> machineOptimization'[n] # None
  BY <1>2, StoredIsNotNone DEF TablesOK, Exists
<1>5. \A x \in machineSample' : Exists(x.machine)'
  BY DEF TablesOK, Exists
<1>6. commits' \in 0..MaxCommits /\ now' \in 0..commits'
  BY <1>1, CommitsType
<1> QED
  BY <1>3, <1>4, <1>5, <1>6 DEF TablesOK

LEMMA CollectKeepsTables ==
  ASSUME TablesOK, NEW m \in Machine, CollectSample(m)
  PROVE  TablesOK'
<1>1. PICK s \in Scope, d \in Day :
        machineSample' = machineSample \cup {[machine |-> m, scope |-> s, day |-> d]}
  BY DEF CollectSample
<1>2. [machine |-> m, scope |-> s, day |-> d] \in Sample
  BY DEF Sample
<1>3. IsFiniteSet(machineSample')
  BY <1>1, FS_AddElement DEF TablesOK
<1>4. machineSample' \subseteq Sample /\ \A x \in machineSample' : x \in machineSample \/ x.machine = m
  BY <1>1, <1>2 DEF TablesOK
<1>5. Exists(m) /\ RefreshMachine(m) /\ CommitOfOthers /\ UNCHANGED <<machine, application>>
  BY DEF CollectSample
<1> QED
  BY <1>3, <1>4, <1>5, RefreshKeepsTables

LEMMA RecalculateKeepsTables ==
  ASSUME TablesOK, NEW m \in Machine, RecalculateMachine(m)
  PROVE  TablesOK'
<1>1. /\ Exists(m) /\ RefreshMachine(m) /\ CommitOfOthers /\ UNCHANGED <<machine, application>>
      /\ machineSample' = machineSample
  BY DEF RecalculateMachine
<1>2. machineSample' \subseteq Sample /\ IsFiniteSet(machineSample')
  BY <1>1 DEF TablesOK
<1> QED
  BY <1>1, <1>2, RefreshKeepsTables

LEMMA DeleteKeepsTables ==
  ASSUME TablesOK, NEW m \in Machine, DeleteMachine(m)
  PROVE  TablesOK'
<1>1. /\ machine' = [machine EXCEPT ![m] = None]
      /\ machineOptimization' = [machineOptimization EXCEPT ![m] = None]
      /\ machineSample' = {x \in machineSample : x.machine # m}
      /\ UNCHANGED <<application, now>> /\ CommitOfOthers
  BY DEF DeleteMachine
<1>2. machineSample' \subseteq machineSample /\ IsFiniteSet(machineSample')
  BY <1>1, FS_Subset DEF TablesOK
<1>3. \A x \in machineSample' : Exists(x.machine)'
  BY <1>1 DEF TablesOK, Exists, Sample
<1>4. \A n \in Machine : Exists(n)' <=> machineOptimization'[n] # None
  BY <1>1 DEF TablesOK, Exists
<1>5. commits' \in 0..MaxCommits /\ now' \in 0..commits'
  BY <1>1, CommitsType
<1>6. /\ machine' \in [Machine -> MachineRow \cup {None}]
      /\ machineOptimization' \in [Machine -> StoredRows \cup {None}]
  BY <1>1 DEF TablesOK
<1> QED
  BY <1>1, <1>2, <1>3, <1>4, <1>5, <1>6 DEF TablesOK

LEMMA RebuildKeepsTables ==
  ASSUME TablesOK, Rebuild
  PROVE  TablesOK'
<1>1. /\ application' = Keys /\ UNCHANGED <<machine, machineOptimization, machineSample, now>>
      /\ CommitOfOthers
  BY DEF Rebuild
<1>2. application' \subseteq Key /\ IsFiniteSet(application')
  BY <1>1, KeysType DEF TablesOK
<1>3. commits' \in 0..MaxCommits /\ now' \in 0..commits'
  BY <1>1, CommitsType
<1>4. \A m \in Machine : Exists(m)' <=> Exists(m)
  BY <1>1 DEF Exists
<1>5. \A x \in machineSample' : Exists(x.machine)'
  BY <1>1 DEF TablesOK, Exists
<1> QED
  BY <1>1, <1>2, <1>3, <1>4, <1>5 DEF TablesOK

(* What others commit: one of their actions, that the request observes *)
CommitStep ==
  \/ \E m \in Machine : DiscoverMachine(m) \/ CollectSample(m) \/ RecalculateMachine(m) \/ DeleteMachine(m)
  \/ Rebuild

LEMMA CommitKeepsTables ==
  ASSUME TablesOK, CommitStep
  PROVE  TablesOK' /\ Observe
<1>1. TablesOK'
  BY DiscoverKeepsTables, CollectKeepsTables, RecalculateKeepsTables, DeleteKeepsTables,
     RebuildKeepsTables DEF CommitStep
<1>2. Observe
  BY DEF CommitStep, DiscoverMachine, CollectSample, RecalculateMachine, DeleteMachine, Rebuild,
         CommitOfOthers
<1> QED
  BY <1>1, <1>2

LEMMA ReadInitTyped == ReadInit => ReadsTyped
<1> SUFFICES ASSUME ReadInit PROVE ReadsTyped
  OBVIOUS
<1>1. machine \in [Machine -> MachineRow \cup {None}] /\ application = Keys /\ now = 0 /\ commits = 0
  BY ReadsAssumption DEF ReadInit
<1>2. PICK sight \in [Machine -> Sight] :
        machineOptimization = [m \in Machine |->
          IF Exists(m) THEN Refreshed(machine[m].size, sight[m], 0) ELSE None]
  BY DEF ReadInit
<1>3. ASSUME NEW m \in Machine, Exists(m)
      PROVE  Refreshed(machine[m].size, sight[m], 0) \in StoredRows
  <2>1. machine[m].size \in Size
    BY <1>1, <1>3 DEF Exists, MachineRow
  <2> QED
    BY <2>1, RefreshedType
<1>4. /\ machineOptimization \in [Machine -> StoredRows \cup {None}]
      /\ \A m \in Machine : Exists(m) <=> machineOptimization[m] # None
  BY <1>2, <1>3, StoredIsNotNone
<1>5. PICK found \in Sampled : machineSample = {x \in found : Exists(x.machine)}
  BY DEF ReadInit
<1>6. /\ machineSample \subseteq Sample /\ IsFiniteSet(machineSample)
      /\ \A x \in machineSample : Exists(x.machine)
  BY <1>5, ReadsAssumption, FS_Subset
<1>7. application \subseteq Key /\ IsFiniteSet(application)
  BY <1>1, KeysType
<1>8. commits \in 0..MaxCommits /\ now \in 0..commits
  BY <1>1, ReadsAssumption
<1>9. TablesOK
  BY <1>1, <1>4, <1>6, <1>7, <1>8 DEF TablesOK
<1> QED
  BY <1>9, NoRequestOK DEF ReadInit, ReadsTyped

(* A step of the request leaves the tables; one of the others is seen by the request. *)
RequestStep ==
  \/ \E a \in Asks : Ask(a)
  \/ ReadMachines \/ ReadOptimizations \/ ReadLatest \/ ReadUsage
  \/ Count \/ ReadPage \/ NextPage

LEMMA NextIsStep == ReadNext => (RequestStep /\ UNCHANGED Tables) \/ CommitStep
BY DEF ReadNext, RequestStep, CommitStep, Ask, ReadMachines, ReadOptimizations, ReadLatest, ReadUsage,
       Count, ReadPage, NextPage

LEMMA TablesUnchanged ==
  ASSUME TablesOK, UNCHANGED Tables
  PROVE  TablesOK'
BY DEF TablesOK, Tables, Exists

LEMMA ReadsTypedStep == ReadsTyped /\ [ReadNext]_readVars => ReadsTyped'
<1> SUFFICES ASSUME ReadsTyped, [ReadNext]_readVars PROVE ReadsTyped'
  OBVIOUS
<1>1. CASE UNCHANGED readVars
  <2>1. UNCHANGED Tables /\ request' = request
    BY <1>1 DEF readVars, Tables
  <2>2. TablesOK'
    BY <2>1, TablesUnchanged DEF ReadsTyped
  <2> QED
    BY <2>1, <2>2 DEF ReadsTyped
<1>2. CASE RequestStep /\ UNCHANGED Tables
  <2>1. TablesOK'
    BY <1>2, TablesUnchanged DEF ReadsTyped
  <2>2. RequestOK(request')
    BY <1>2, AskKeepsType, ReadMachinesKeepsType, ReadOptimizationsKeepsType, ReadLatestKeepsType,
       ReadUsageKeepsType, CountKeepsType, ReadPageKeepsType, NextPageKeepsType DEF RequestStep
  <2> QED
    BY <2>1, <2>2 DEF ReadsTyped
<1>3. CASE CommitStep
  <2>1. TablesOK' /\ Observe
    BY <1>3, CommitKeepsTables DEF ReadsTyped
  <2>2. RequestOK(request')
    BY <2>1, ObserveKeepsType DEF TablesOK
  <2> QED
    BY <2>1, <2>2 DEF ReadsTyped
<1> QED
  BY <1>1, <1>2, <1>3, NextIsStep

(* Whatever others commit between the statements of a request, the tables refer *)
(* only to what exists and a request is made of rows that were stored.          *)
THEOREM ReadsTypeCorrect == ReadSpec => []ReadTypeOK
<1>1. ReadSpec => []ReadsTyped
  BY ReadInitTyped, ReadsTypedStep, PTL DEF ReadSpec
<1> QED
  BY <1>1, ReadsTypedTypeOK, PTL

(* The samples remembered, and those of the machines of the answer *)
HistoryInv ==
  /\ request.always \subseteq request.sometime
  /\ request.pc # "idle" =>
       /\ request.always \subseteq machineSample /\ machineSample \subseteq request.sometime
       /\ request.ask.kind # "pages" /\ ~request.disturbed => request.always = machineSample

LEMMA HistoryInit == ReadInit => HistoryInv
BY DEF ReadInit, NoRequest, HistoryInv

(* What every step of the request but Ask keeps *)
LEMMA KeepsHistory ==
  ASSUME ReadsTyped, RequestStep, UNCHANGED Tables
  PROVE  \/ \E a \in Asks : Ask(a)
         \/ request' = NoRequest
         \/ /\ Asked /\ request'.pc # "idle"
            /\ request'.ask = request.ask /\ request'.disturbed = request.disturbed
            /\ request'.always = request.always /\ request'.sometime = request.sometime
<1>0. request \in RequestState
  BY DEF ReadsTyped, RequestOK
<1>1. CASE ReadMachines
  BY <1>0, <1>1 DEF ReadMachines, At, Asked, RequestState
<1>2. CASE ReadOptimizations
  BY <1>0, <1>2 DEF ReadOptimizations, At, Asked, RequestState, Answer
<1>3. CASE ReadLatest
  BY <1>3, ReadLatestKeepsType DEF ReadLatest, At, Asked
<1>4. CASE ReadUsage
  BY <1>4, ReadUsageKeepsType DEF ReadUsage, At, Asked
<1>5. CASE Count
  BY <1>0, <1>5 DEF Count, At, Asked, RequestState
<1>6. CASE ReadPage
  <2>1. PICK s \in Orders(request.ask) :
          LET r == [request EXCEPT !.seen = @ \o SubSeq(s, request.offset + 1,
                                                        Min({request.offset + Limit, Len(s)}))]
          IN  request' = IF request.offset + Limit < request.total
                         THEN [r EXCEPT !.offset = @ + Limit, !.pc = "next"] ELSE Answer(r)
    BY <1>6 DEF ReadPage
  <2> DEFINE seen == request.seen \o SubSeq(s, request.offset + 1,
                                            Min({request.offset + Limit, Len(s)}))
  <2>2. request' = IF request.offset + Limit < request.total
                   THEN [[request EXCEPT !.seen = seen] EXCEPT !.offset = @ + Limit, !.pc = "next"]
                   ELSE [[request EXCEPT !.seen = seen] EXCEPT !.pc = "answered"]
    BY <1>0, <2>1 DEF Answer, RequestState
  <2> HIDE DEF seen
  <2> QED
    BY <1>0, <1>6, <2>2 DEF ReadPage, At, Asked, RequestState
<1>7. CASE NextPage
  BY <1>0, <1>7 DEF NextPage, At, Asked, RequestState
<1> QED
  BY <1>1, <1>2, <1>3, <1>4, <1>5, <1>6, <1>7 DEF RequestStep

LEMMA AskedRequest ==
  ASSUME NEW a \in Asks, Ask(a)
  PROVE  /\ request'.ask = a /\ request'.members = {} /\ request'.disturbed = FALSE
         /\ request'.always = machineSample /\ request'.sometime = machineSample
         /\ request'.offset = 0 /\ request'.seen = <<>>
         /\ request'.pc = IF a.kind = "pages" THEN "count" ELSE "machines"
BY DEF Ask, NoRequest

LEMMA HistoryStep == ReadsTyped /\ HistoryInv /\ [ReadNext]_readVars => HistoryInv'
<1> SUFFICES ASSUME ReadsTyped, HistoryInv, [ReadNext]_readVars PROVE HistoryInv'
  OBVIOUS
<1>1. CASE UNCHANGED readVars
  BY <1>1 DEF readVars, HistoryInv
<1>2. CASE RequestStep /\ UNCHANGED Tables
  <2>1. machineSample' = machineSample
    BY <1>2 DEF Tables
  <2>2. CASE \E a \in Asks : Ask(a)
    <3>1. request'.always = machineSample /\ request'.sometime = machineSample
      BY <2>2, AskedRequest
    <3> QED
      BY <2>1, <3>1 DEF HistoryInv
  <2>3. CASE request' = NoRequest
    BY <2>3 DEF HistoryInv, NoRequest
  <2>4. CASE /\ Asked /\ request'.pc # "idle"
             /\ request'.ask = request.ask /\ request'.disturbed = request.disturbed
             /\ request'.always = request.always /\ request'.sometime = request.sometime
    BY <2>1, <2>4 DEF HistoryInv, Asked
  <2> QED
    BY <1>2, <2>2, <2>3, <2>4, KeepsHistory
<1>3. CASE CommitStep
  <2>1. Observe /\ machineSample' \subseteq Sample
    BY <1>3, CommitKeepsTables DEF ReadsTyped, TablesOK
  <2>2. CASE ~Asked /\ request' = NoRequest
    BY <2>2 DEF HistoryInv, NoRequest
  <2>3. CASE Asked
    <3>0. /\ request' = [request EXCEPT !.disturbed = request'.disturbed,
                          !.always = request.always \cap machineSample',
                          !.sometime = request.sometime \cup machineSample']
          /\ request'.disturbed = (request.disturbed \/ Disturbs)
      BY <2>1, <2>3, ObserveKeepsType
    <3>1. /\ request'.always = request.always \cap machineSample'
          /\ request'.sometime = request.sometime \cup machineSample'
          /\ request'.ask = request.ask
      BY <3>0 DEF ReadsTyped, RequestOK, RequestState
    <3>2. request.ask.kind # "pages" => request'.disturbed
      BY <3>0 DEF Disturbs
    <3> QED
      BY <2>3, <3>1, <3>2 DEF HistoryInv, Asked
  <2> QED
    BY <2>1, <2>2, <2>3, ObserveKeepsType
<1> QED
  BY <1>1, <1>2, <1>3, NextIsStep

-----------------------------------------------------------------------------
(* The summary *)

Undisturbed(a) == request.ask = a /\ ~request.disturbed

SummaryInv ==
  \A a \in Asks : Undisturbed(a) =>
    /\ request.pc = "optimizations" => request.members = Members(a.key)
    /\ request.pc = "answered" /\ a.kind = "summary" =>
         /\ request.members = Members(a.key)
         /\ request.rows = [m \in request.members |-> machineOptimization[m]]

LEMMA SummaryInit == ReadInit => SummaryInv
BY DEF ReadInit, NoRequest, SummaryInv, Undisturbed

LEMMA SummaryMachines ==
  ASSUME ReadsTyped, ReadMachines, UNCHANGED Tables, NEW a \in Asks, request'.ask = a
  PROVE  /\ request'.members = Members(a.key)'
         /\ request'.members = {} => request'.rows = [m \in request'.members |-> machineOptimization[m]']
         /\ request'.pc = IF request'.members = {} THEN "answered"
                          ELSE IF a.kind = "summary" THEN "optimizations" ELSE "latest"
<1> DEFINE ids == Members(request.ask.key)
<1>1. /\ request \in RequestState /\ request.pc = "machines" /\ request.rows = <<>>
  BY DEF ReadsTyped, ReadMachines, At, RequestOK
<1>2. request' = [request EXCEPT !.members = ids, !.todo = <<"cpu", "ram", "disk">>,
         !.pc = IF ids = {} THEN "answered"
                ELSE IF request.ask.kind = "summary" THEN "optimizations" ELSE "latest"]
  BY DEF ReadMachines
<1>3. /\ request'.members = ids /\ request'.ask = request.ask /\ request'.rows = <<>>
      /\ request'.pc = IF ids = {} THEN "answered"
                       ELSE IF request.ask.kind = "summary" THEN "optimizations" ELSE "latest"
  <2> HIDE DEF ids
  <2> QED
    BY <1>1, <1>2 DEF RequestState
<1>4. Members(a.key)' = Members(a.key)
  BY DEF Tables, Members, Exists
<1>5. <<>> = [m \in {} |-> machineOptimization[m]']
  OBVIOUS
<1> QED
  BY <1>3, <1>4, <1>5

LEMMA SummaryOptimizations ==
  ASSUME ReadsTyped, SummaryInv, ReadOptimizations, UNCHANGED Tables,
         NEW a \in Asks, Undisturbed(a)'
  PROVE  /\ request'.pc = "answered" /\ request'.members = Members(a.key)'
         /\ request'.rows = [m \in request'.members |-> machineOptimization[m]']
<1> DEFINE found == {m \in request.members : machineOptimization[m] # None}
           rows == [m \in found |-> machineOptimization[m]]
<1>1. request \in RequestState /\ request.pc = "optimizations"
  BY DEF ReadsTyped, ReadOptimizations, At, RequestOK
<1>2. request' = Answer([request EXCEPT !.rows = rows])
  BY DEF ReadOptimizations
<1>3. /\ request'.pc = "answered" /\ request'.members = request.members /\ request'.rows = rows
      /\ request'.ask = request.ask /\ request'.disturbed = request.disturbed
  <2> HIDE DEF rows
  <2> QED
    BY <1>1, <1>2 DEF Answer, RequestState
<1>4. request.members = Members(a.key)
  BY <1>1, <1>3 DEF SummaryInv, Undisturbed
<1>5. found = request.members
  BY <1>4 DEF ReadsTyped, TablesOK, Members
<1>6. Members(a.key)' = Members(a.key) /\ machineOptimization' = machineOptimization
  BY DEF Tables, Members, Exists
<1> QED
  BY <1>3, <1>4, <1>5, <1>6

LEMMA SummaryStep == ReadsTyped /\ SummaryInv /\ [ReadNext]_readVars => SummaryInv'
<1> SUFFICES ASSUME ReadsTyped, SummaryInv, [ReadNext]_readVars,
                    NEW a \in Asks, Undisturbed(a)'
             PROVE  /\ request'.pc = "optimizations" => request'.members = Members(a.key)'
                    /\ request'.pc = "answered" /\ a.kind = "summary" =>
                         /\ request'.members = Members(a.key)'
                         /\ request'.rows = [m \in request'.members |-> machineOptimization[m]']
  BY DEF SummaryInv
<1>0. request'.ask = a
  BY DEF Undisturbed
<1>1. CASE UNCHANGED readVars
  <2>1. Members(a.key)' = Members(a.key) /\ machineOptimization' = machineOptimization /\ request' = request
    BY <1>1 DEF readVars, Members, Exists
  <2> QED
    BY <2>1 DEF SummaryInv, Undisturbed
<1>2. CASE RequestStep /\ UNCHANGED Tables
  <2>1. CASE ReadMachines
    BY <1>0, <1>2, <2>1, SummaryMachines
  <2>2. CASE ReadOptimizations
    BY <1>2, <2>2, SummaryOptimizations
  <2>3. CASE \E b \in Asks : Ask(b)
    BY <2>3, AskedRequest
  <2>4. CASE ReadLatest
    BY <1>0, <2>4, ReadLatestKeepsType DEF ReadsTyped, ReadLatest, At, RequestOK
  <2>5. CASE ReadUsage
    BY <1>0, <2>5, ReadUsageKeepsType DEF ReadsTyped, ReadUsage, At, RequestOK
  <2>6. CASE Count
    BY <2>6, CountKeepsType
  <2>7. CASE ReadPage
    BY <1>0, <2>7, ReadPageKeepsType DEF ReadsTyped, ReadPage, At, RequestOK
  <2>8. CASE NextPage
    BY <2>8, NextPageKeepsType DEF NoRequest
  <2> QED
    BY <1>2, <2>1, <2>2, <2>3, <2>4, <2>5, <2>6, <2>7, <2>8 DEF RequestStep
<1>3. CASE CommitStep
  <2>1. Observe /\ machineSample' \subseteq Sample
    BY <1>3, CommitKeepsTables DEF ReadsTyped, TablesOK
  <2>2. CASE request' = NoRequest
    BY <2>2 DEF NoRequest
  <2>3. CASE Asked
    <3>0. /\ request' = [request EXCEPT !.disturbed = request'.disturbed,
                          !.always = request.always \cap machineSample',
                          !.sometime = request.sometime \cup machineSample']
          /\ request'.disturbed = (request.disturbed \/ Disturbs)
      BY <2>1, <2>3, ObserveKeepsType
    <3>1. request'.ask = request.ask /\ request'.pc = request.pc
      BY <3>0 DEF ReadsTyped, RequestOK, RequestState
    <3>2. request.ask.kind = "pages"
      BY <3>0 DEF Disturbs, Undisturbed
    <3> QED
      BY <2>3, <3>1, <3>2 DEF ReadsTyped, RequestOK, Asked
  <2> QED
    BY <2>1, <2>2, <2>3, ObserveKeepsType
<1> QED
  BY <1>1, <1>2, <1>3, NextIsStep

LEMMA AggregateStatus == \A ds : Aggregate(ds)[1] \in {"error", "partial", "ready"}
<1> TAKE ds
<1> DEFINE ok == {d \in ds : d.status = "ok"}
           ambiguous == \E d \in ds : d.status = "ambiguous_provider"
<1>1. CASE ambiguous
  BY <1>1 DEF Aggregate
<1>2. CASE ~ambiguous /\ ok = {}
  BY <1>2 DEF Aggregate
<1>3. CASE ~ambiguous /\ ok # {} /\ ok # ds
  BY <1>3 DEF Aggregate
<1>4. CASE ~ambiguous /\ ok # {} /\ ok = ds
  BY <1>4 DEF Aggregate
<1> QED
  BY <1>1, <1>2, <1>3, <1>4

(* A summary of high confidence is of rows that are all decided in every scope. *)
LEMMA HighIsDecided ==
  ASSUME NEW M \in SUBSET Machine, NEW rows \in [M -> StoredRows], Confidence(rows) = "high"
  PROVE  /\ M # {}
         /\ \A m \in M, s \in Scope :
              rows[m].current[s] \in Nat /\ rows[m].decision[s].target \in Nat
<1> DEFINE statuses == {StatusOf(rows[m]) : m \in DOMAIN rows}
<1>1. DOMAIN rows = M
  OBVIOUS
<1>2. statuses # {} /\ "error" \notin statuses /\ "partial" \notin statuses
  <2>1. CASE statuses = {}
    BY <2>1 DEF Confidence
  <2>2. CASE statuses # {} /\ "error" \in statuses
    BY <2>2 DEF Confidence
  <2>3. CASE statuses # {} /\ "error" \notin statuses /\ "partial" \in statuses
    BY <2>3 DEF Confidence
  <2> QED
    BY <2>1, <2>2, <2>3
<1>3. ASSUME NEW m \in M, NEW s \in Scope
      PROVE  rows[m].current[s] \in Nat /\ rows[m].decision[s].target \in Nat
  <2> DEFINE ds == {rows[m].decision[z] : z \in Scope}
  <2>1. StatusOf(rows[m]) \in statuses /\ StatusOf(rows[m]) = Aggregate(ds)[1]
    BY <1>1 DEF StatusOf
  <2> HIDE DEF statuses, ds
  <2>2. Aggregate(ds)[1] = "ready"
    BY <1>2, <2>1, AggregateStatus
  <2>3. \A d \in ds : d.status = "ok"
    BY <2>2, ReadyIsAllOk
  <2>4. rows[m].decision[s].status = "ok"
    BY <2>3 DEF ds
  <2>5. rows[m] \in StoredRows
    OBVIOUS
  <2> QED
    BY <2>4, <2>5, StoredRowType
<1> QED
  BY <1>1, <1>2, <1>3

(* Where all is known a total is the sum over the rows. *)
LEMMA TotalOfAll ==
  ASSUME NEW values, DOMAIN values # {}, \A m \in DOMAIN values : values[m] # None
  PROVE  SumOfKnown(values) = SumFunctionOnSet(values, DOMAIN values)
<1>1. {m \in DOMAIN values : values[m] # None} = DOMAIN values
  OBVIOUS
<1> QED
  BY <1>1 DEF SumOfKnown

LEMMA NoneIsNoNumber == \A n \in Int : n # None
BY SettingsAssumption

LEMMA DeltaOfDecided ==
  ASSUME NEW M \in SUBSET Machine, NEW rows \in [M -> StoredRows], M # {}, NEW s \in Scope,
         \A m \in M : rows[m].current[s] \in Nat /\ rows[m].decision[s].target \in Nat
  PROVE  Delta(rows, s) = SumFunction([m \in DOMAIN rows |-> rows[m].decision[s].target - rows[m].current[s]])
<1> DEFINE current == [m \in DOMAIN rows |-> rows[m].current[s]]
           target == [m \in DOMAIN rows |-> rows[m].decision[s].target]
           diff == [m \in DOMAIN rows |-> rows[m].decision[s].target - rows[m].current[s]]
<1>0. DOMAIN rows = M
  OBVIOUS
<1>1. /\ DOMAIN current = M /\ DOMAIN target = M /\ DOMAIN diff = M
      /\ \A m \in M : current[m] \in Int /\ target[m] \in Int /\ diff[m] = target[m] - current[m]
  BY <1>0
<1>2. CurrentTotal(rows, s) = SumOfKnown(current) /\ RecommendedTotal(rows, s) = SumOfKnown(target)
  BY DEF CurrentTotal, RecommendedTotal
<1>3. SumFunction(diff) = SumFunctionOnSet(diff, M)
  BY <1>1 DEF SumFunction
<1> HIDE DEF current, target, diff
<1>4. SumOfKnown(current) = SumFunctionOnSet(current, M)
  BY <1>1, NoneIsNoNumber, TotalOfAll
<1>5. SumOfKnown(target) = SumFunctionOnSet(target, M)
  BY <1>1, NoneIsNoNumber, TotalOfAll
<1>6. IsFiniteSet(M)
  BY ReadsAssumption, FS_Subset
<1>7. /\ SumFunctionOnSet(target, M) \in Int /\ SumFunctionOnSet(current, M) \in Int
      /\ SumFunctionOnSet(diff, M) = SumFunctionOnSet(target, M) - SumFunctionOnSet(current, M)
  <2>1. \A m \in M : target[m] \in Int /\ current[m] \in Int /\ diff[m] = target[m] - current[m]
    BY ONLY <1>1
  <2> QED
    BY ONLY <1>6, <2>1, SumOfDifferences
<1>8. CurrentTotal(rows, s) # None /\ RecommendedTotal(rows, s) # None
  BY <1>2, <1>4, <1>5, <1>7, NoneIsNoNumber
<1>9. Delta(rows, s) = RecommendedTotal(rows, s) - CurrentTotal(rows, s)
  BY <1>8 DEF Delta
<1>10. Delta(rows, s) = SumFunction(diff)
  BY <1>2, <1>3, <1>4, <1>5, <1>7, <1>9
<1> QED
  BY <1>10 DEF diff

LEMMA SoundSummary == ReadsTyped /\ SummaryInv => SummaryIsSound
<1> SUFFICES ASSUME ReadsTyped, SummaryInv, Answered("summary")
             PROVE  LET rows == request.rows
                    IN  /\ DOMAIN rows \subseteq request.members
                        /\ Confidence(rows) = "high" =>
                             \A s \in Scope :
                               /\ \A m \in DOMAIN rows :
                                    rows[m].current[s] # None /\ rows[m].decision[s].target # None
                               /\ Delta(rows, s) =
                                    SumFunction([m \in DOMAIN rows |->
                                                   rows[m].decision[s].target - rows[m].current[s]])
                        /\ ~request.disturbed =>
                             /\ request.members = Members(request.ask.key)
                             /\ rows = [m \in request.members |-> machineOptimization[m]]
  BY DEF SummaryIsSound
<1>1. /\ request.pc = "answered" /\ request.ask.kind = "summary"
      /\ request.ask \in Asks /\ DOMAIN request.rows \subseteq request.members
      /\ request \in RequestState
  BY DEF Answered, At, ReadsTyped, RequestOK
<1>2. PICK M \in SUBSET Machine : request.rows \in [M -> StoredRows]
  BY <1>1 DEF RequestState
<1>3. DOMAIN request.rows = M
  BY <1>2
<1>4. ASSUME Confidence(request.rows) = "high", NEW s \in Scope
      PROVE  /\ \A m \in DOMAIN request.rows :
                  request.rows[m].current[s] # None /\ request.rows[m].decision[s].target # None
             /\ Delta(request.rows, s) =
                  SumFunction([m \in DOMAIN request.rows |->
                                 request.rows[m].decision[s].target - request.rows[m].current[s]])
  <2>1. /\ M # {}
        /\ \A m \in M : request.rows[m].current[s] \in Nat /\ request.rows[m].decision[s].target \in Nat
    BY <1>2, <1>4, HighIsDecided
  <2>2. \A m \in DOMAIN request.rows :
          request.rows[m].current[s] # None /\ request.rows[m].decision[s].target # None
    BY <1>3, <2>1, NoneIsNoNumber
  <2>3. Delta(request.rows, s) =
          SumFunction([m \in DOMAIN request.rows |->
                         request.rows[m].decision[s].target - request.rows[m].current[s]])
    BY <1>2, <2>1, DeltaOfDecided
  <2> QED
    BY <2>2, <2>3
<1>5. ~request.disturbed => /\ request.members = Members(request.ask.key)
                            /\ request.rows = [m \in request.members |-> machineOptimization[m]]
  BY <1>1 DEF SummaryInv, Undisturbed
<1> QED
  BY <1>1, <1>4, <1>5

(* Every summary of high confidence sums the capacities and the recommendations *)
(* of the same machines in every scope, however the statements before it were   *)
(* interleaved with commits; undisturbed it is of the application as it is.     *)
THEOREM SummariesAreSound == ReadSpec => []SummaryIsSound
<1>1. ReadInit => ReadsTyped /\ SummaryInv
  BY ReadInitTyped, SummaryInit
<1>2. (ReadsTyped /\ SummaryInv) /\ [ReadNext]_readVars => (ReadsTyped /\ SummaryInv)'
  BY ReadsTypedStep, SummaryStep
<1> QED
  BY <1>1, <1>2, SoundSummary, PTL DEF ReadSpec

(* The samples of the machines of the answer that were stored all the time *)
StoredThroughout == {x \in request.always : x.machine \in request.members}

(* Between the statements: the end is the latest day found so far, then the samples of *)
(* the scopes that were read are in the figures.                                       *)
StatsInv ==
  /\ request.pc = "latest" =>
       /\ request.usage = {}
       /\ \A x \in StoredThroughout :
            x.scope \notin ToSet(request.todo) => request.end # None /\ x.day <= request.end
       /\ request.end # None /\ ~request.disturbed => \E x \in StoredThroughout : x.day = request.end
  /\ request.pc = "usage" =>
       /\ request.end # None
       /\ \A x \in StoredThroughout : x.day <= request.end
       /\ \A x \in StoredThroughout :
            x.scope \notin ToSet(request.todo) /\ request.end - WindowDays < x.day => x \in request.usage
       /\ ~request.disturbed => \E x \in StoredThroughout : x.day = request.end
  /\ StatsAreOfOneWindow

LEMMA NotStats ==
  ASSUME request.pc \notin {"latest", "usage", "answered"}
  PROVE  StatsInv
BY DEF StatsInv, StatsAreOfOneWindow, Answered, At

LEMMA StatsMachines ==
  ASSUME ReadsTyped, ReadMachines
  PROVE  StatsInv'
<1> DEFINE ids == Members(request.ask.key)
<1>1. /\ request \in RequestState /\ request.pc = "machines"
      /\ request.end = None /\ request.usage = {}
  BY DEF ReadsTyped, ReadMachines, At, RequestOK
<1>2. request' = [request EXCEPT !.members = ids, !.todo = <<"cpu", "ram", "disk">>,
         !.pc = IF ids = {} THEN "answered"
                ELSE IF request.ask.kind = "summary" THEN "optimizations" ELSE "latest"]
  BY DEF ReadMachines
<1>3. /\ request'.members = ids /\ request'.end = None /\ request'.usage = {}
      /\ request'.always = request.always /\ request'.todo = <<"cpu", "ram", "disk">>
      /\ request'.pc \in {"answered", "optimizations", "latest"}
      /\ request'.pc = "answered" => ids = {}
  <2> HIDE DEF ids
  <2> QED
    BY <1>1, <1>2 DEF RequestState
<1> HIDE DEF ids
<1>4. request.always \subseteq Sample
  BY <1>1 DEF RequestState
<1>5. ToSet(<<"cpu", "ram", "disk">>) = Scope
  BY TodoStep DEF Remaining
<1>6. \A x \in StoredThroughout' : x.scope \in ToSet(request'.todo)
  BY <1>3, <1>4, <1>5 DEF StoredThroughout, Sample
<1>7. CASE request'.pc = "answered"
  BY <1>3, <1>7 DEF StatsInv, StatsAreOfOneWindow, Answered, At
<1>8. CASE request'.pc = "latest"
  BY <1>3, <1>6, <1>8 DEF StatsInv, StatsAreOfOneWindow, Answered, At
<1>9. CASE request'.pc = "optimizations"
  BY <1>9 DEF StatsInv, StatsAreOfOneWindow, Answered, At
<1> QED
  BY <1>3, <1>7, <1>8, <1>9

LEMMA StatsLatest ==
  ASSUME ReadsTyped, HistoryInv, StatsInv, ReadLatest
  PROVE  StatsInv'
<1> DEFINE s == Head(request.todo)
           known == Days(s) \cup ({request.end} \ {None})
<1>1. /\ request \in RequestState /\ request.pc = "latest" /\ request.ask.kind = "stats"
      /\ request.todo \in Remaining /\ request.todo # <<>>
  BY DEF ReadsTyped, ReadLatest, At, RequestOK, RequestState
<1>2. ToSet(request.todo) = {s} \cup ToSet(Tail(request.todo)) /\ ToSet(<<>>) = {}
      /\ ToSet(<<"cpu", "ram", "disk">>) = Scope
  BY <1>1, TodoStep
<1>3. /\ known \subseteq Day
      /\ known = {} <=> Latest(known) = None
      /\ known # {} => Latest(known) \in known /\ \A d \in known : d <= Latest(known)
  BY LatestType
<1>4. /\ request'.ask = request.ask /\ request'.members = request.members
      /\ request'.usage = request.usage /\ request'.disturbed = request.disturbed
      /\ request'.always = request.always /\ request'.sometime = request.sometime
      /\ request'.end = Latest(known)
      /\ \/ /\ Tail(request.todo) # <<>> /\ request'.pc = "latest"
            /\ request'.todo = Tail(request.todo)
         \/ Tail(request.todo) = <<>> /\ known = {} /\ request'.pc = "answered"
         \/ /\ Tail(request.todo) = <<>> /\ known # {} /\ request'.pc = "usage"
            /\ request'.todo = <<"cpu", "ram", "disk">>
  BY ReadLatestKeepsType
<1>5. StoredThroughout' = StoredThroughout
  BY <1>4 DEF StoredThroughout
<1>6. request.usage = {}
  BY <1>1 DEF StatsInv
<1>7. ASSUME NEW x \in StoredThroughout, x.scope = s \/ x.scope \notin ToSet(request.todo)
      PROVE  known # {} /\ x.day <= Latest(known)
  <2>1. x \in machineSample /\ x.machine \in request.members /\ x \in Sample
    BY <1>1, <1>7 DEF HistoryInv, StoredThroughout, ReadsTyped, TablesOK
  <2>2. CASE x.scope = s
    <3>1. x.day \in known
      BY <2>1, <2>2 DEF Days
    <3> QED
      BY <1>3, <3>1
  <2>3. CASE x.scope \notin ToSet(request.todo)
    <3>1. request.end # None /\ x.day <= request.end
      BY <1>1, <1>7, <2>3 DEF StatsInv
    <3>2. request.end \in known
      BY <3>1
    <3>3. request.end <= Latest(known) /\ Latest(known) \in known
      BY <1>3, <3>2
    <3>4. request.end \in Nat /\ Latest(known) \in Nat /\ x.day \in Nat
      BY <1>3, <2>1, <3>2, <3>3, DayType DEF Sample
    <3> QED
      BY <3>1, <3>2, <3>3, <3>4
  <2> QED
    BY <1>7, <2>2, <2>3
<1>8. ASSUME known # {}, ~request.disturbed
      PROVE  \E x \in StoredThroughout : x.day = Latest(known)
  <2>1. Latest(known) \in known
    BY <1>3, <1>8
  <2>2. CASE Latest(known) \in Days(s)
    <3>1. PICK y \in machineSample : y.machine \in request.members /\ y.day = Latest(known)
      BY <2>2 DEF Days
    <3>2. machineSample = request.always
      BY <1>1, <1>8 DEF HistoryInv
    <3>3. y \in StoredThroughout
      BY <3>1, <3>2 DEF StoredThroughout
    <3> QED
      BY <3>1, <3>3
  <2>3. CASE Latest(known) = request.end /\ request.end # None
    <3>1. \E x \in StoredThroughout : x.day = request.end
      BY <1>1, <1>8, <2>3 DEF StatsInv
    <3> QED
      BY <2>3, <3>1
  <2> QED
    BY <2>1, <2>2, <2>3
<1> HIDE DEF known, s
<1>9. CASE Tail(request.todo) # <<>> /\ request'.pc = "latest"
  <2>1. request'.todo = Tail(request.todo)
    BY <1>4, <1>9
  <2>2. \A x \in StoredThroughout' : x.scope \notin ToSet(request'.todo)
          => request'.end # None /\ x.day <= request'.end
    BY <1>2, <1>3, <1>4, <1>5, <1>7, <2>1
  <2>3. request'.end # None /\ ~request'.disturbed => \E x \in StoredThroughout' : x.day = request'.end
    BY <1>3, <1>4, <1>5, <1>8
  <2> QED
    BY <1>4, <1>6, <1>9, <2>2, <2>3 DEF StatsInv, StatsAreOfOneWindow, Answered, At
<1>10. CASE Tail(request.todo) = <<>>
  <2>1. \A x \in StoredThroughout : x.scope = s \/ x.scope \notin ToSet(request.todo)
    BY <1>2, <1>10
  <2>2. \A x \in StoredThroughout : known # {} /\ x.day <= Latest(known)
    BY <1>7, <2>1
  <2>3. CASE known = {}
    <3>1. StoredThroughout' = {} /\ request'.pc = "answered" /\ request'.end = None /\ request'.usage = {}
      BY <1>3, <1>4, <1>5, <1>6, <1>10, <2>2, <2>3
    <3> QED
      BY <3>1 DEF StatsInv, StatsAreOfOneWindow, StoredThroughout, Answered, At
  <2>4. CASE known # {}
    <3>1. /\ request'.pc = "usage" /\ request'.todo = <<"cpu", "ram", "disk">>
          /\ request'.end # None /\ request'.usage = {}
      BY <1>3, <1>4, <1>6, <1>10, <2>4
    <3>2. \A x \in StoredThroughout' : x.day <= request'.end
      BY <1>4, <1>5, <2>2
    <3>3. \A x \in StoredThroughout' : x.scope \in ToSet(request'.todo)
      BY <1>1, <1>2, <1>5, <3>1 DEF StoredThroughout, RequestState, Sample
    <3>4. ~request'.disturbed => \E x \in StoredThroughout' : x.day = request'.end
      BY <1>4, <1>5, <1>8, <2>4
    <3> QED
      BY <3>1, <3>2, <3>3, <3>4 DEF StatsInv, StatsAreOfOneWindow, Answered, At
  <2> QED
    BY <2>3, <2>4
<1> QED
  BY <1>4, <1>9, <1>10

LEMMA StatsUsage ==
  ASSUME ReadsTyped, HistoryInv, StatsInv, ReadUsage
  PROVE  StatsInv'
<1> DEFINE s == Head(request.todo)
<1>1. /\ request \in RequestState /\ request.pc = "usage" /\ request.ask.kind = "stats"
      /\ request.todo \in Remaining /\ request.todo # <<>>
  BY DEF ReadsTyped, ReadUsage, At, RequestOK, RequestState
<1>2. ToSet(request.todo) = {s} \cup ToSet(Tail(request.todo)) /\ ToSet(<<>>) = {}
  BY <1>1, TodoStep
<1>3. /\ request'.ask = request.ask /\ request'.members = request.members
      /\ request'.end = request.end /\ request'.disturbed = request.disturbed
      /\ request'.always = request.always /\ request'.sometime = request.sometime
      /\ request'.usage = request.usage \cup Usage(s)
      /\ request'.todo = Tail(request.todo)
      /\ request'.pc = IF Tail(request.todo) = <<>> THEN "answered" ELSE "usage"
  BY ReadUsageKeepsType
<1>4. StoredThroughout' = StoredThroughout
  BY <1>3 DEF StoredThroughout
<1>5. /\ request.end # None
      /\ \A x \in StoredThroughout : x.day <= request.end
      /\ \A x \in StoredThroughout :
           x.scope \notin ToSet(request.todo) /\ request.end - WindowDays < x.day => x \in request.usage
      /\ ~request.disturbed => \E x \in StoredThroughout : x.day = request.end
  BY <1>1 DEF StatsInv
<1>6. ASSUME NEW x \in request'.usage
      PROVE  /\ x.machine \in request'.members /\ x \in request'.sometime
             /\ request'.end - WindowDays < x.day /\ x.day <= request'.end
  <2>1. CASE x \in request.usage
    BY <1>1, <1>3, <2>1 DEF StatsInv, StatsAreOfOneWindow, At
  <2>2. CASE x \in Usage(s)
    BY <1>1, <1>3, <2>2 DEF Usage, HistoryInv
  <2> QED
    BY <1>3, <1>6, <2>1, <2>2
<1>7. ASSUME NEW x \in StoredThroughout', x.scope \notin ToSet(request'.todo),
             request'.end - WindowDays < x.day
      PROVE  x \in request'.usage
  <2>1. x \in machineSample /\ x.machine \in request.members /\ x.day <= request.end
    BY <1>1, <1>4, <1>5, <1>7 DEF HistoryInv, StoredThroughout
  <2>2. CASE x.scope = s
    BY <1>3, <1>7, <2>1, <2>2 DEF Usage
  <2>3. CASE x.scope # s
    BY <1>2, <1>3, <1>4, <1>5, <1>7, <2>3
  <2> QED
    BY <2>2, <2>3
<1>8. CASE Tail(request.todo) # <<>>
  BY <1>3, <1>4, <1>5, <1>6, <1>7, <1>8 DEF StatsInv, StatsAreOfOneWindow, Answered, At
<1>9. CASE Tail(request.todo) = <<>>
  <2>1. request'.pc = "answered" /\ ToSet(request'.todo) = {}
    BY <1>2, <1>3, <1>9
  <2>2. \A x \in StoredThroughout' : /\ request'.end # None /\ x.day <= request'.end
                                     /\ request'.end - WindowDays < x.day => x \in request'.usage
    BY <1>3, <1>4, <1>5, <1>7, <2>1
  <2>3. ASSUME ~request'.disturbed PROVE \E x \in request'.usage : x.day = request'.end
    <3>1. PICK x \in StoredThroughout' : x.day = request'.end
      BY <1>3, <1>4, <1>5, <2>3
    <3>2. request'.end \in Nat
      BY <1>1, <1>3, <1>5, DayType DEF RequestState
    <3>3. request'.end - WindowDays < x.day
      BY <3>1, <3>2, DayType
    <3> QED
      BY <2>2, <3>1, <3>3
  <2> QED
    BY <1>6, <2>1, <2>2, <2>3 DEF StatsInv, StatsAreOfOneWindow, StoredThroughout, Answered, At
<1> QED
  BY <1>8, <1>9

(* A commit takes samples from those stored throughout and adds none. *)
LEMMA StatsObserve ==
  ASSUME ReadsTyped, StatsInv, Observe, machineSample' \subseteq Sample
  PROVE  StatsInv'
<1>1. CASE request' = NoRequest
  BY <1>1 DEF StatsInv, StatsAreOfOneWindow, Answered, At, NoRequest
<1>2. CASE Asked
  <2>0. /\ request' = [request EXCEPT !.disturbed = request'.disturbed,
                        !.always = request.always \cap machineSample',
                        !.sometime = request.sometime \cup machineSample']
        /\ request'.disturbed = (request.disturbed \/ Disturbs)
    BY <1>2, ObserveKeepsType
  <2>1. /\ request'.always = request.always \cap machineSample'
        /\ request'.sometime = request.sometime \cup machineSample'
        /\ request'.ask = request.ask /\ request'.pc = request.pc /\ request'.members = request.members
        /\ request'.usage = request.usage /\ request'.end = request.end /\ request'.todo = request.todo
    BY <2>0 DEF ReadsTyped, RequestOK, RequestState
  <2>2. StoredThroughout' \subseteq StoredThroughout
    BY <2>1 DEF StoredThroughout
  <2>3. request.pc \in {"latest", "usage"} => request'.disturbed
    BY <2>0 DEF Disturbs, ReadsTyped, RequestOK
  <2>4. CASE request.pc = "latest"
    BY <2>1, <2>2, <2>3, <2>4 DEF StatsInv, StatsAreOfOneWindow, Answered, At
  <2>5. CASE request.pc = "usage"
    BY <2>1, <2>2, <2>3, <2>5 DEF StatsInv, StatsAreOfOneWindow, Answered, At
  <2>6. CASE request.pc \notin {"latest", "usage"}
    BY <1>2, <2>1, <2>6 DEF StatsInv, StatsAreOfOneWindow, Answered, At, Asked
  <2> QED
    BY <2>4, <2>5, <2>6
<1> QED
  BY <1>1, <1>2, ObserveKeepsType

LEMMA StatsInit == ReadInit => StatsInv
BY NotStats DEF ReadInit, NoRequest

(* A step of a request of another kind *)
LEMMA StatsElsewhere ==
  ASSUME request'.pc \notin {"latest", "usage"}, request'.pc = "answered" => request'.ask.kind # "stats"
  PROVE  StatsInv'
BY DEF StatsInv, StatsAreOfOneWindow, Answered, At

LEMMA StatsStep == ReadsTyped /\ HistoryInv /\ StatsInv /\ [ReadNext]_readVars => StatsInv'
<1> SUFFICES ASSUME ReadsTyped, HistoryInv, StatsInv, [ReadNext]_readVars PROVE StatsInv'
  OBVIOUS
<1>1. CASE UNCHANGED readVars
  <2>1. request' = request
    BY <1>1 DEF readVars
  <2> QED
    BY <2>1 DEF StatsInv, StatsAreOfOneWindow, StoredThroughout, Answered, At
<1>2. CASE RequestStep /\ UNCHANGED Tables
  <2>1. CASE \E a \in Asks : Ask(a)
    BY <2>1, AskedRequest, StatsElsewhere
  <2>2. CASE ReadOptimizations
    <3>1. /\ request \in RequestState /\ request.ask.kind = "summary"
          /\ request' = Answer([request EXCEPT !.rows =
               [m \in {n \in request.members : machineOptimization[n] # None} |-> machineOptimization[m]]])
      BY <2>2 DEF ReadsTyped, ReadOptimizations, At, RequestOK
    <3>2. request'.pc = "answered" /\ request'.ask = request.ask
      BY <3>1 DEF Answer, RequestState
    <3> QED
      BY <3>1, <3>2, StatsElsewhere
  <2>3. CASE Count
    BY <2>3, CountKeepsType, StatsElsewhere
  <2>4. CASE ReadPage
    BY <2>4, ReadPageKeepsType, StatsElsewhere DEF ReadsTyped, ReadPage, At, RequestOK
  <2>5. CASE NextPage
    BY <2>5, NextPageKeepsType, StatsElsewhere DEF NoRequest
  <2> QED
    BY <1>2, <2>1, <2>2, <2>3, <2>4, <2>5, StatsMachines, StatsLatest, StatsUsage DEF RequestStep
<1>3. CASE CommitStep
  BY <1>3, CommitKeepsTables, StatsObserve DEF ReadsTyped, TablesOK
<1> QED
  BY <1>1, <1>2, <1>3, NextIsStep

(* Stats are of one window whose end no sample that was stored all the time  *)
(* exceeds, and contain all of that window's, whatever is committed between  *)
(* the seven statements.                                                     *)
THEOREM StatsOfOneWindow == ReadSpec => []StatsAreOfOneWindow
<1>1. ReadInit => ReadsTyped /\ HistoryInv /\ StatsInv
  BY ReadInitTyped, HistoryInit, StatsInit
<1>2. (ReadsTyped /\ HistoryInv /\ StatsInv) /\ [ReadNext]_readVars
        => (ReadsTyped /\ HistoryInv /\ StatsInv)'
  BY ReadsTypedStep, HistoryStep, StatsStep
<1>3. StatsInv => StatsAreOfOneWindow
  BY DEF StatsInv
<1> QED
  BY <1>1, <1>2, <1>3, PTL DEF ReadSpec

(* The orders of the listings leave no ties. *)
LEMMA BeforeIsTotal ==
  ASSUME TablesOK, NEW a \in Asks, a.kind = "pages", NEW x \in Listed(a), NEW y \in Listed(a), x # y
  PROVE  Before(a.listing, x, y) \/ Before(a.listing, y, x)
<1>1. a.listing \in Listings
  BY AsksAssumption
<1>2. CASE a.listing = "applications"
  <2>1. x \in Key /\ y \in Key
    BY <1>2 DEF Listed, Applications, TablesOK
  <2>2. Rank[x] \in Int /\ Rank[y] \in Int /\ Rank[x] # Rank[y]
    BY <2>1, ReadsAssumption
  <2> QED
    BY <1>2, <2>2 DEF Before, ByKey
<1>3. CASE a.listing = "machines"
  <2>1. x \in Machine /\ y \in Machine
    BY <1>3 DEF Listed, Machines
  <2>2. x \in Nat /\ y \in Nat /\ Hostname[x] \in Int /\ Hostname[y] \in Int
    BY <2>1, ReadsAssumption
  <2> QED
    BY <1>3, <2>2 DEF Before, ByHostname
<1>4. CASE a.listing = "optimizations"
  <2>1. /\ x \in Machine /\ y \in Machine
        /\ machineOptimization[x] # None /\ machineOptimization[y] # None
    BY <1>4 DEF Listed, Optimizations, Machines
  <2>2. machineOptimization[x] \in Optimization /\ machineOptimization[y] \in Optimization
    BY <2>1, StoredRowType DEF TablesOK
  <2>3. /\ x \in Nat /\ y \in Nat
        /\ machineOptimization[x].computed \in Nat /\ machineOptimization[y].computed \in Nat
    BY <2>1, <2>2, ReadsAssumption DEF Optimization
  <2> QED
    BY <1>4, <2>3 DEF Before, ByComputation
<1>5. CASE a.listing = "metrics"
  <2>1. x \in Sample /\ y \in Sample /\ x.scope = "cpu" /\ y.scope = "cpu"
    BY <1>5 DEF Listed, Metrics, TablesOK
  <2>2. x.day # y.day \/ x.machine # y.machine
    BY <2>1 DEF Sample
  <2>3. x.day \in Nat /\ y.day \in Nat /\ x.machine \in Nat /\ y.machine \in Nat
    BY <2>1, ReadsAssumption DEF Sample
  <2> QED
    BY <1>5, <2>2, <2>3 DEF Before, ByDate
<1> QED
  BY <1>1, <1>2, <1>3, <1>4, <1>5 DEF Listings

(* s enumerates the n elements of L in the order R. *)
Sorts(s, n, L, R) ==
  /\ s \in [1..n -> L]
  /\ \A i, j \in 1..n : i # j => s[i] # s[j]
  /\ \A x \in L : \E i \in 1..n : s[i] = x
  /\ \A i, j \in 1..n : i < j => <<s[j], s[i]>> \notin R

(* In an order without ties two enumerations cannot differ at a first place. *)
LEMMA SortedIsUnique ==
  ASSUME NEW L, NEW n \in Nat, NEW R, \A x, y \in L : x # y => <<x, y>> \in R \/ <<y, x>> \in R,
         NEW s, NEW t, Sorts(s, n, L, R), Sorts(t, n, L, R)
  PROVE  s = t
<1>0. s \in [1..n -> L] /\ t \in [1..n -> L]
  BY DEF Sorts
<1> DEFINE differ == {i \in 1..n : s[i] # t[i]}
<1>1. SUFFICES ASSUME differ # {} PROVE FALSE
  <2>1. \A i \in 1..n : s[i] = t[i]
    BY <1>1
  <2> QED
    BY <1>0, <2>1
<1>2. PICK i \in differ : \A j \in differ : ~(<<j, i>> \in OpToRel(<, Nat))
  <2>1. differ \subseteq Nat
    OBVIOUS
  <2> HIDE DEF differ
  <2> QED
    BY <1>1, <2>1, NatLessThanWellFounded, WFMin
<1>3. i \in 1..n /\ s[i] # t[i] /\ s[i] \in L /\ t[i] \in L
  BY <1>0
<1>4. ASSUME NEW j \in 1..n, j < i PROVE s[j] = t[j]
  <2>1. j \in Nat /\ i \in Nat
    BY <1>3
  <2>2. <<j, i>> \in OpToRel(<, Nat)
    BY ONLY <1>4, <2>1 DEF OpToRel
  <2> QED
    BY <1>2, <2>2
<1>5. PICK j \in 1..n : s[j] = t[i]
  BY <1>3 DEF Sorts
<1>6. PICK k \in 1..n : t[k] = s[i]
  BY <1>3 DEF Sorts
<1>7. i < j
  <2>1. j # i
    BY <1>3, <1>5
  <2>2. ASSUME j < i PROVE FALSE
    <3>1. t[j] = t[i]
      BY <1>4, <1>5, <2>2
    <3> QED
      BY <1>3, <2>1, <3>1 DEF Sorts
  <2> QED
    BY <1>3, <2>1, <2>2
<1>8. i < k
  <2>1. k # i
    BY <1>3, <1>6
  <2>2. ASSUME k < i PROVE FALSE
    <3>1. s[k] = s[i]
      BY <1>4, <1>6, <2>2
    <3> QED
      BY <1>3, <2>1, <3>1 DEF Sorts
  <2> QED
    BY <1>3, <2>1, <2>2
<1>9. <<t[i], s[i]>> \notin R /\ <<s[i], t[i]>> \notin R
  BY <1>3, <1>5, <1>6, <1>7, <1>8 DEF Sorts
<1> QED
  BY <1>3, <1>9

(* Hence the database has one order to return. *)
LEMMA OrderIsUnique ==
  ASSUME TablesOK, NEW a \in Asks, a.kind = "pages", NEW s \in Orders(a), NEW t \in Orders(a)
  PROVE  s = t
<1> DEFINE L == Listed(a)  n == Cardinality(L)
           R == {p \in L \X L : Before(a.listing, p[1], p[2])}
<1>1. /\ n \in Nat
      /\ s \in [1..n -> L] /\ t \in [1..n -> L]
      /\ \A i, j \in 1..n : i # j => s[i] # s[j]
      /\ \A i, j \in 1..n : i # j => t[i] # t[j]
      /\ \A x \in L : \E i \in 1..n : s[i] = x
      /\ \A x \in L : \E i \in 1..n : t[i] = x
  BY OrdersEnumerate
<1>2. /\ \A i, j \in 1..n : i < j => ~Before(a.listing, s[j], s[i])
      /\ \A i, j \in 1..n : i < j => ~Before(a.listing, t[j], t[i])
  <2>1. DOMAIN s = 1..n /\ DOMAIN t = 1..n
    BY <1>1
  <2> QED
    BY <2>1 DEF Orders
<1>3. Sorts(s, n, L, R) /\ Sorts(t, n, L, R)
  BY <1>1, <1>2 DEF Sorts
<1>4. \A x, y \in L : x # y => <<x, y>> \in R \/ <<y, x>> \in R
  BY BeforeIsTotal
<1>5. n \in Nat
  BY <1>1
<1> HIDE DEF L, n, R
<1> QED
  BY ONLY <1>3, <1>4, <1>5, SortedIsUnique

StartsWith(s, r) == Len(r) <= Len(s) /\ \A i \in 1..Len(r) : r[i] = s[i]

(* What was read of a listing that did not move is a prefix of it. *)
PrefixRead(a) ==
  \A s \in Orders(a) : Len(request.seen) = request.offset /\ StartsWith(s, request.seen)

AllRead(a) ==
  /\ ToSet(request.seen) = Listed(a)
  /\ Len(request.seen) = request.total /\ request.total = Cardinality(Listed(a))

PagesInv ==
  \A a \in Asks : Undisturbed(a) =>
    /\ request.pc \in {"count", "page", "next"} => PrefixRead(a)
    /\ request.pc = "page" => \A s \in Orders(a) : request.total = Len(s)
    /\ request.pc = "answered" /\ a.kind = "pages" => AllRead(a)

LEMMA SamePages ==
  ASSUME NEW a, UNCHANGED Tables
  PROVE  Orders(a)' = Orders(a) /\ Listed(a)' = Listed(a)
BY DEF Tables, Orders, Listed, Applications, Machines, Optimizations, Metrics, Members, OnPlatform, Exists,
       Before, ByKey, ByHostname, ByComputation, ByDate, SetToSeqs

LEMMA PagesInit == ReadInit => PagesInv
BY DEF ReadInit, NoRequest, PagesInv, Undisturbed

LEMMA LongerPrefix ==
  ASSUME NEW S, NEW s \in Seq(S), NEW seen \in Seq(S), StartsWith(s, seen),
         NEW last \in Len(seen)..Len(s)
  PROVE  /\ seen \o SubSeq(s, Len(seen) + 1, last) \in Seq(S)
         /\ Len(seen \o SubSeq(s, Len(seen) + 1, last)) = last
         /\ StartsWith(s, seen \o SubSeq(s, Len(seen) + 1, last))
<1> DEFINE o == Len(seen)
           new == SubSeq(s, o + 1, last)
<1>1. o \in Nat /\ o + 1 \in Int /\ last \in Nat /\ o <= last /\ last <= Len(s) /\ Len(s) \in Nat
  OBVIOUS
<1>2. \A i \in o + 1 .. last : s[i] \in S
  BY <1>1
<1> HIDE DEF o
<1>3. /\ new \in Seq(S)
      /\ Len(new) = IF o + 1 <= last THEN last - (o + 1) + 1 ELSE 0
      /\ \A i \in 1 .. last - (o + 1) + 1 : new[i] = s[o + 1 + i - 1]
  BY ONLY <1>1, <1>2, SubSeqProperties
<1> HIDE DEF new
<1>4. Len(new) = last - o /\ \A i \in 1 .. last - o : new[i] = s[o + i]
  BY <1>1, <1>3 DEF o
<1>5. /\ seen \o new \in Seq(S) /\ Len(seen \o new) = o + Len(new)
      /\ \A i \in 1 .. o + Len(new) : (seen \o new)[i] = IF i <= o THEN seen[i] ELSE new[i - o]
  BY <1>3, ConcatProperties DEF o
<1>6. o + Len(new) = last
  BY <1>1, <1>4
<1>7. ASSUME NEW i \in 1..last PROVE (seen \o new)[i] = s[i]
  <2>1. CASE i <= o
    BY <1>1, <1>5, <1>6, <2>1 DEF o, StartsWith
  <2>2. CASE i > o
    <3>1. i - o \in 1 .. last - o /\ o + (i - o) = i
      BY <1>1, <2>2
    <3>2. (seen \o new)[i] = new[i - o]
      BY <1>1, <1>5, <1>6, <2>2
    <3> QED
      BY <1>4, <3>1, <3>2
  <2>3. i <= o \/ i > o
    BY ONLY <1>1, i \in 1..last
  <2> QED
    BY ONLY <2>1, <2>2, <2>3
<1> QED
  BY <1>1, <1>5, <1>6, <1>7 DEF new, o, StartsWith

(* A page more is a longer prefix; when the total is passed it is the listing. *)
LEMMA PageAdds ==
  ASSUME ReadsTyped, PagesInv, ReadPage, UNCHANGED Tables, NEW a \in Asks, Undisturbed(a)'
  PROVE  /\ request'.pc \in {"next", "answered"}
         /\ request'.pc = "next" => PrefixRead(a)'
         /\ request'.pc = "answered" => AllRead(a)'
<1>1. /\ request \in RequestState /\ request.pc = "page" /\ request.ask.kind = "pages"
      /\ request.offset \in Nat /\ request.seen \in Seq(Key \cup Machine \cup Sample)
  BY DEF ReadsTyped, ReadPage, At, RequestOK, RequestState
<1>2. /\ request'.ask = request.ask /\ request'.disturbed = request.disturbed
      /\ request'.total = request.total
  BY ReadPageKeepsType
<1>3. PICK s \in Orders(request.ask) :
        LET last == IF request.offset + Limit <= Len(s) THEN request.offset + Limit ELSE Len(s)
            new  == SubSeq(s, request.offset + 1, last)
        IN  /\ request'.seen = request.seen \o new /\ new \in Seq(Key \cup Machine \cup Sample)
            /\ \/ /\ request.offset + Limit < request.total
                  /\ request'.pc = "next" /\ request'.offset = request.offset + Limit
               \/ request.offset + Limit >= request.total /\ request'.pc = "answered"
  BY ReadPageKeepsType
<1>4. request.ask = a /\ a.kind = "pages" /\ Undisturbed(a)
  BY <1>1, <1>2 DEF Undisturbed
<1>5. /\ StartsWith(s, request.seen) /\ Len(request.seen) = request.offset
      /\ request.offset <= Len(s) /\ request.total = Len(s)
  BY <1>1, <1>3, <1>4 DEF PagesInv, PrefixRead, StartsWith
<1>6. /\ Cardinality(Listed(a)) \in Nat
      /\ s \in [1..Cardinality(Listed(a)) -> Listed(a)]
      /\ \A x \in Listed(a) : \E i \in 1..Cardinality(Listed(a)) : s[i] = x
      /\ s \in Seq(Key \cup Machine \cup Sample) /\ Len(s) = Cardinality(Listed(a))
  BY <1>3, <1>4, OrdersEnumerate DEF ReadsTyped
<1> DEFINE n == Len(s)
           last == IF request.offset + Limit <= n THEN request.offset + Limit ELSE n
           new == SubSeq(s, request.offset + 1, last)
<1>7. n \in Nat /\ Limit \in Nat \ {0} /\ last \in Nat /\ last <= n /\ request.offset <= last
  BY <1>1, <1>5, <1>6, DayType
<1>8. request'.seen = request.seen \o new /\ new \in Seq(Key \cup Machine \cup Sample)
  BY <1>3
<1> HIDE DEF last
<1>9. /\ request'.seen \in Seq(Key \cup Machine \cup Sample) /\ Len(request'.seen) = last
      /\ StartsWith(s, request'.seen)
  <2> DEFINE S == Key \cup Machine \cup Sample
  <2>1. s \in Seq(S) /\ request.seen \in Seq(S) /\ last \in Len(request.seen)..Len(s)
    BY <1>1, <1>5, <1>6, <1>7
  <2>2. request'.seen = request.seen \o SubSeq(s, Len(request.seen) + 1, last)
    BY <1>5, <1>8
  <2>3. StartsWith(s, request.seen)
    BY <1>5
  <2> HIDE DEF S
  <2> DEFINE q == request.seen
  <2> HIDE DEF q
  <2>4. s \in Seq(S) /\ q \in Seq(S) /\ last \in Len(q)..Len(s) /\ StartsWith(s, q)
    BY <2>1, <2>3 DEF q
  <2>5. /\ q \o SubSeq(s, Len(q) + 1, last) \in Seq(S)
        /\ Len(q \o SubSeq(s, Len(q) + 1, last)) = last
        /\ StartsWith(s, q \o SubSeq(s, Len(q) + 1, last))
    BY ONLY <2>4, LongerPrefix
  <2> QED
    BY <2>2, <2>5 DEF S, q
<1> HIDE DEF new
<1>10. Orders(a)' = Orders(a) /\ Listed(a)' = Listed(a)
  BY SamePages
<1>11. CASE request.offset + Limit < request.total /\ request'.pc = "next"
                /\ request'.offset = request.offset + Limit
  <2>1. last = request'.offset
    BY <1>1, <1>5, <1>6, <1>7, <1>11 DEF last
  <2>2. \A t \in Orders(a) : t = s
    BY <1>3, <1>4, OrderIsUnique DEF ReadsTyped
  <2>3. PrefixRead(a)'
    BY <1>7, <1>9, <1>10, <2>1, <2>2 DEF PrefixRead
  <2> QED
    BY <1>11, <2>3
<1>12. CASE request.offset + Limit >= request.total /\ request'.pc = "answered"
  <2>1. last = n /\ n = Cardinality(Listed(a))
    BY <1>1, <1>5, <1>6, <1>7, <1>12 DEF last
  <2>2. Len(request'.seen) = n
    BY <1>9, <2>1
  <2>3. request'.seen \in Seq(Key \cup Machine \cup Sample)
    BY <1>9
  <2>4. DOMAIN request'.seen = 1..n
    BY <2>2, <2>3
  <2>5. ToSet(request'.seen) = Listed(a)
    BY <1>6, <1>9, <2>1, <2>4 DEF ToSet, StartsWith
  <2> QED
    BY <1>2, <1>5, <1>10, <1>12, <2>1, <2>2, <2>5 DEF AllRead
<1> QED
  BY <1>3, <1>11, <1>12

LEMMA PagesStep == ReadsTyped /\ PagesInv /\ [ReadNext]_readVars => PagesInv'
<1> SUFFICES ASSUME ReadsTyped, PagesInv, [ReadNext]_readVars, NEW a \in Asks, Undisturbed(a)'
             PROVE  /\ request'.pc \in {"count", "page", "next"} => PrefixRead(a)'
                    /\ request'.pc = "page" => \A s \in Orders(a)' : request'.total = Len(s)
                    /\ request'.pc = "answered" /\ a.kind = "pages" => AllRead(a)'
  BY DEF PagesInv
<1>0. request'.ask = a /\ ~request'.disturbed
  BY DEF Undisturbed
<1>1. CASE UNCHANGED readVars
  <2>1. request' = request /\ UNCHANGED Tables
    BY <1>1 DEF readVars, Tables
  <2>2. Orders(a)' = Orders(a) /\ Listed(a)' = Listed(a)
    BY <2>1, SamePages
  <2> QED
    BY <2>1, <2>2 DEF PagesInv, PrefixRead, AllRead, Undisturbed
<1>2. CASE RequestStep /\ UNCHANGED Tables
  <2>0. Orders(a)' = Orders(a) /\ Listed(a)' = Listed(a)
    BY <1>2, SamePages
  <2>1. CASE \E b \in Asks : Ask(b)
    <3>1. a.kind = "pages" => request'.pc = "count"
      BY <1>0, <2>1, AskedRequest
    <3>2. /\ request'.offset = 0 /\ request'.seen = <<>>
          /\ request'.pc \in {"count", "machines"}
      BY <2>1, AskedRequest
    <3>3. ASSUME request'.pc = "count" PROVE PrefixRead(a)'
      <4>1. a.kind = "pages"
        BY <1>0, <2>1, <3>3, AskedRequest
      <4>2. \A s \in Orders(a) : Len(s) \in Nat
        BY <4>1, OrdersEnumerate DEF ReadsTyped
      <4> QED
        BY <2>0, <3>2, <4>2 DEF PrefixRead, StartsWith
    <3> QED
      BY <3>2, <3>3
  <2>2. CASE ReadMachines
    BY <1>0, <1>2, <2>2, SummaryMachines DEF ReadsTyped, ReadMachines, At, RequestOK
  <2>3. CASE ReadOptimizations
    <3>1. /\ request \in RequestState /\ request.ask.kind = "summary"
          /\ request' = Answer([request EXCEPT !.rows =
               [m \in {k \in request.members : machineOptimization[k] # None} |-> machineOptimization[m]]])
      BY <2>3 DEF ReadsTyped, ReadOptimizations, At, RequestOK
    <3>2. request'.pc = "answered" /\ request'.ask = request.ask
      BY <3>1 DEF Answer, RequestState
    <3> QED
      BY <1>0, <3>1, <3>2
  <2>4. CASE ReadLatest
    BY <1>0, <2>4, ReadLatestKeepsType DEF ReadsTyped, ReadLatest, At, RequestOK
  <2>5. CASE ReadUsage
    BY <1>0, <2>5, ReadUsageKeepsType DEF ReadsTyped, ReadUsage, At, RequestOK
  <2>6. CASE Count
    <3>1. /\ request'.pc = "page" /\ request'.ask = request.ask /\ request'.offset = request.offset
          /\ request'.seen = request.seen /\ request'.disturbed = request.disturbed
          /\ request'.total = Cardinality(Listed(request.ask)) /\ request.pc = "count"
      BY <2>6, CountKeepsType DEF Count, At
    <3>2. PrefixRead(a)
      BY <1>0, <3>1 DEF PagesInv, Undisturbed
    <3>3. \A s \in Orders(a) : Len(s) = Cardinality(Listed(a))
      BY <1>0, <2>6, <3>1, OrdersEnumerate DEF ReadsTyped, RequestOK
    <3> QED
      BY <1>0, <2>0, <3>1, <3>2, <3>3 DEF PrefixRead
  <2>7. CASE ReadPage
    BY <1>2, <2>7, PageAdds
  <2>8. CASE NextPage
    <3>1. CASE request' = NoRequest
      BY <3>1 DEF NoRequest
    <3>2. CASE /\ request.pc = "next" /\ request'.pc = "count" /\ request'.ask = request.ask
               /\ request'.offset = request.offset /\ request'.seen = request.seen
               /\ request'.disturbed = request.disturbed
      <4>1. PrefixRead(a)
        BY <1>0, <3>2 DEF PagesInv, Undisturbed
      <4> QED
        BY <2>0, <3>2, <4>1 DEF PrefixRead
    <3> QED
      BY <2>8, <3>1, <3>2, NextPageKeepsType
  <2> QED
    BY <1>2, <2>1, <2>2, <2>3, <2>4, <2>5, <2>6, <2>7, <2>8 DEF RequestStep
<1>3. CASE CommitStep
  <2>1. Observe /\ machineSample' \subseteq Sample
    BY <1>3, CommitKeepsTables DEF ReadsTyped, TablesOK
  <2>2. CASE request' = NoRequest
    BY <2>2 DEF NoRequest
  <2>3. CASE Asked
    <3>0. /\ request' = [request EXCEPT !.disturbed = request'.disturbed,
                          !.always = request.always \cap machineSample',
                          !.sometime = request.sometime \cup machineSample']
          /\ request'.disturbed = (request.disturbed \/ Disturbs)
      BY <2>1, <2>3, ObserveKeepsType
    <3>1. /\ request'.ask = request.ask /\ request'.pc = request.pc /\ request'.offset = request.offset
          /\ request'.seen = request.seen /\ request'.total = request.total
      BY <3>0 DEF ReadsTyped, RequestOK, RequestState
    <3>2. ~Disturbs /\ ~request.disturbed
      BY <1>0, <3>0
    <3>3. a.kind = "pages" /\ Orders(a)' = Orders(a)
      BY <1>0, <3>1, <3>2 DEF Disturbs
    <3>4. Undisturbed(a)
      BY <1>0, <3>1, <3>2 DEF Undisturbed
    <3>5. request.pc \in {"count", "page", "next"} => PrefixRead(a)
      BY <3>4 DEF PagesInv
    <3>6. request.pc \in {"count", "page", "next"} => PrefixRead(a)'
      BY <3>1, <3>3, <3>5 DEF PrefixRead
    <3>7. request.pc = "page" => \A s \in Orders(a)' : request.total = Len(s)
      BY <3>3, <3>4 DEF PagesInv
    <3> QED
      BY <2>3, <3>1, <3>6, <3>7 DEF Asked
  <2> QED
    BY <2>1, <2>2, <2>3, ObserveKeepsType
<1> QED
  BY <1>1, <1>2, <1>3, NextIsStep

(* A client that reads a listing that does not move reads each row once, for *)
(* every page size, number of rows and of equal names, dates and times.      *)
THEOREM PagesCoverRows == ReadSpec => []PagesCoverEachRow
<1>1. ReadInit => ReadsTyped /\ PagesInv
  BY ReadInitTyped, PagesInit
<1>2. (ReadsTyped /\ PagesInv) /\ [ReadNext]_readVars => (ReadsTyped /\ PagesInv)'
  BY ReadsTypedStep, PagesStep
<1>3. ReadsTyped /\ PagesInv => PagesCoverEachRow
  BY DEF ReadsTyped, RequestOK, PagesInv, Undisturbed, AllRead, PagesCoverEachRow, Answered, At
<1> QED
  BY <1>1, <1>2, <1>3, PTL DEF ReadSpec
=============================================================================

-------------------------- MODULE ApplicationReads --------------------------
(***************************************************************************)
(* What the read routes answer: the summary and the stats of an            *)
(* application and the pages of a listing.  Each is several statements at  *)
(* READ COMMITTED, and runs, collections, rebuilds and deletions commit    *)
(* between them.                                                           *)
(* Source: app/api/routes/applications.py, machines/optimizations.py,      *)
(* machines/crud.py, machines/metrics.py, common.py.                       *)
(*                                                                         *)
(* One request is enough: requests write nothing.  Optimizations are what  *)
(* OptimizationRules makes of a machine's size and of what a refresh sees. *)
(* The plain names of the specification (Init, Next, Spec) are those of    *)
(* MetricCollection, with which OptimizationProofs extends this module.    *)
(***************************************************************************)
EXTENDS OptimizationRules, FiniteSets, Functions, FiniteSetsExt, SequencesExt

CONSTANTS
  Machine,        \* ids of machines
  Platform,
  PlatformOf,     \* the platform of each machine
  Hostname,       \* the rank of each machine's hostname; two platforms may share one
  Columns,        \* application code, environment and region of a machine
  Key,            \* name, environment and region of an application
  Rank,           \* the rank of each key in the order by name, environment and region
  Size,           \* capacity of a machine by scope
  Sight,          \* providers and samples that a refresh finds, by scope
  Day,            \* dates of samples
  Installed,      \* machines that the tables may hold at first
  Sampled,      \* samples that they may hold then
  WindowDays,     \* window_days of the stats
  Limit,          \* limit of a page
  Asks,           \* requests
  MaxCommits,     \* bound: commits of others
  Unknown         \* the text "UNKNOWN"

Sample == [machine : Machine, scope : Scope, day : Day]
MachineRow == [columns : Columns, size : Size]
Optimization == [computed : Nat, current : Size, decision : [Scope -> Decisions]]

ASSUME ReadsAssumption ==
  /\ IsFiniteSet(Machine) /\ Machine \subseteq Nat
  /\ Hostname \in [Machine -> Int]
  /\ Rank \in [Key -> Int] /\ \A k, l \in Key : k # l => Rank[k] # Rank[l]
  /\ Size \subseteq [Scope -> Nat \cup {None}]
  /\ Sight \subseteq [Scope -> [providers : Nat, total : Nat, count : 0..Window]]
  /\ Day \subseteq Nat \ {0}
  /\ Installed \subseteq [Machine -> MachineRow \cup {None}]
  /\ Sampled \subseteq SUBSET Sample /\ \A x \in Sampled : IsFiniteSet(x)
  /\ WindowDays \in Nat \ {0} /\ Limit \in Nat \ {0} /\ MaxCommits \in Nat
  /\ None \notin MachineRow \cup Optimization

Listings == {"applications", "machines", "optimizations", "metrics"}

(* What a summary and stats are asked of is an application.  `within': the samples that *)
(* the filters of a request for metrics let through, by provider, machine and dates,   *)
(* which no one changes in a row.                                                      *)
ASSUME AsksAssumption ==
  /\ Asks \subseteq [kind : {"summary", "stats", "pages"}, listing : Listings \cup {None},
                    key : Key \cup {None}, platform : Platform \cup {None}, within : SUBSET Sample]
  /\ \A x \in Asks :
       /\ x.kind = "pages" <=> x.listing # None
       /\ x.kind # "pages" => x.key # None
       /\ x.listing = "metrics" => x.key = None /\ x.platform = None

VARIABLES
  machine,               \* columns and size of each machine, None: no row
  application,           \* keys that have a row
  machineOptimization,   \* the optimization of each machine, None: no row
  machineSample,         \* rows of the metric tables
  now,
  commits,
  request                \* the request that is answered

readVars == <<machine, application, machineOptimization, machineSample, now, commits, request>>

-----------------------------------------------------------------------------
(* Queries *)

Coalesce(d) == IF d = None THEN Unknown ELSE d
KeyOf(c) == <<c.code, Coalesce(c.environment), Coalesce(c.region)>>
ASSUME KeysAssumption == \A c \in Columns : c.code # None => KeyOf(c) \in Key

Exists(m) == machine[m] # None

(* The machines that an application's row represents *)
Members(k) == {m \in Machine : Exists(m) /\ KeyOf(machine[m].columns) = k}

OnPlatform(m, p) == p = None \/ PlatformOf[m] = p

(* The rows of the listings; with a key, those of its application *)
Applications(ask) ==
  {k \in application : ask.platform # None => \E m \in Members(k) : OnPlatform(m, ask.platform)}

Machines(ask) ==
  {m \in Machine : Exists(m) /\ OnPlatform(m, ask.platform)
                   /\ (ask.key # None => m \in Members(ask.key))}

(* With a platform too, a request names the code, environment and region: the same machines, *)
(* where the code alone tells those without environment or region.                          *)
Optimizations(ask) == {m \in Machines(ask) : machineOptimization[m] # None}

Metrics(ask) == {x \in machineSample \cap ask.within : x.scope = "cpu"}

Listed(ask) ==
  CASE ask.listing = "applications" -> Applications(ask)
    [] ask.listing = "machines" -> Machines(ask)
    [] ask.listing = "optimizations" -> Optimizations(ask)
    [] ask.listing = "metrics" -> Metrics(ask)

(* The orders of the listings.  The ids of optimizations and of samples are ordered *)
(* as their machines'.                                                              *)
ByKey(x, y) == Rank[x] < Rank[y]

ByHostname(x, y) == Hostname[x] < Hostname[y] \/ (Hostname[x] = Hostname[y] /\ x < y)

ByComputation(x, y) ==
  \/ machineOptimization[x].computed > machineOptimization[y].computed
  \/ machineOptimization[x].computed = machineOptimization[y].computed /\ x > y

ByDate(x, y) == x.day > y.day \/ (x.day = y.day /\ x.machine > y.machine)

(* Mutant: without the id as the last criterion. *)
BeforeWithoutId(listing, x, y) ==
  CASE listing = "applications" -> Rank[x] < Rank[y]
    [] listing = "machines" -> Hostname[x] < Hostname[y]
    [] listing = "optimizations" -> machineOptimization[x].computed > machineOptimization[y].computed
    [] listing = "metrics" -> x.day > y.day

Before(listing, x, y) ==
  CASE listing = "applications" -> ByKey(x, y)
    [] listing = "machines" -> ByHostname(x, y)
    [] listing = "optimizations" -> ByComputation(x, y)
    [] listing = "metrics" -> ByDate(x, y)

(* The orders in which the database may return a listing: one, if `Before' is total. *)
Orders(ask) ==
  {s \in SetToSeqs(Listed(ask)) :
     \A i, j \in DOMAIN s : i < j => ~Before(ask.listing, s[j], s[i])}

(* serialize_machine_optimization and _aggregate_optimization of what is stored *)
StatusOf(o) == Aggregate({o.decision[s] : s \in Scope})[1]

-----------------------------------------------------------------------------
(* The summary *)

(* _optimization_confidence *)
Confidence(rows) ==
  LET statuses == {StatusOf(rows[m]) : m \in DOMAIN rows}
  IN  CASE statuses = {} -> "none"
        [] "error" \in statuses -> "low"
        [] "partial" \in statuses /\ "error" \notin statuses -> "medium"
        [] OTHER -> "high"

(* The sum of the values that are known, None when none is *)
SumOfKnown(values) ==
  LET known == {m \in DOMAIN values : values[m] # None}
  IN  IF known = {} THEN None ELSE SumFunctionOnSet(values, known)

CurrentTotal(rows, s) == SumOfKnown([m \in DOMAIN rows |-> rows[m].current[s]])
RecommendedTotal(rows, s) == SumOfKnown([m \in DOMAIN rows |-> rows[m].decision[s].target])

(* reclaimable_capacity is -Delta, additional_capacity Delta, where positive. *)
Delta(rows, s) ==
  IF CurrentTotal(rows, s) = None \/ RecommendedTotal(rows, s) = None
  THEN None ELSE RecommendedTotal(rows, s) - CurrentTotal(rows, s)

-----------------------------------------------------------------------------
(* A request.  `disturbed', `always' and `sometime' are history: whether anything (that *)
(* moves the listing) was committed since it began, and the samples stored all the time *)
(* and at some time since.                                                              *)
NoRequest ==
  [pc |-> "idle", ask |-> None, members |-> {}, rows |-> <<>>, todo |-> <<>>, end |-> None,
   usage |-> {}, offset |-> 0, total |-> 0, seen |-> <<>>,
   disturbed |-> FALSE, always |-> {}, sometime |-> {}]

(* By the key: an application that is deleted and created again has another id, and is *)
(* then not found by the code, which only ends the request.                           *)
Found(key) == key = None \/ key \in application

At(pc) == request.pc = pc
Answer(r) == [r EXCEPT !.pc = "answered"]
Tables == <<machine, application, machineOptimization, machineSample, now, commits>>

(* The first statement of a route is get_or_404; a 404 leaves nothing. *)
Ask(a) ==
  /\ request.pc \in {"idle", "answered"}
  /\ Found(a.key)
  /\ request' = [NoRequest EXCEPT !.pc = IF a.kind = "pages" THEN "count" ELSE "machines",
                             !.ask = a, !.always = machineSample, !.sometime = machineSample]
  /\ UNCHANGED Tables

(* Without machines there is nothing else to ask. *)
ReadMachines ==
  /\ At("machines")
  /\ LET ids  == Members(request.ask.key)
         then == IF request.ask.kind = "summary" THEN "optimizations" ELSE "latest"
     IN  request' = [request EXCEPT !.members = ids, !.todo = <<"cpu", "ram", "disk">>,
                                    !.pc = IF ids = {} THEN "answered" ELSE then]
  /\ UNCHANGED Tables

ReadOptimizations ==
  /\ At("optimizations")
  /\ LET found == {m \in request.members : machineOptimization[m] # None}
     IN  request' = Answer([request EXCEPT !.rows = [m \in found |-> machineOptimization[m]]])
  /\ UNCHANGED Tables

Days(s) == {x.day : x \in {y \in machineSample : y.scope = s /\ y.machine \in request.members}}

Latest(days) == IF days = {} THEN None ELSE Max(days)

(* _latest_metric_date, one statement for each table *)
ReadLatest ==
  /\ At("latest")
  /\ LET known == Days(Head(request.todo)) \cup ({request.end} \ {None})
         last  == Len(request.todo) = 1
         r     == [request EXCEPT !.end = Latest(known), !.todo = Tail(@)]
     IN  request' = CASE ~last -> r
                      [] last /\ known = {} -> Answer(r)
                      [] OTHER -> [r EXCEPT !.pc = "usage", !.todo = <<"cpu", "ram", "disk">>]
  /\ UNCHANGED Tables

(* Mutant: the statement finds the machines of the application again. *)
UsageOfApplication(s) ==
  {x \in machineSample : /\ x.scope = s /\ x.machine \in Members(request.ask.key)
                  /\ request.end - WindowDays < x.day /\ x.day <= request.end}

(* What the average, the peak and the number of samples are computed from *)
Usage(s) ==
  {x \in machineSample : /\ x.scope = s /\ x.machine \in request.members
                  /\ request.end - WindowDays < x.day /\ x.day <= request.end}

(* _application_stats_resource, one statement for each table *)
ReadUsage ==
  /\ At("usage")
  /\ LET r == [request EXCEPT !.usage = @ \cup Usage(Head(request.todo)), !.todo = Tail(@)]
     IN  request' = IF Len(request.todo) = 1 THEN Answer(r) ELSE r
  /\ UNCHANGED Tables

(* paginate_query: the rows are counted, then a page of them is read. *)
Count ==
  /\ At("count")
  /\ request' = [request EXCEPT !.total = Cardinality(Listed(request.ask)), !.pc = "page"]
  /\ UNCHANGED Tables

(* The client asks for pages until it has passed the total. *)
ReadPage ==
  /\ At("page")
  /\ \E s \in Orders(request.ask) :
       LET r == [request EXCEPT !.seen = @ \o SubSeq(s, request.offset + 1,
                                                     Min({request.offset + Limit, Len(s)}))]
       IN  request' = IF request.offset + Limit < request.total
                      THEN [r EXCEPT !.offset = @ + Limit, !.pc = "next"] ELSE Answer(r)
  /\ UNCHANGED Tables

NextPage ==
  /\ At("next")
  /\ request' = IF Found(request.ask.key) THEN [request EXCEPT !.pc = "count"] ELSE NoRequest
  /\ UNCHANGED Tables

-----------------------------------------------------------------------------
(* What others commit *)

(* Whether the commit matters to the request *)
Disturbs ==
  request.ask.kind = "pages" => \E a \in {request.ask} : Orders(a)' # Orders(a)

Observe ==
  request' = IF request.pc \in {"idle", "answered"} THEN NoRequest
             ELSE [request EXCEPT !.disturbed = @ \/ Disturbs,
                                  !.always = @ \cap machineSample', !.sometime = @ \cup machineSample']

CommitOfOthers ==
  /\ commits < MaxCommits
  /\ commits' = commits + 1
  /\ Observe

(* _build_optimization_snapshot, of a machine's size and what a refresh sees of it *)
Decided ==
  [size \in Size |-> [sight \in Sight |-> [s \in Scope |->
    Evaluate([scope |-> s, capacity |-> size[s], providers |-> sight[s].providers,
              total |-> sight[s].total, count |-> sight[s].count])]]]

Refreshed(size, sight, time) ==
  [computed |-> time, current |-> size, decision |-> Decided[size][sight]]

RefreshMachine(m) ==
  /\ now' = now + 1
  /\ \E sight \in Sight :
       machineOptimization' = [machineOptimization EXCEPT ![m] = Refreshed(machine'[m].size, sight, now')]

(* An inventory run creates, moves or resizes a machine; a new size is refreshed. *)
DiscoverMachine(m) ==
  /\ \E found \in MachineRow :
       /\ found # machine[m]
       /\ machine' = [machine EXCEPT ![m] = found]
       /\ IF Exists(m) /\ machine[m].size = found.size THEN UNCHANGED <<now, machineOptimization>>
          ELSE RefreshMachine(m)
  /\ UNCHANGED <<application, machineSample>>
  /\ CommitOfOthers

(* A collection stores a sample, or today's again. *)
CollectSample(m) ==
  /\ Exists(m)
  /\ \E s \in Scope, d \in Day : machineSample' = machineSample \cup {[machine |-> m, scope |-> s, day |-> d]}
  /\ UNCHANGED <<machine, application>>
  /\ RefreshMachine(m)
  /\ CommitOfOthers

RecalculateMachine(m) ==
  /\ Exists(m)
  /\ UNCHANGED <<machine, application, machineSample>>
  /\ RefreshMachine(m)
  /\ CommitOfOthers

(* Mutant: its samples stay. *)
DeleteMachineRow(m) ==
  /\ Exists(m)
  /\ machine' = [machine EXCEPT ![m] = None]
  /\ machineOptimization' = [machineOptimization EXCEPT ![m] = None]
  /\ UNCHANGED <<application, machineSample, now>>
  /\ CommitOfOthers

(* The rows that refer to a machine go with it. *)
DeleteMachine(m) ==
  /\ Exists(m)
  /\ machine' = [machine EXCEPT ![m] = None]
  /\ machineOptimization' = [machineOptimization EXCEPT ![m] = None]
  /\ machineSample' = {x \in machineSample : x.machine # m}
  /\ UNCHANGED <<application, now>>
  /\ CommitOfOthers

Keys == {KeyOf(machine[m].columns) : m \in {n \in Machine : Exists(n) /\ machine[n].columns.code # None}}

(* rebuild_applications_from_machines (see ApplicationProjection) *)
Rebuild ==
  /\ application # Keys /\ application' = Keys
  /\ UNCHANGED <<machine, machineOptimization, machineSample, now>>
  /\ CommitOfOthers

(* The machines that the first runs found, all on their first optimization, and the *)
(* samples that were collected of them                                              *)
ReadInit ==
  /\ machine \in Installed
  /\ application = Keys
  /\ \E sight \in [Machine -> Sight] :
       machineOptimization = [m \in Machine |->
         IF Exists(m) THEN Refreshed(machine[m].size, sight[m], 0) ELSE None]
  /\ \E found \in Sampled : machineSample = {x \in found : Exists(x.machine)}
  /\ now = 0 /\ commits = 0
  /\ request = NoRequest

ReadNext ==
  \/ \E a \in Asks : Ask(a)
  \/ ReadMachines \/ ReadOptimizations \/ ReadLatest \/ ReadUsage
  \/ Count \/ ReadPage \/ NextPage
  \/ \E m \in Machine : DiscoverMachine(m) \/ CollectSample(m) \/ RecalculateMachine(m) \/ DeleteMachine(m)
  \/ Rebuild

ReadSpec == ReadInit /\ [][ReadNext]_readVars

-----------------------------------------------------------------------------
(* Properties *)

ReadTypeOK ==
  /\ machine \in [Machine -> MachineRow \cup {None}]
  /\ application \subseteq Key
  /\ \A m \in Machine : IF Exists(m) THEN machineOptimization[m] \in Optimization
                                         ELSE machineOptimization[m] = None
  /\ machineSample \subseteq Sample /\ \A x \in machineSample : Exists(x.machine)
  /\ commits \in 0..MaxCommits /\ now \in 0..commits
  /\ request.ask \in Asks \cup {None}
  /\ request.members \subseteq Machine /\ DOMAIN request.rows \subseteq request.members
  /\ request.end \in Day \cup {None}
  /\ request.usage \subseteq Sample
  /\ \A i, j \in DOMAIN request.todo : i # j => request.todo[i] # request.todo[j]

Answered(kind) == At("answered") /\ request.ask.kind = kind

(* The optimizations of a summary are of machines that it counts.  When its        *)
(* confidence is high every one of them has a capacity and a recommendation in     *)
(* every scope, so that the totals sum over the same machines and their difference *)
(* is what following the recommendations would change; otherwise totals may be of  *)
(* different machines.  Undisturbed it is the application as it is.                *)
SummaryIsSound ==
  Answered("summary") =>
    LET rows == request.rows
    IN  /\ DOMAIN rows \subseteq request.members
        /\ Confidence(rows) = "high" =>
             \A s \in Scope :
               /\ \A m \in DOMAIN rows : rows[m].current[s] # None /\ rows[m].decision[s].target # None
               /\ Delta(rows, s) =
                    SumFunction([m \in DOMAIN rows |-> rows[m].decision[s].target - rows[m].current[s]])
        /\ ~request.disturbed =>
             /\ request.members = Members(request.ask.key)
             /\ rows = [m \in request.members |-> machineOptimization[m]]

(* Whatever is committed between the seven statements: only samples of machines that *)
(* are counted, of the window that is reported, enter the figures, and none that     *)
(* was stored all the time is missed, nor lies after the window.                     *)
StatsAreOfOneWindow ==
  At("usage") \/ Answered("stats") =>
    LET of == {x \in request.always : x.machine \in request.members}
    IN  /\ \A x \in request.usage :
             /\ x.machine \in request.members /\ x \in request.sometime
             /\ request.end - WindowDays < x.day /\ x.day <= request.end
        /\ At("answered") =>
             /\ \A x \in of :
                  /\ request.end # None /\ x.day <= request.end
                  /\ request.end - WindowDays < x.day => x \in request.usage
             /\ ~request.disturbed /\ request.end # None => \E x \in request.usage : x.day = request.end

(* A client that reads a listing page by page sees every row once, and as many as it *)
(* is told, as long as nothing moves the listing: the order leaves no ties that the  *)
(* database could break differently from page to page.                               *)
PagesCoverEachRow ==
  Answered("pages") /\ ~request.disturbed =>
    /\ ToSet(request.seen) = Listed(request.ask)
    /\ Len(request.seen) = request.total /\ request.total = Cardinality(Listed(request.ask))
=============================================================================

------------------------- MODULE MCApplicationReads -------------------------
EXTENDS ApplicationReads

CONSTANTS a, b, p, q

C(code, environment) == [code |-> code, environment |-> environment, region |-> None]
MCColumns == {C(a, None), C(b, None)}
MCKey == {<<a, Unknown, Unknown>>, <<b, Unknown, Unknown>>}
MCRank == [k \in MCKey |-> IF k[1] = a THEN 1 ELSE 2]
MCMachine == {1, 2}
MCPlatformOf == [m \in MCMachine |-> IF m = 1 THEN p ELSE q]
MCHostname == [m \in MCMachine |-> 1]   \* the same on both platforms

S(providers, total, count) == [providers |-> providers, total |-> total, count |-> count]
(* All scopes measured and busy; the cpu without provider, the others idle *)
MCSight ==
  {[s \in Scope |-> S(1, 90, 1)],
   [s \in Scope |-> IF s = "cpu" THEN S(0, 0, 0) ELSE S(1, 20, 1)]}

MCDay == {1, 2}
MCSampled ==
  {{[machine |-> 1, scope |-> "cpu", day |-> 2], [machine |-> 2, scope |-> "ram", day |-> 1]}}

Small == [s \in Scope |-> 4]
Large == [s \in Scope |-> IF s = "ram" THEN None ELSE 8]
Row(code, size) == [columns |-> C(code, None), size |-> size]
MCSize == {Small, Large}

(* Two machines of one application, of two applications; a single machine *)
MCInstalled ==
  {<<Row(a, Small), Row(a, Small)>>, <<Row(a, Small), Row(b, Large)>>, <<Row(a, Small), None>>}

Of(kind, listing, key, platform) ==
  [kind |-> kind, listing |-> listing, key |-> key, platform |-> platform, within |-> {}]
Since(day) == [Of("pages", "metrics", None, None) EXCEPT !.within = {x \in Sample : x.day >= day}]
K == <<a, Unknown, Unknown>>
MCAsks ==
  {Of("summary", None, K, None), Of("stats", None, K, None),
   Of("pages", "applications", None, p), Of("pages", "machines", K, None),
   Of("pages", "machines", K, q),
   Of("pages", "optimizations", None, None), Of("pages", "optimizations", K, None),
   Of("pages", "optimizations", K, p), Since(1), Since(2)}
=============================================================================

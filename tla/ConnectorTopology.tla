-------------------------- MODULE ConnectorTopology --------------------------
(***************************************************************************)
(* Which metric provider is attached to which provisioner, on which        *)
(* platform, and which provisioner a machine comes from.                   *)
(* Source: app/api/routes/machines/providers.py and provisioners.py, the   *)
(* relations in internal/infra/db/models.py, and the inventory run.        *)
(*                                                                         *)
(* Every operation is a transaction that reads rows, checks them, and      *)
(* writes at its commit: sessions do not flush before.  PostgreSQL gives   *)
(* no protection between the two (READ COMMITTED, no row is locked), only  *)
(* foreign keys and primary keys are checked at the commit.  A request     *)
(* therefore keeps the view of the database it loaded, makes its checks on *)
(* that view, and its effect on the database as it is at the commit.       *)
(*                                                                         *)
(* That a check or a commit fails is Abandon: it leaves the database alone. *)
(* Left out: names, connector types and configuration, `enabled', and the  *)
(* creation and deletion of platforms.                                     *)
(***************************************************************************)
CONSTANTS Platform, Provider, Provisioner, Machine, Scope, Request

CONSTANTS Unborn, Deleted   \* in place of a platform: the row is not there
CONSTANT NoSource           \* source_provisioner_id IS NULL

ASSUME ConstantsAssumption ==
  /\ Scope # {}
  /\ Unborn \notin Platform /\ Deleted \notin Platform /\ Unborn # Deleted
  /\ NoSource \notin Provisioner

VARIABLES
  db,     \* the four tables
  open,   \* the requests that have loaded their view
  seen,   \* what they loaded
  raced   \* history: provisioners that a request changed on a stale view

vars == <<db, open, seen, raced>>

Exists(v, p)     == v.provider[p].platform \in Platform
Running(v, q)    == v.provisioner[q] \in Platform
Discovered(v, m) == v.machine[m].platform \in Platform

Linked(v, q)     == {p \in Provider : <<p, q>> \in v.links}
AttachedTo(v, p) == {q \in Provisioner : <<p, q>> \in v.links}
MachinesOf(v, q) == {m \in Machine : Discovered(v, m) /\ v.machine[m].source = q}

Empty ==
  [provider    |-> [p \in Provider |-> [platform |-> Unborn, scope |-> CHOOSE s \in Scope : TRUE]],
   provisioner |-> [q \in Provisioner |-> Unborn],
   links       |-> {},
   machine     |-> [m \in Machine |-> [platform |-> Unborn, source |-> NoSource]]]

Init ==
  /\ db = Empty
  /\ open = {}
  /\ seen = [r \in Request |-> Empty]
  /\ raced = {}

Load(r) ==
  /\ r \notin open
  /\ open' = open \cup {r}
  /\ seen' = [seen EXCEPT ![r] = db]
  /\ UNCHANGED <<db, raced>>

(* The rows about q that request r has read differ from what they are now.  *)
Stale(r, q, now, next) ==
  \/ seen[r].provisioner[q] # now.provisioner[q]
  \/ Linked(seen[r], q) # Linked(now, q)
  \/ MachinesOf(seen[r], q) # MachinesOf(now, q)
  \/ \E p \in Linked(next, q) : seen[r].provider[p] # now.provider[p]

(* A commit changes something about q. *)
Touches(q, now, next) ==
  \/ next.provisioner[q] # now.provisioner[q]
  \/ Linked(next, q) # Linked(now, q)
  \/ MachinesOf(next, q) # MachinesOf(now, q)
  \/ \E p \in Linked(now, q) : next.provider[p] # now.provider[p]
  \/ \E m \in MachinesOf(now, q) : next.machine[m] # now.machine[m]

Close(r) ==
  /\ open' = open \ {r}
  /\ seen' = [seen EXCEPT ![r] = Empty]

Commit(r, next) ==
  /\ r \in open
  /\ db' = next
  /\ raced' = raced \cup {q \in Provisioner : Touches(q, db, next) /\ Stale(r, q, db, next)}
  /\ Close(r)

Abandon(r) ==
  /\ r \in open
  /\ Close(r)
  /\ UNCHANGED <<db, raced>>

-----------------------------------------------------------------------------
(* Checks, made on the view v that a request has loaded *)

(* Mutants: the test of the provider's own id is inverted, a move forgets the  *)
(* machines, a deletion leaves its association rows behind.                    *)
ConflictWithItself(v, q, scope, self) ==
  \E p \in Linked(v, q) \cap {self} : v.provider[p].scope = scope

CanMoveWithMachines(v, q, platform) ==
  \A p \in Linked(v, q) : v.provider[p].platform = platform

DeleteProviderOnly(r, p) ==
  /\ Exists(seen[r], p) /\ Exists(db, p)
  /\ AttachedTo(seen[r], p) \subseteq AttachedTo(db, p)
  /\ Commit(r, [db EXCEPT !.provider[p].platform = Deleted])

(* find_provider_scope_conflict: a provider other than `self' has the scope. *)
ScopeConflict(v, q, scope, self) ==
  \E p \in Linked(v, q) \ {self} : v.provider[p].scope = scope

(* What attaching a provider to provisioners requires of each of them.       *)
Accepts(v, qs, platform, scope, self) ==
  \A q \in qs : v.provisioner[q] = platform /\ ~ScopeConflict(v, q, scope, self)

(* _ensure_provisioner_platform_can_change *)
CanMove(v, q, platform) ==
  /\ MachinesOf(v, q) = {}
  /\ \A p \in Linked(v, q) : v.provider[p].platform = platform

(* The ORM writes a column only if its value is not the one it has loaded.   *)
Written(new, old, now) == IF new # old THEN new ELSE now

-----------------------------------------------------------------------------
(* Providers *)

(* Prometheus and mock providers are created unattached, Dynatrace providers  *)
(* with the provisioners of the payload.                                      *)
CreateProvider(r, p, platform, scope, qs) ==
  /\ Accepts(seen[r], qs, platform, scope, p)
  /\ db.provider[p].platform = Unborn
  /\ \A q \in qs : Running(db, q)
  /\ Commit(r, [db EXCEPT !.provider[p] = [platform |-> platform, scope |-> scope],
                          !.links = @ \cup ({p} \X qs)])

(* The scope is checked against the other providers of every provisioner,     *)
(* the platform against the provisioners.                                     *)
PatchProvider(r, p, platform, scope) ==
  LET old == seen[r].provider[p]
      now == db.provider[p] IN
  /\ Exists(seen[r], p) /\ Exists(db, p)
  /\ scope # old.scope =>
       \A q \in AttachedTo(seen[r], p) : ~ScopeConflict(seen[r], q, scope, p)
  /\ platform # old.platform =>
       \A q \in AttachedTo(seen[r], p) : seen[r].provisioner[q] = platform
  /\ Commit(r, [db EXCEPT !.provider[p] =
       [platform |-> Written(platform, old.platform, now.platform),
        scope    |-> Written(scope, old.scope, now.scope)]])

(* The association row's primary key and foreign keys are checked now.        *)
Attach(r, p, q) ==
  /\ Exists(seen[r], p) /\ p \notin Linked(seen[r], q)
  /\ Accepts(seen[r], {q}, seen[r].provider[p].platform, seen[r].provider[p].scope, p)
  /\ Exists(db, p) /\ Running(db, q) /\ p \notin Linked(db, q)
  /\ Commit(r, [db EXCEPT !.links = @ \cup {<<p, q>>}])

Detach(r, p, q) ==
  /\ Exists(seen[r], p) /\ p \in Linked(seen[r], q)
  /\ seen[r].provisioner[q] = seen[r].provider[p].platform
  /\ p \in Linked(db, q)
  /\ Commit(r, [db EXCEPT !.links = @ \ {<<p, q>>}])

(* Association rows that were loaded must still be there, others cascade.     *)
DeleteProvider(r, p) ==
  /\ Exists(seen[r], p) /\ Exists(db, p)
  /\ AttachedTo(seen[r], p) \subseteq AttachedTo(db, p)
  /\ Commit(r, [db EXCEPT !.provider[p].platform = Deleted,
                          !.links = {l \in @ : l[1] # p}])

-----------------------------------------------------------------------------
(* Provisioners and machines *)

CreateProvisioner(r, q, platform) ==
  /\ db.provisioner[q] = Unborn
  /\ Commit(r, [db EXCEPT !.provisioner[q] = platform])

MoveProvisioner(r, q, platform) ==
  /\ Running(seen[r], q) /\ Running(db, q)
  /\ seen[r].provisioner[q] # platform
  /\ CanMove(seen[r], q, platform)
  /\ Commit(r, [db EXCEPT !.provisioner[q] = platform])

(* Machines lose their source: the loaded ones by the ORM, wherever they come *)
(* from by now, the others by the foreign key.                                *)
DeleteProvisioner(r, q) ==
  LET orphans == MachinesOf(seen[r], q) \cup MachinesOf(db, q) IN
  /\ Running(seen[r], q) /\ Running(db, q)
  /\ Linked(seen[r], q) \subseteq Linked(db, q)
  /\ \A m \in orphans : Discovered(db, m)
  /\ Commit(r, [db EXCEPT
       !.provisioner[q] = Deleted,
       !.links = {l \in @ : l[2] # q},
       !.machine = [m \in Machine |-> IF m \in orphans THEN [@[m] EXCEPT !.source = NoSource] ELSE @[m]]])

(* An inventory run of q commits a machine it has not found, on the platform  *)
(* it has loaded with the provisioner ...                                     *)
DiscoverNew(r, q, m) ==
  /\ Running(seen[r], q) /\ Running(db, q)
  /\ db.machine[m].platform = Unborn
  /\ Commit(r, [db EXCEPT !.machine[m] = [platform |-> seen[r].provisioner[q], source |-> q]])

(* ... or one it has found, by its external id or by its host name.           *)
DiscoverAgain(r, q, m) ==
  LET old == seen[r].machine[m] IN
  /\ Running(seen[r], q) /\ Running(db, q)
  /\ Discovered(seen[r], m) /\ Discovered(db, m)
  /\ old.source = q \/ old.platform = seen[r].provisioner[q]
  /\ Commit(r, [db EXCEPT !.machine[m].source = Written(q, old.source, @)])

(* DELETE /machines/{id}, or the purge of stale machines. *)
DeleteMachine(r, m) ==
  /\ Discovered(db, m)
  /\ Commit(r, [db EXCEPT !.machine[m] = [platform |-> Deleted, source |-> NoSource]])

-----------------------------------------------------------------------------
ProviderRequest(r) == \E p \in Provider :
  \/ \E platform \in Platform, scope \in Scope : PatchProvider(r, p, platform, scope)
  \/ \E platform \in Platform, scope \in Scope, qs \in SUBSET Provisioner :
       CreateProvider(r, p, platform, scope, qs)
  \/ \E q \in Provisioner : Attach(r, p, q) \/ Detach(r, p, q)
  \/ DeleteProvider(r, p)

ProvisionerRequest(r) == \E q \in Provisioner :
  \/ \E platform \in Platform : CreateProvisioner(r, q, platform) \/ MoveProvisioner(r, q, platform)
  \/ DeleteProvisioner(r, q)
  \/ \E m \in Machine : DiscoverNew(r, q, m) \/ DiscoverAgain(r, q, m)

Next == \E r \in Request :
  \/ Load(r) \/ Abandon(r)
  \/ ProviderRequest(r) \/ ProvisionerRequest(r)
  \/ \E m \in Machine : DeleteMachine(r, m)

Spec == Init /\ [][Next]_vars

-----------------------------------------------------------------------------
(* Properties *)

Database ==
  [provider    : [Provider -> [platform : Platform \cup {Unborn, Deleted}, scope : Scope]],
   provisioner : [Provisioner -> Platform \cup {Unborn, Deleted}],
   links       : SUBSET (Provider \X Provisioner),
   machine     : [Machine -> [platform : Platform \cup {Unborn, Deleted},
                              source   : Provisioner \cup {NoSource}]]]

(* The foreign keys hold: links and sources name rows that exist.             *)
TypeOK ==
  /\ db \in Database
  /\ open \subseteq Request
  /\ seen \in [Request -> Database]
  /\ raced \subseteq Provisioner
  /\ \A l \in db.links : Exists(db, l[1]) /\ Running(db, l[2])
  /\ \A q \in Provisioner : MachinesOf(db, q) # {} => Running(db, q)

(* "provisioner cannot have more than one provider for the same scope"        *)
ScopesAreUnique(q) ==
  \A p1, p2 \in Linked(db, q) :
    db.provider[p1].scope = db.provider[p2].scope => p1 = p2

(* "provider and provisioners must belong to the same platform", and so must  *)
(* the machines a provisioner discovered.                                     *)
PlatformsAgree(q) ==
  /\ \A p \in Linked(db, q) : db.provider[p].platform = db.provisioner[q]
  /\ \A m \in MachinesOf(db, q) : db.machine[m].platform = db.provisioner[q]

(* Whatever sequence of requests the API has accepted, and whatever other      *)
(* requests ran meanwhile: a provisioner all whose changes were decided on     *)
(* rows still current at the commit serves a scope by one provider at most.    *)
ScopesAreUniqueUnlessRaced == \A q \in Provisioner \ raced : ScopesAreUnique(q)

(* Likewise for the platforms of its providers and machines. *)
PlatformsAgreeUnlessRaced == \A q \in Provisioner \ raced : PlatformsAgree(q)

(* What PlatformsAgreeUnlessRaced rests on: a machine never changes platform.  *)
MachinesAreFixed ==
  \A r \in Request : \A m \in Machine :
    Discovered(seen[r], m) => db.machine[m].platform \in {seen[r].machine[m].platform, Deleted}

IInv ==
  /\ TypeOK /\ MachinesAreFixed
  /\ ScopesAreUniqueUnlessRaced /\ PlatformsAgreeUnlessRaced
=============================================================================

----------------------- MODULE ConnectorTopologyProofs -----------------------
(***************************************************************************)
(* Theorems about ConnectorTopology.                                       *)
(***************************************************************************)
EXTENDS ConnectorTopology, TLAPS

(* What the properties say of one provisioner. *)
Coherent(q) == ScopesAreUnique(q) /\ PlatformsAgree(q)

(* The foreign keys. *)
KeysHold ==
  /\ \A l \in db.links : Exists(db, l[1]) /\ Running(db, l[2])
  /\ \A q \in Provisioner : MachinesOf(db, q) # {} => Running(db, q)

-----------------------------------------------------------------------------
(* Type correctness *)

LEMMA EmptyType == Empty \in Database
BY ConstantsAssumption DEF Empty, Database

LEMMA InitTypeOK == Init => TypeOK
<1> SUFFICES ASSUME Init PROVE TypeOK
  OBVIOUS
<1>1. db \in Database /\ seen \in [Request -> Database]
  BY EmptyType DEF Init
<1>2. \A m \in Machine : ~Discovered(Empty, m)
  BY ConstantsAssumption DEF Empty, Discovered
<1> QED
  BY <1>1, <1>2 DEF Init, TypeOK, MachinesOf, Empty

(* A commit keeps the types if what it writes is a database whose keys hold.  *)
LEMMA CommitType ==
  ASSUME TypeOK, NEW r \in Request, NEW next \in Database, Commit(r, next), KeysHold'
  PROVE  TypeOK'
BY EmptyType DEF TypeOK, Commit, Close, KeysHold

LEMMA ProviderRequestTypeOK ==
  ASSUME TypeOK, NEW r \in Request, ProviderRequest(r) PROVE TypeOK'
<1> USE ConstantsAssumption
<1>1. PICK p \in Provider :
        \/ \E platform \in Platform, scope \in Scope : PatchProvider(r, p, platform, scope)
        \/ \E platform \in Platform, scope \in Scope, qs \in SUBSET Provisioner :
             CreateProvider(r, p, platform, scope, qs)
        \/ \E q \in Provisioner : Attach(r, p, q) \/ Detach(r, p, q)
        \/ DeleteProvider(r, p)
  BY DEF ProviderRequest
<1>2. ASSUME NEW platform \in Platform, NEW scope \in Scope, PatchProvider(r, p, platform, scope)
      PROVE  TypeOK'
  <2> DEFINE row == [platform |-> Written(platform, seen[r].provider[p].platform, db.provider[p].platform),
                     scope    |-> Written(scope, seen[r].provider[p].scope, db.provider[p].scope)]
             next == [db EXCEPT !.provider[p] = row]
  <2>1. row.platform \in Platform /\ row.scope \in Scope
    BY <1>2 DEF PatchProvider, Written, Exists, TypeOK, Database
  <2>2. next \in Database
    BY <2>1 DEF TypeOK, Database
  <2>3. Commit(r, next)
    BY <1>2 DEF PatchProvider
  <2>4. KeysHold'
    BY <2>1, <2>3 DEF Commit, KeysHold, TypeOK, Database, Exists, Running, MachinesOf, Discovered
  <2> QED
    BY <2>2, <2>3, <2>4, CommitType
<1>3. ASSUME NEW platform \in Platform, NEW scope \in Scope, NEW qs \in SUBSET Provisioner,
             CreateProvider(r, p, platform, scope, qs)
      PROVE  TypeOK'
  <2> DEFINE next == [db EXCEPT !.provider[p] = [platform |-> platform, scope |-> scope],
                                !.links = @ \cup ({p} \X qs)]
  <2>1. next \in Database
    BY DEF TypeOK, Database
  <2>2. Commit(r, next) /\ \A q \in qs : Running(db, q)
    BY <1>3 DEF CreateProvider
  <2>3. KeysHold'
    BY <2>2 DEF Commit, KeysHold, TypeOK, Database, Exists, Running, MachinesOf, Discovered
  <2> QED
    BY <2>1, <2>2, <2>3, CommitType
<1>4. ASSUME NEW q \in Provisioner, Attach(r, p, q) PROVE TypeOK'
  <2> DEFINE links == db.links \cup {<<p, q>>}
             next == [db EXCEPT !.links = links]
  <2>0. links \in SUBSET (Provider \X Provisioner)
    BY DEF TypeOK, Database
  <2>1. next \in Database
    BY <2>0 DEF TypeOK, Database
  <2>2. Commit(r, next) /\ Exists(db, p) /\ Running(db, q)
    BY <1>4 DEF Attach
  <2>3. KeysHold'
    BY <2>2 DEF Commit, KeysHold, TypeOK, Database, Exists, Running, MachinesOf, Discovered
  <2> QED
    BY <2>1, <2>2, <2>3, CommitType
<1>5. ASSUME NEW q \in Provisioner, Detach(r, p, q) PROVE TypeOK'
  <2> DEFINE next == [db EXCEPT !.links = @ \ {<<p, q>>}]
  <2>1. next \in Database
    BY DEF TypeOK, Database
  <2>2. Commit(r, next)
    BY <1>5 DEF Detach
  <2>3. KeysHold'
    BY <2>2 DEF Commit, KeysHold, TypeOK, Database, Exists, Running, MachinesOf, Discovered
  <2> QED
    BY <2>1, <2>2, <2>3, CommitType
<1>6. ASSUME DeleteProvider(r, p) PROVE TypeOK'
  <2> DEFINE provider == [db.provider EXCEPT ![p].platform = Deleted]
             links == {l \in db.links : l[1] # p}
             next == [db EXCEPT !.provider = provider, !.links = links]
  <2>0. /\ provider \in [Provider -> [platform : Platform \cup {Unborn, Deleted}, scope : Scope]]
        /\ links \in SUBSET (Provider \X Provisioner)
    BY DEF TypeOK, Database
  <2>1. next \in Database
    BY <2>0 DEF TypeOK, Database
  <2>2. Commit(r, next)
    BY <1>6 DEF DeleteProvider
  <2>3. KeysHold'
    BY <2>2 DEF Commit, KeysHold, TypeOK, Database, Exists, Running, MachinesOf, Discovered
  <2> QED
    BY <2>1, <2>2, <2>3, CommitType
<1> QED
  BY <1>1, <1>2, <1>3, <1>4, <1>5, <1>6

LEMMA ProvisionerRequestTypeOK ==
  ASSUME TypeOK, NEW r \in Request, ProvisionerRequest(r) PROVE TypeOK'
<1> USE ConstantsAssumption
<1>1. PICK q \in Provisioner :
        \/ \E platform \in Platform : CreateProvisioner(r, q, platform) \/ MoveProvisioner(r, q, platform)
        \/ DeleteProvisioner(r, q)
        \/ \E m \in Machine : DiscoverNew(r, q, m) \/ DiscoverAgain(r, q, m)
  BY DEF ProvisionerRequest
<1>2. ASSUME NEW platform \in Platform, CreateProvisioner(r, q, platform) \/ MoveProvisioner(r, q, platform)
      PROVE  TypeOK'
  <2> DEFINE next == [db EXCEPT !.provisioner[q] = platform]
  <2>1. next \in Database
    BY DEF TypeOK, Database
  <2>2. Commit(r, next)
    BY <1>2 DEF CreateProvisioner, MoveProvisioner
  <2>3. KeysHold'
    BY <2>2 DEF Commit, KeysHold, TypeOK, Database, Exists, Running, MachinesOf, Discovered
  <2> QED
    BY <2>1, <2>2, <2>3, CommitType
<1>3. ASSUME DeleteProvisioner(r, q) PROVE TypeOK'
  <2> DEFINE orphans == MachinesOf(seen[r], q) \cup MachinesOf(db, q)
             machine == [m \in Machine |-> IF m \in orphans THEN [db.machine[m] EXCEPT !.source = NoSource]
                                                            ELSE db.machine[m]]
             next == [db EXCEPT !.provisioner[q] = Deleted, !.links = {l \in @ : l[2] # q}, !.machine = machine]
  <2>1. machine \in [Machine -> [platform : Platform \cup {Unborn, Deleted}, source : Provisioner \cup {NoSource}]]
    BY DEF TypeOK, Database
  <2>2. next \in Database
    BY <2>1 DEF TypeOK, Database
  <2>3. Commit(r, next)
    BY <1>3 DEF DeleteProvisioner
  <2>4. db' = next
    BY <2>3 DEF Commit
  <2>5. \A l \in db'.links : Exists(db', l[1]) /\ Running(db', l[2])
    BY <2>4 DEF TypeOK, Database, Exists, Running
  <2>6. \A m \in Machine : db'.machine[m] = db.machine[m] \/ db'.machine[m].source = NoSource
    BY <2>4 DEF TypeOK, Database
  <2>7. \A x \in Provisioner : MachinesOf(db', x) \subseteq MachinesOf(db, x)
    BY <2>6 DEF MachinesOf, Discovered
  <2>10. \A m \in orphans : db'.machine[m].source = NoSource
    BY <2>4 DEF TypeOK, Database, MachinesOf
  <2>8. MachinesOf(db', q) = {}
    BY <2>7, <2>10 DEF MachinesOf
  <2>9. \A x \in Provisioner : MachinesOf(db', x) # {} => Running(db', x)
    BY <2>4, <2>7, <2>8 DEF TypeOK, Database, Running
  <2> QED
    BY <2>2, <2>3, <2>5, <2>9, CommitType DEF KeysHold
<1>4. ASSUME NEW m \in Machine, DiscoverNew(r, q, m) PROVE TypeOK'
  <2> DEFINE next == [db EXCEPT !.machine[m] = [platform |-> seen[r].provisioner[q], source |-> q]]
  <2>1. next \in Database
    BY <1>4 DEF TypeOK, Database, DiscoverNew, Running
  <2>2. Commit(r, next) /\ Running(db, q)
    BY <1>4 DEF DiscoverNew
  <2>3. KeysHold'
    BY <2>2 DEF Commit, KeysHold, TypeOK, Database, Exists, Running, MachinesOf, Discovered
  <2> QED
    BY <2>1, <2>2, <2>3, CommitType
<1>5. ASSUME NEW m \in Machine, DiscoverAgain(r, q, m) PROVE TypeOK'
  <2> DEFINE source == Written(q, seen[r].machine[m].source, db.machine[m].source)
             row == [db.machine[m] EXCEPT !.source = source]
             machine == [db.machine EXCEPT ![m] = row]
             next == [db EXCEPT !.machine = machine]
  <2>1. source \in {q, db.machine[m].source}
    BY DEF Written
  <2>7. db.machine[m] \in [platform : Platform \cup {Unborn, Deleted}, source : Provisioner \cup {NoSource}]
    BY DEF TypeOK, Database
  <2>8. source \in Provisioner \cup {NoSource}
    BY <2>1, <2>7
  <2> HIDE DEF source
  <2>6. row \in [platform : Platform \cup {Unborn, Deleted}, source : Provisioner \cup {NoSource}]
    BY <2>7, <2>8
  <2> USE DEF source
  <2>5. machine \in [Machine -> [platform : Platform \cup {Unborn, Deleted}, source : Provisioner \cup {NoSource}]]
    BY <2>6 DEF TypeOK, Database
  <2>2. next \in Database
    BY <2>5 DEF TypeOK, Database
  <2>3. Commit(r, next) /\ Running(db, q)
    BY <1>5 DEF DiscoverAgain
  <2>4. KeysHold'
    BY <2>1, <2>3 DEF Commit, KeysHold, TypeOK, Database, Exists, Running, MachinesOf, Discovered
  <2> QED
    BY <2>2, <2>3, <2>4, CommitType
<1> QED
  BY <1>1, <1>2, <1>3, <1>4, <1>5

LEMMA DeleteMachineTypeOK ==
  ASSUME TypeOK, NEW r \in Request, NEW m \in Machine, DeleteMachine(r, m) PROVE TypeOK'
<1> USE ConstantsAssumption
<1> DEFINE next == [db EXCEPT !.machine[m] = [platform |-> Deleted, source |-> NoSource]]
<1>1. next \in Database
  BY DEF TypeOK, Database
<1>2. Commit(r, next)
  BY DEF DeleteMachine
<1>3. KeysHold'
  BY <1>2 DEF Commit, KeysHold, TypeOK, Database, Exists, Running, MachinesOf, Discovered
<1> QED
  BY <1>1, <1>2, <1>3, CommitType

LEMMA TypeInvariance == TypeOK /\ [Next]_vars => TypeOK'
<1> SUFFICES ASSUME TypeOK, [Next]_vars PROVE TypeOK'
  OBVIOUS
<1>1. ASSUME NEW r \in Request, Load(r) PROVE TypeOK'
  BY <1>1 DEF Load, TypeOK
<1>2. ASSUME NEW r \in Request, Abandon(r) PROVE TypeOK'
  BY <1>2, EmptyType DEF Abandon, Close, TypeOK
<1>3. CASE UNCHANGED vars
  BY <1>3 DEF vars, TypeOK
<1> QED
  BY <1>1, <1>2, <1>3, ProviderRequestTypeOK, ProvisionerRequestTypeOK, DeleteMachineTypeOK DEF Next

(* Every variable stays within its type and the foreign keys hold. *)
THEOREM TypeCorrect == Spec => []TypeOK
<1> QED
  BY InitTypeOK, TypeInvariance, PTL DEF Spec

-----------------------------------------------------------------------------
(* Coherence *)

(* A provisioner that a commit leaves alone stays coherent ... *)
LEMMA UntouchedStaysCoherent ==
  ASSUME NEW q \in Provisioner, ~Touches(q, db, db'), Coherent(q)
  PROVE  Coherent(q)'
BY DEF Touches, Coherent, ScopesAreUnique, PlatformsAgree

(* ... so only one that a request changed on rows still current is of interest. *)
LEMMA CommitFacts ==
  ASSUME NEW r \in Request, NEW next, Commit(r, next), NEW q \in Provisioner, q \notin raced'
  PROVE  q \notin raced /\ db' = next /\ (~Touches(q, db, db') \/ ~Stale(r, q, db, db'))
BY DEF Commit

(* Losing providers and machines does no harm. *)
LEMMA ShrinkingStaysCoherent ==
  ASSUME NEW q \in Provisioner, Coherent(q), db'.provisioner[q] = db.provisioner[q],
         Linked(db', q) \subseteq Linked(db, q), MachinesOf(db', q) \subseteq MachinesOf(db, q),
         \A p \in Linked(db', q) : db'.provider[p] = db.provider[p],
         \A m \in MachinesOf(db', q) : db'.machine[m].platform = db.machine[m].platform
  PROVE  Coherent(q)'
BY DEF Coherent, ScopesAreUnique, PlatformsAgree

(* Nor does adding a provider that the check accepts. *)
LEMMA AcceptedStaysCoherent ==
  ASSUME TypeOK, NEW q \in Provisioner, Coherent(q), NEW r \in Request, NEW p \in Provider,
         ~Stale(r, q, db, db'), p \notin Linked(db, q),
         NEW platform, NEW scope,
         Accepts(seen[r], {q}, platform, scope, p),
         db'.provider[p].platform = platform, db'.provider[p].scope = scope,
         \A x \in Provider \ {p} : db'.provider[x] = db.provider[x],
         Linked(db', q) = Linked(db, q) \cup {p},
         db'.provisioner = db.provisioner, db'.machine = db.machine
  PROVE  Coherent(q)'
<1>1. /\ seen[r].provisioner[q] = db.provisioner[q]
      /\ Linked(seen[r], q) = Linked(db, q)
      /\ \A x \in Linked(db, q) : seen[r].provider[x] = db.provider[x]
  BY DEF Stale
<1>2. db.provisioner[q] = platform
  BY <1>1 DEF Accepts
<1>3. \A x \in Linked(db, q) : x # p /\ db.provider[x].scope # scope
  BY <1>1 DEF Accepts, ScopeConflict, Linked
<1>4. \A x \in Linked(db, q) : db'.provider[x] = db.provider[x]
  BY <1>3 DEF Linked
<1>5. ScopesAreUnique(q)'
  BY <1>3, <1>4 DEF Coherent, ScopesAreUnique
<1>6. MachinesOf(db', q) = MachinesOf(db, q)
  BY DEF MachinesOf, Discovered
<1>7. PlatformsAgree(q)'
  BY <1>2, <1>4, <1>6 DEF Coherent, PlatformsAgree
<1> QED
  BY <1>5, <1>7 DEF Coherent

LEMMA InvariantFacts ==
  ASSUME IInv
  PROVE  TypeOK /\ \A q \in Provisioner \ raced : Coherent(q)
BY DEF IInv, ScopesAreUniqueUnlessRaced, PlatformsAgreeUnlessRaced, Coherent

LEMMA CreateProviderCoherent ==
  ASSUME IInv, NEW r \in Request, NEW p \in Provider, NEW platform \in Platform, NEW scope \in Scope,
         NEW qs \in SUBSET Provisioner, CreateProvider(r, p, platform, scope, qs),
         NEW q \in Provisioner, q \notin raced'
  PROVE  Coherent(q)'
<1> DEFINE next == [db EXCEPT !.provider[p] = [platform |-> platform, scope |-> scope],
                              !.links = @ \cup ({p} \X qs)]
<1>1. Commit(r, next)
  BY DEF CreateProvider
<1>2. q \notin raced /\ db' = next /\ (~Touches(q, db, db') \/ ~Stale(r, q, db, db'))
  BY <1>1, CommitFacts
<1>3. Coherent(q)
  BY <1>2, InvariantFacts
<1>4. p \notin Linked(db, q)
  BY ConstantsAssumption DEF IInv, TypeOK, CreateProvider, Linked, Exists
<1>5. /\ db'.provider[p] = [platform |-> platform, scope |-> scope]
      /\ \A x \in Provider \ {p} : db'.provider[x] = db.provider[x]
      /\ db'.provisioner = db.provisioner /\ db'.machine = db.machine
      /\ db'.links = db.links \cup ({p} \X qs)
  BY <1>2 DEF IInv, TypeOK, Database
<1>6. CASE q \in qs /\ ~Stale(r, q, db, db')
  <2>1. Linked(db', q) = Linked(db, q) \cup {p}
    BY <1>5, <1>6 DEF Linked
  <2>2. Accepts(seen[r], {q}, platform, scope, p)
    BY <1>6 DEF CreateProvider, Accepts
  <2>3. db'.provider[p].platform = platform /\ db'.provider[p].scope = scope
    BY <1>5
  <2>4. TypeOK
    BY DEF IInv
  <2> QED
    BY <1>3, <1>4, <1>5, <1>6, <2>1, <2>2, <2>3, <2>4, AcceptedStaysCoherent
<1>7. CASE q \notin qs
  <2>1. Linked(db', q) = Linked(db, q)
    BY <1>5, <1>7 DEF Linked
  <2>2. MachinesOf(db', q) = MachinesOf(db, q)
    BY <1>5 DEF MachinesOf, Discovered
  <2>3. \A x \in Linked(db, q) : db'.provider[x] = db.provider[x]
    BY <1>4, <1>5 DEF Linked
  <2> QED
    BY <1>3, <1>5, <2>1, <2>2, <2>3, ShrinkingStaysCoherent
<1> QED
  BY <1>2, <1>3, <1>6, <1>7, UntouchedStaysCoherent

LEMMA AttachCoherent ==
  ASSUME IInv, NEW r \in Request, NEW p \in Provider, NEW x \in Provisioner, Attach(r, p, x),
         NEW q \in Provisioner, q \notin raced'
  PROVE  Coherent(q)'
<1> DEFINE next == [db EXCEPT !.links = @ \cup {<<p, x>>}]
<1>1. Commit(r, next)
  BY DEF Attach
<1>2. q \notin raced /\ db' = next /\ (~Touches(q, db, db') \/ ~Stale(r, q, db, db'))
  BY <1>1, CommitFacts
<1>3. Coherent(q)
  BY <1>2, InvariantFacts
<1>4. /\ db'.provider = db.provider /\ db'.provisioner = db.provisioner /\ db'.machine = db.machine
      /\ db'.links = db.links \cup {<<p, x>>}
  BY <1>2 DEF IInv, TypeOK, Database
<1>5. CASE q = x /\ ~Stale(r, q, db, db')
  <2>1. Linked(db', q) = Linked(db, q) \cup {p} /\ p \notin Linked(db, q)
    BY <1>4, <1>5 DEF Linked, Attach
  <2>2. seen[r].provider[p] = db.provider[p]
    BY <1>5, <2>1 DEF Stale
  <2>3. Accepts(seen[r], {q}, db.provider[p].platform, db.provider[p].scope, p)
    BY <1>5, <2>2 DEF Attach
  <2> QED
    BY <1>3, <1>4, <1>5, <2>1, <2>3, AcceptedStaysCoherent DEF IInv
<1>6. CASE q # x
  BY <1>3, <1>4, <1>6, ShrinkingStaysCoherent DEF Linked, MachinesOf, Discovered
<1> QED
  BY <1>2, <1>3, <1>5, <1>6, UntouchedStaysCoherent

LEMMA DetachCoherent ==
  ASSUME IInv, NEW r \in Request, NEW p \in Provider, NEW x \in Provisioner, Detach(r, p, x),
         NEW q \in Provisioner, q \notin raced'
  PROVE  Coherent(q)'
<1> DEFINE next == [db EXCEPT !.links = @ \ {<<p, x>>}]
<1>1. Commit(r, next)
  BY DEF Detach
<1>2. q \notin raced /\ db' = next
  BY <1>1, CommitFacts
<1>3. /\ db'.provider = db.provider /\ db'.provisioner = db.provisioner /\ db'.machine = db.machine
      /\ db'.links = db.links \ {<<p, x>>}
  BY <1>2 DEF IInv, TypeOK, Database
<1> QED
  BY <1>2, <1>3, ShrinkingStaysCoherent, InvariantFacts DEF Linked, MachinesOf, Discovered

LEMMA DeleteProviderCoherent ==
  ASSUME IInv, NEW r \in Request, NEW p \in Provider, DeleteProvider(r, p),
         NEW q \in Provisioner, q \notin raced'
  PROVE  Coherent(q)'
<1> DEFINE next == [db EXCEPT !.provider[p].platform = Deleted, !.links = {l \in @ : l[1] # p}]
<1>1. Commit(r, next)
  BY DEF DeleteProvider
<1>2. q \notin raced /\ db' = next
  BY <1>1, CommitFacts
<1>3. /\ \A x \in Provider \ {p} : db'.provider[x] = db.provider[x]
      /\ db'.provisioner = db.provisioner /\ db'.machine = db.machine
      /\ db'.links = {l \in db.links : l[1] # p}
  BY <1>2 DEF IInv, TypeOK, Database
<1>4. Linked(db', q) = Linked(db, q) \ {p}
  BY <1>3 DEF Linked
<1> QED
  BY <1>2, <1>3, <1>4, ShrinkingStaysCoherent, InvariantFacts DEF Linked, MachinesOf, Discovered

(* The provider's new columns were checked against all provisioners it is      *)
(* attached to, if the request has seen them all.                              *)
LEMMA PatchProviderCoherent ==
  ASSUME IInv, NEW r \in Request, NEW p \in Provider, NEW platform \in Platform, NEW scope \in Scope,
         PatchProvider(r, p, platform, scope), NEW q \in Provisioner, q \notin raced'
  PROVE  Coherent(q)'
<1> DEFINE old == seen[r].provider[p]
           row == [platform |-> Written(platform, old.platform, db.provider[p].platform),
                   scope    |-> Written(scope, old.scope, db.provider[p].scope)]
           next == [db EXCEPT !.provider[p] = row]
<1>1. Commit(r, next)
  BY DEF PatchProvider
<1>2. q \notin raced /\ db' = next /\ (~Touches(q, db, db') \/ ~Stale(r, q, db, db'))
  BY <1>1, CommitFacts
<1>3. Coherent(q)
  BY <1>2, InvariantFacts
<1>4. /\ db'.provider[p] = row /\ \A x \in Provider \ {p} : db'.provider[x] = db.provider[x]
      /\ db'.provisioner = db.provisioner /\ db'.machine = db.machine /\ db'.links = db.links
  BY <1>2 DEF IInv, TypeOK, Database
<1>5. Linked(db', q) = Linked(db, q) /\ MachinesOf(db', q) = MachinesOf(db, q)
  BY <1>4 DEF Linked, MachinesOf, Discovered
<1>6. CASE p \notin Linked(db, q)
  <2>1. \A x \in Linked(db, q) : db'.provider[x] = db.provider[x]
    BY <1>4, <1>6 DEF Linked
  <2> QED
    BY <1>3, <1>4, <1>5, <2>1, ShrinkingStaysCoherent
<1>7. CASE p \in Linked(db, q) /\ ~Stale(r, q, db, db')
  <2>1. /\ seen[r].provisioner[q] = db.provisioner[q]
        /\ Linked(seen[r], q) = Linked(db, q)
        /\ \A x \in Linked(db, q) : seen[r].provider[x] = db.provider[x]
    BY <1>5, <1>7 DEF Stale
  <2>2. old = db.provider[p] /\ q \in AttachedTo(seen[r], p)
    BY <1>7, <2>1 DEF Linked, AttachedTo
  <2>3. db'.provider[p].platform = platform /\ db'.provider[p].scope = scope
    BY <1>4, <2>2 DEF Written
  <2>4. scope = old.scope \/ \A x \in Linked(db, q) \ {p} : db.provider[x].scope # scope
    BY <2>1, <2>2 DEF PatchProvider, ScopeConflict
  <2>5. platform = db.provisioner[q]
    <3>1. CASE platform = old.platform
      BY <1>3, <1>7, <2>2, <3>1 DEF Coherent, PlatformsAgree
    <3>2. CASE platform # old.platform
      BY <2>1, <2>2, <3>2 DEF PatchProvider
    <3> QED
      BY <3>1, <3>2
  <2>6. \A x \in Linked(db, q) \ {p} : db'.provider[x] = db.provider[x] /\ db.provider[x].scope # scope
    <3>1. \A x \in Linked(db, q) \ {p} : db.provider[x].scope # old.scope
      BY <1>3, <1>7, <2>2 DEF Coherent, ScopesAreUnique
    <3> QED
      BY <1>4, <2>4, <3>1 DEF Linked
  <2>7. ScopesAreUnique(q)'
    BY <1>3, <1>5, <2>3, <2>6 DEF Coherent, ScopesAreUnique
  <2>8. PlatformsAgree(q)'
    BY <1>3, <1>4, <1>5, <2>3, <2>5, <2>6 DEF Coherent, PlatformsAgree
  <2> QED
    BY <2>7, <2>8 DEF Coherent
<1> QED
  BY <1>2, <1>3, <1>6, <1>7, UntouchedStaysCoherent

LEMMA CreateProvisionerCoherent ==
  ASSUME IInv, NEW r \in Request, NEW x \in Provisioner, NEW platform \in Platform,
         CreateProvisioner(r, x, platform), NEW q \in Provisioner, q \notin raced'
  PROVE  Coherent(q)'
<1> DEFINE next == [db EXCEPT !.provisioner[x] = platform]
<1>1. Commit(r, next)
  BY DEF CreateProvisioner
<1>2. q \notin raced /\ db' = next
  BY <1>1, CommitFacts
<1>3. /\ db'.provider = db.provider /\ db'.links = db.links /\ db'.machine = db.machine
      /\ q # x => db'.provisioner[q] = db.provisioner[q]
  BY <1>2 DEF IInv, TypeOK, Database
<1>4. Linked(db', q) = Linked(db, q) /\ MachinesOf(db', q) = MachinesOf(db, q)
  BY <1>3 DEF Linked, MachinesOf, Discovered
<1>5. CASE q # x
  BY <1>2, <1>3, <1>4, <1>5, ShrinkingStaysCoherent, InvariantFacts
<1>6. CASE q = x
  <2>1. ~Running(db, q)
    BY <1>6, ConstantsAssumption DEF CreateProvisioner, Running
  <2>2. Linked(db, q) = {} /\ MachinesOf(db, q) = {}
    BY <2>1 DEF IInv, TypeOK, Linked
  <2> QED
    BY <1>4, <2>2 DEF Coherent, ScopesAreUnique, PlatformsAgree
<1> QED
  BY <1>5, <1>6

(* A provisioner moves to where its providers are, and only without machines.  *)
LEMMA MoveProvisionerCoherent ==
  ASSUME IInv, NEW r \in Request, NEW x \in Provisioner, NEW platform \in Platform,
         MoveProvisioner(r, x, platform), NEW q \in Provisioner, q \notin raced'
  PROVE  Coherent(q)'
<1> DEFINE next == [db EXCEPT !.provisioner[x] = platform]
<1>1. Commit(r, next)
  BY DEF MoveProvisioner
<1>2. q \notin raced /\ db' = next /\ (~Touches(q, db, db') \/ ~Stale(r, q, db, db'))
  BY <1>1, CommitFacts
<1>3. /\ db'.provider = db.provider /\ db'.links = db.links /\ db'.machine = db.machine
      /\ q # x => db'.provisioner[q] = db.provisioner[q]
      /\ db'.provisioner[x] = platform
  BY <1>2 DEF IInv, TypeOK, Database
<1>4. Linked(db', q) = Linked(db, q) /\ MachinesOf(db', q) = MachinesOf(db, q)
  BY <1>3 DEF Linked, MachinesOf, Discovered
<1>5. CASE q # x
  BY <1>2, <1>3, <1>4, <1>5, ShrinkingStaysCoherent, InvariantFacts
<1>6. CASE q = x /\ ~Stale(r, q, db, db')
  <2>1. /\ Linked(seen[r], q) = Linked(db, q) /\ MachinesOf(seen[r], q) = MachinesOf(db, q)
        /\ \A p \in Linked(db, q) : seen[r].provider[p] = db.provider[p]
    BY <1>4, <1>6 DEF Stale
  <2>2. MachinesOf(db, q) = {} /\ \A p \in Linked(db, q) : db.provider[p].platform = platform
    BY <1>6, <2>1 DEF MoveProvisioner, CanMove
  <2>3. ScopesAreUnique(q)'
    BY <1>2, <1>3, <1>4 DEF IInv, ScopesAreUniqueUnlessRaced, PlatformsAgreeUnlessRaced, Coherent, ScopesAreUnique
  <2> QED
    BY <1>3, <1>4, <1>6, <2>2, <2>3 DEF Coherent, PlatformsAgree
<1> QED
  BY <1>2, <1>5, <1>6, UntouchedStaysCoherent, InvariantFacts

LEMMA DeleteProvisionerCoherent ==
  ASSUME IInv, NEW r \in Request, NEW x \in Provisioner, DeleteProvisioner(r, x),
         NEW q \in Provisioner, q \notin raced'
  PROVE  Coherent(q)'
<1> DEFINE orphans == MachinesOf(seen[r], x) \cup MachinesOf(db, x)
           machine == [m \in Machine |-> IF m \in orphans THEN [db.machine[m] EXCEPT !.source = NoSource]
                                                          ELSE db.machine[m]]
           next == [db EXCEPT !.provisioner[x] = Deleted, !.links = {l \in @ : l[2] # x}, !.machine = machine]
<1>1. Commit(r, next)
  BY DEF DeleteProvisioner
<1>2. q \notin raced /\ db' = next
  BY <1>1, CommitFacts
<1>3. /\ db'.provider = db.provider /\ db'.links = {l \in db.links : l[2] # x} /\ db'.machine = machine
      /\ q # x => db'.provisioner[q] = db.provisioner[q]
  BY <1>2 DEF IInv, TypeOK, Database
<1>4. /\ \A m \in Machine : db'.machine[m] = db.machine[m] \/ db'.machine[m].source = NoSource
      /\ \A m \in Machine : db'.machine[m].platform = db.machine[m].platform
      /\ \A m \in MachinesOf(db, x) : db'.machine[m].source = NoSource
  BY <1>3 DEF IInv, TypeOK, Database, MachinesOf
<1>5. MachinesOf(db', q) \subseteq MachinesOf(db, q) /\ (q = x => MachinesOf(db', q) = {})
  BY <1>4, ConstantsAssumption DEF MachinesOf, Discovered
<1>6. Linked(db', q) \subseteq Linked(db, q) /\ (q = x => Linked(db', q) = {})
  BY <1>3 DEF Linked
<1>7. CASE q # x
  <2>1. \A m \in MachinesOf(db', q) : db'.machine[m].platform = db.machine[m].platform
    BY <1>4 DEF MachinesOf
  <2> QED
    BY <1>2, <1>3, <1>5, <1>6, <1>7, <2>1, ShrinkingStaysCoherent, InvariantFacts
<1>8. CASE q = x
  BY <1>5, <1>6, <1>8 DEF Coherent, ScopesAreUnique, PlatformsAgree
<1> QED
  BY <1>7, <1>8

(* A new machine is on the platform its provisioner was on when it was read.   *)
LEMMA DiscoverNewCoherent ==
  ASSUME IInv, NEW r \in Request, NEW x \in Provisioner, NEW m \in Machine, DiscoverNew(r, x, m),
         NEW q \in Provisioner, q \notin raced'
  PROVE  Coherent(q)'
<1> DEFINE next == [db EXCEPT !.machine[m] = [platform |-> seen[r].provisioner[x], source |-> x]]
<1>1. Commit(r, next)
  BY DEF DiscoverNew
<1>2. q \notin raced /\ db' = next /\ (~Touches(q, db, db') \/ ~Stale(r, q, db, db'))
  BY <1>1, CommitFacts
<1>3. /\ db'.provider = db.provider /\ db'.links = db.links /\ db'.provisioner = db.provisioner
      /\ \A n \in Machine \ {m} : db'.machine[n] = db.machine[n]
      /\ db'.machine[m].platform = seen[r].provisioner[x] /\ db'.machine[m].source = x
  BY <1>2 DEF IInv, TypeOK, Database
<1>4. Linked(db', q) = Linked(db, q)
  BY <1>3 DEF Linked
<1>5. CASE q # x
  <2>1. \A n \in MachinesOf(db', q) : n # m
    BY <1>3, <1>5 DEF MachinesOf
  <2>2. MachinesOf(db', q) \subseteq MachinesOf(db, q)
    BY <1>3, <2>1 DEF MachinesOf, Discovered
  <2>3. \A n \in MachinesOf(db', q) : db'.machine[n].platform = db.machine[n].platform
    BY <1>3, <2>1 DEF MachinesOf
  <2> QED
    BY <1>2, <1>3, <1>4, <2>2, <2>3, ShrinkingStaysCoherent, InvariantFacts
<1>6. CASE q = x /\ ~Stale(r, q, db, db')
  <2>1. db'.machine[m].platform = db.provisioner[q]
    BY <1>3, <1>6 DEF Stale
  <2>2. \A n \in MachinesOf(db', q) \ {m} : n \in MachinesOf(db, q) /\ db'.machine[n] = db.machine[n]
    BY <1>3 DEF MachinesOf, Discovered
  <2> QED
    BY <1>2, <1>3, <1>4, <2>1, <2>2 DEF IInv, ScopesAreUniqueUnlessRaced, PlatformsAgreeUnlessRaced, Coherent, ScopesAreUnique, PlatformsAgree
<1> QED
  BY <1>2, <1>5, <1>6, UntouchedStaysCoherent, InvariantFacts

(* A machine found by its external id belongs to the provisioner already, one   *)
(* found by its host name is on the provisioner's platform.                    *)
LEMMA DiscoverAgainCoherent ==
  ASSUME IInv, NEW r \in Request, NEW x \in Provisioner, NEW m \in Machine, DiscoverAgain(r, x, m),
         NEW q \in Provisioner, q \notin raced'
  PROVE  Coherent(q)'
<1> DEFINE old == seen[r].machine[m]
           source == Written(x, old.source, db.machine[m].source)
           next == [db EXCEPT !.machine[m].source = source]
<1>1. Commit(r, next)
  BY DEF DiscoverAgain
<1>2. q \notin raced /\ db' = next /\ (~Touches(q, db, db') \/ ~Stale(r, q, db, db'))
  BY <1>1, CommitFacts
<1>3. /\ db'.provider = db.provider /\ db'.links = db.links /\ db'.provisioner = db.provisioner
      /\ \A n \in Machine \ {m} : db'.machine[n] = db.machine[n]
      /\ db'.machine[m].platform = db.machine[m].platform
      /\ db'.machine[m].source \in {x, db.machine[m].source}
  BY <1>2 DEF IInv, TypeOK, Database, Written
<1>4. Linked(db', q) = Linked(db, q)
  BY <1>3 DEF Linked
<1>5. \A n \in MachinesOf(db', q) : db'.machine[n].platform = db.machine[n].platform
  BY <1>3 DEF MachinesOf
<1>6. CASE MachinesOf(db', q) \subseteq MachinesOf(db, q)
  BY <1>2, <1>3, <1>4, <1>5, <1>6, ShrinkingStaysCoherent, InvariantFacts
<1>7. CASE ~Stale(r, q, db, db') /\ ~(MachinesOf(db', q) \subseteq MachinesOf(db, q))
  <2>1. MachinesOf(db', q) \subseteq MachinesOf(db, q) \cup {m} /\ m \notin MachinesOf(db, q) /\ q = x
    BY <1>3, <1>7 DEF MachinesOf, Discovered
  <2>2. MachinesOf(seen[r], q) = MachinesOf(db, q) /\ seen[r].provisioner[q] = db.provisioner[q]
    BY <1>7 DEF Stale
  <2>3. old.source # q
    BY <2>1, <2>2 DEF DiscoverAgain, MachinesOf
  <2>4. old.platform = db.provisioner[q]
    BY <2>1, <2>2, <2>3 DEF DiscoverAgain
  <2>5. db.machine[m].platform = old.platform
    BY ConstantsAssumption DEF IInv, MachinesAreFixed, DiscoverAgain, Discovered
  <2>6. \A n \in MachinesOf(db', q) : db'.machine[n].platform = db.provisioner[q]
    BY <1>2, <1>5, <2>1, <2>4, <2>5, InvariantFacts DEF Coherent, PlatformsAgree
  <2> QED
    BY <1>2, <1>3, <1>4, <2>6, InvariantFacts DEF Coherent, ScopesAreUnique, PlatformsAgree
<1>8. CASE ~Touches(q, db, db')
  BY <1>2, <1>8, UntouchedStaysCoherent, InvariantFacts
<1> QED
  BY <1>2, <1>6, <1>7, <1>8

LEMMA DeleteMachineCoherent ==
  ASSUME IInv, NEW r \in Request, NEW m \in Machine, DeleteMachine(r, m),
         NEW q \in Provisioner, q \notin raced'
  PROVE  Coherent(q)'
<1> DEFINE next == [db EXCEPT !.machine[m] = [platform |-> Deleted, source |-> NoSource]]
<1>1. Commit(r, next)
  BY DEF DeleteMachine
<1>2. q \notin raced /\ db' = next
  BY <1>1, CommitFacts
<1>3. /\ db'.provider = db.provider /\ db'.links = db.links /\ db'.provisioner = db.provisioner
      /\ \A n \in Machine \ {m} : db'.machine[n] = db.machine[n]
      /\ db'.machine[m].source = NoSource
  BY <1>2 DEF IInv, TypeOK, Database
<1>4. \A n \in MachinesOf(db', q) : n # m
  BY <1>3, ConstantsAssumption DEF MachinesOf
<1>5. MachinesOf(db', q) \subseteq MachinesOf(db, q)
  BY <1>3, <1>4 DEF MachinesOf, Discovered
<1>6. \A n \in MachinesOf(db', q) : db'.machine[n].platform = db.machine[n].platform
  BY <1>3, <1>4 DEF MachinesOf
<1> QED
  BY <1>2, <1>3, <1>5, <1>6, ShrinkingStaysCoherent, InvariantFacts DEF Linked

(* Platforms of machines: a row is inserted once and only ever deleted.        *)
LEMMA PlatformStep ==
  ASSUME TypeOK, [Next]_vars, NEW m \in Machine
  PROVE  \/ db'.machine[m].platform \in {db.machine[m].platform, Deleted}
         \/ db.machine[m].platform = Unborn
<1>1. CASE db' = db
  BY <1>1
<1>2. ASSUME NEW r \in Request, ProviderRequest(r) PROVE db'.machine = db.machine
  <2> PICK p \in Provider :
        \/ \E platform \in Platform, scope \in Scope : PatchProvider(r, p, platform, scope)
        \/ \E platform \in Platform, scope \in Scope, qs \in SUBSET Provisioner :
             CreateProvider(r, p, platform, scope, qs)
        \/ \E q \in Provisioner : Attach(r, p, q) \/ Detach(r, p, q)
        \/ DeleteProvider(r, p)
    BY <1>2 DEF ProviderRequest
  <2>1. ASSUME NEW platform \in Platform, NEW scope \in Scope, PatchProvider(r, p, platform, scope)
        PROVE  db'.machine = db.machine
    BY <2>1 DEF PatchProvider, Commit, TypeOK, Database
  <2>2. ASSUME NEW platform \in Platform, NEW scope \in Scope, NEW qs \in SUBSET Provisioner,
               CreateProvider(r, p, platform, scope, qs)
        PROVE  db'.machine = db.machine
    BY <2>2 DEF CreateProvider, Commit, TypeOK, Database
  <2>3. ASSUME NEW q \in Provisioner, Attach(r, p, q) \/ Detach(r, p, q) PROVE db'.machine = db.machine
    BY <2>3 DEF Attach, Detach, Commit, TypeOK, Database
  <2>4. CASE DeleteProvider(r, p)
    BY <2>4 DEF DeleteProvider, Commit, TypeOK, Database
  <2> QED
    BY <2>1, <2>2, <2>3, <2>4
<1>3. ASSUME NEW r \in Request, NEW n \in Machine, DeleteMachine(r, n)
      PROVE  db'.machine[m].platform \in {db.machine[m].platform, Deleted}
  BY <1>3 DEF DeleteMachine, Commit, TypeOK, Database
<1>4. ASSUME NEW r \in Request, NEW q \in Provisioner,
             \/ \E platform \in Platform : CreateProvisioner(r, q, platform) \/ MoveProvisioner(r, q, platform)
             \/ DeleteProvisioner(r, q)
             \/ \E n \in Machine : DiscoverAgain(r, q, n)
      PROVE  db'.machine[m].platform = db.machine[m].platform
  <2>1. CASE \E platform \in Platform : CreateProvisioner(r, q, platform) \/ MoveProvisioner(r, q, platform)
    BY <2>1 DEF CreateProvisioner, MoveProvisioner, Commit, TypeOK, Database
  <2>2. CASE DeleteProvisioner(r, q)
    <3> DEFINE orphans == MachinesOf(seen[r], q) \cup MachinesOf(db, q)
    <3>1. db'.machine = [n \in Machine |-> IF n \in orphans THEN [db.machine[n] EXCEPT !.source = NoSource]
                                                            ELSE db.machine[n]]
      BY <2>2 DEF DeleteProvisioner, Commit, TypeOK, Database
    <3> QED
      BY <3>1 DEF TypeOK, Database
  <2>3. CASE \E n \in Machine : DiscoverAgain(r, q, n)
    BY <2>3 DEF DiscoverAgain, Commit, TypeOK, Database
  <2> QED
    BY <1>4, <2>1, <2>2, <2>3
<1>5. ASSUME NEW r \in Request, NEW q \in Provisioner, NEW n \in Machine, DiscoverNew(r, q, n)
      PROVE  db.machine[m].platform = Unborn \/ db'.machine[m].platform = db.machine[m].platform
  BY <1>5 DEF DiscoverNew, Commit, TypeOK, Database
<1>6. ASSUME NEW r \in Request, Load(r) \/ Abandon(r) PROVE db' = db
  BY <1>6 DEF Load, Abandon
<1>7. CASE UNCHANGED vars
  BY <1>1, <1>7 DEF vars
<1> QED
  BY <1>1, <1>2, <1>3, <1>4, <1>5, <1>6, <1>7 DEF Next, ProvisionerRequest

LEMMA SeenStep ==
  ASSUME TypeOK, [Next]_vars, NEW r \in Request
  PROVE  seen'[r] = seen[r] \/ seen'[r] = Empty \/ (seen'[r] = db /\ db' = db)
<1>1. ASSUME NEW x \in Request, NEW next, Commit(x, next) \/ Abandon(x)
      PROVE  seen'[r] = seen[r] \/ seen'[r] = Empty
  BY <1>1 DEF Commit, Abandon, Close, TypeOK
<1>2. ASSUME NEW x \in Request, Load(x) PROVE seen'[r] = seen[r] \/ (seen'[r] = db /\ db' = db)
  BY <1>2 DEF Load, TypeOK
<1>3. ASSUME NEW x \in Request, ProviderRequest(x) PROVE \E next : Commit(x, next)
  BY <1>3 DEF ProviderRequest, PatchProvider, CreateProvider, Attach, Detach, DeleteProvider
<1>4. ASSUME NEW x \in Request, ProvisionerRequest(x) PROVE \E next : Commit(x, next)
  BY <1>4 DEF ProvisionerRequest, CreateProvisioner, MoveProvisioner, DeleteProvisioner, DiscoverNew, DiscoverAgain
<1>5. ASSUME NEW x \in Request, NEW m \in Machine, DeleteMachine(x, m) PROVE \E next : Commit(x, next)
  BY <1>5 DEF DeleteMachine
<1>6. CASE UNCHANGED vars
  BY <1>6 DEF vars
<1> QED
  BY <1>1, <1>2, <1>3, <1>4, <1>5, <1>6 DEF Next

LEMMA MachinesAreFixedInvariance == TypeOK /\ MachinesAreFixed /\ [Next]_vars => MachinesAreFixed'
<1> SUFFICES ASSUME TypeOK, MachinesAreFixed, [Next]_vars, NEW r \in Request, NEW m \in Machine,
                    Discovered(seen'[r], m)
             PROVE  db'.machine[m].platform \in {seen'[r].machine[m].platform, Deleted}
  BY DEF MachinesAreFixed
<1>1. ~Discovered(Empty, m)
  BY ConstantsAssumption DEF Empty, Discovered
<1>2. CASE seen'[r] = db /\ db' = db
  BY <1>2
<1>3. CASE seen'[r] = seen[r]
  <2>1. db.machine[m].platform \in {seen[r].machine[m].platform, Deleted} /\ seen[r].machine[m].platform \in Platform
    BY <1>3 DEF MachinesAreFixed, Discovered
  <2> QED
    BY <1>3, <2>1, PlatformStep, ConstantsAssumption
<1> QED
  BY <1>1, <1>2, <1>3, SeenStep

-----------------------------------------------------------------------------
(* Theorems *)

LEMMA CoherenceInvariance ==
  ASSUME IInv, [Next]_vars, NEW q \in Provisioner, q \notin raced'
  PROVE  Coherent(q)'
<1>1. ASSUME NEW r \in Request, ProviderRequest(r) PROVE Coherent(q)'
  BY <1>1, PatchProviderCoherent, CreateProviderCoherent, AttachCoherent, DetachCoherent,
     DeleteProviderCoherent DEF ProviderRequest
<1>2. ASSUME NEW r \in Request, ProvisionerRequest(r) PROVE Coherent(q)'
  BY <1>2, CreateProvisionerCoherent, MoveProvisionerCoherent, DeleteProvisionerCoherent,
     DiscoverNewCoherent, DiscoverAgainCoherent DEF ProvisionerRequest
<1>3. ASSUME NEW r \in Request, NEW m \in Machine, DeleteMachine(r, m) PROVE Coherent(q)'
  BY <1>3, DeleteMachineCoherent
<1>4. CASE db' = db /\ raced' = raced
  BY <1>4, InvariantFacts DEF Coherent, ScopesAreUnique, PlatformsAgree
<1>5. ASSUME NEW r \in Request, Load(r) \/ Abandon(r) PROVE db' = db /\ raced' = raced
  BY <1>5 DEF Load, Abandon
<1> QED
  BY <1>1, <1>2, <1>3, <1>4, <1>5 DEF Next, vars

(* The strengthening is inductive: a machine keeps its platform, and a          *)
(* provisioner whose changes were never decided on stale rows is coherent.     *)
THEOREM InductiveInvariant == Spec => []IInv
<1>1. Init => IInv
  <2> SUFFICES ASSUME Init PROVE IInv
    OBVIOUS
  <2>1. \A q \in Provisioner : Linked(db, q) = {} /\ MachinesOf(db, q) = {}
    BY ConstantsAssumption DEF Init, Empty, Linked, MachinesOf, Discovered
  <2>2. MachinesAreFixed
    BY ConstantsAssumption DEF Init, Empty, MachinesAreFixed, Discovered
  <2> QED
    BY <2>1, <2>2, InitTypeOK DEF IInv, ScopesAreUniqueUnlessRaced, PlatformsAgreeUnlessRaced,
       ScopesAreUnique, PlatformsAgree
<1>2. IInv /\ [Next]_vars => IInv'
  <2> SUFFICES ASSUME IInv, [Next]_vars PROVE IInv'
    OBVIOUS
  <2>1. \A q \in Provisioner : q \notin raced' => Coherent(q)'
    BY CoherenceInvariance
  <2> QED
    BY <2>1, TypeInvariance, MachinesAreFixedInvariance
    DEF IInv, ScopesAreUniqueUnlessRaced, PlatformsAgreeUnlessRaced, Coherent
<1> QED
  BY <1>1, <1>2, PTL DEF Spec

(* The checks of the API suffice for scopes, for any number of connectors and   *)
(* requests, as long as no request decides on stale rows.                      *)
THEOREM ScopesStayUnique == Spec => []ScopesAreUniqueUnlessRaced
<1>1. IInv => ScopesAreUniqueUnlessRaced
  BY DEF IInv
<1> QED
  BY <1>1, InductiveInvariant, PTL

(* Likewise for the platforms of connectors and machines. *)
THEOREM PlatformsStayTogether == Spec => []PlatformsAgreeUnlessRaced
<1>1. IInv => PlatformsAgreeUnlessRaced
  BY DEF IInv
<1> QED
  BY <1>1, InductiveInvariant, PTL
=============================================================================

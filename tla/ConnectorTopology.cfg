SPECIFICATION Spec
CONSTANTS
  Platform = {a, b}
  Provider = {p1, p2}
  Provisioner = {q1}
  Machine = {m1}
  Scope = {cpu, ram}
  Request = {r1, r2}
  Unborn = Unborn
  Deleted = Deleted
  NoSource = NoSource
SYMMETRY Symmetry
INVARIANTS TypeOK ScopesAreUniqueUnlessRaced PlatformsAgreeUnlessRaced

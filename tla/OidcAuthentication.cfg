\* Two requests and one page at once; entries live one tick, fetches take one at most
CONSTANTS
  k = k
  Usable = Usable
  Unusable = Unusable
  Empty = Empty
  Lost = Lost
  None = None
  Request = {r1, r2}
  Page = {d}
  Kid = {k}
  Call <- MCCall
  TTL = 1
  Latency = 1
  MaxTime = 3
  MaxChanges = 1
SPECIFICATION Spec
SYMMETRY MCSymmetry
INVARIANTS TypeOK AcceptanceIsRecent RejectionHasCause

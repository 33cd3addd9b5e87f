\* Two workers, two provisioners of one platform; a discovery returns one of three reports
CONSTANTS
  None = None
  e1 = e1
  e2 = e2
  h1 = h1
  h2 = h2
  Worker = {w1, w2}
  Provisioner = {p1, p2}
  ExternalId = {e1, e2}
  Hostname = {h1, h2}
  Resource <- MCResource
  Size = {1, 2}
  Report <- MCReport
  MaxId = 3
  MaxRuns = 3
SPECIFICATION Spec
SYMMETRY MCSymmetry
INVARIANTS TypeOK ValuesAreRecorded AuditIsExact ConflictHasCause
PROPERTY RunIsExact
CHECK_DEADLOCK FALSE

\* Two rebuilds at once; the machines change once, applications are purged once
CONSTANTS
  None = None
  Unknown = Unknown
  prod = prod
  a = a
  Machine = {m1, m2}
  Code = {a}
  Dimension <- MCDimension
  Reported <- MCReported
  Worker = {w1, w2}
  MaxChanges = 1
  MaxPurges = 1
  MaxFailures = 1
SPECIFICATION FairSpec
INVARIANT TypeOK
PROPERTIES RebuildIsBracketed Converges

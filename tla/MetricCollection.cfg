\* Two workers; cpu and ram are collected, disk has its sample or not
CONSTANTS
  Window = 1
  MinCpu = 1
  MaxCpu = 64
  MinRam = 1
  MaxRam = 64
  CapacityStep = 1
  None = None
  Worker = {w1, w2}
  Collected <- MCCollected
  Switched <- MCSwitched
  Value = {20, 90}
  Flavor = {4, 8}
SPECIFICATION Spec
SYMMETRY MCSymmetry
INVARIANTS TypeOK CurrentUnlessOverlapped ReadyIsMeasured

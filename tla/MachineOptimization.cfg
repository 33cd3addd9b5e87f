\* A window of two samples, a catalog of 2 to 8 cores and 2 to 8 steps of 4
CONSTANTS
  Window = 2
  MinCpu = 2
  MaxCpu = 8
  MinRam = 8
  MaxRam = 32
  CapacityStep = 4
  None = None
  Capacity <- MCCapacity
  Total <- MCTotal
SPECIFICATION RowSpec
INVARIANTS RowTypeOK ProposalsCarryTheLoad ProposalsSettle
PROPERTY MoreLoadNeverLess

SPECIFICATION Spec
CONSTANTS
  App = {1, 2}
  InitialApps = {1}
  Dispatcher = {d1, d2}
  Worker = {w1}
  Window = 1
  RetryAfter = 1
  TickSeconds = 1
  ConfiguredBatch = 0
  MaxDelay = 1
  MaxQueue = 2
  MaxExtra = 1
  MaxFailures = 1
  MaxCrashes = 0
SYMMETRY Symmetry
INVARIANTS TypeOK SelectionStillValid ReservationCarried
PROPERTY ReservationsAreLeases

SPECIFICATION FairSpec
CONSTANTS
  App = {1, 2}
  InitialApps = {1, 2}
  Dispatcher = {d1}
  Worker = {w1}
  Window = 2
  RetryAfter = 1
  TickSeconds = 1
  ConfiguredBatch = 1
  MaxDelay = 1
  MaxQueue = 2
  MaxExtra = 0
  MaxFailures = 1
  MaxCrashes = 1
PROPERTY DueIsSynced

SPECIFICATION FairSpec
CONSTANTS
  Provisioner = {p1, p2}
  Dispatcher = {d1, d2}
  Period <- CronPeriods
  MaxTime = 1
  MaxFailures = 1
  MaxCrashes = 1
INVARIANTS TypeOK OneDispatchUnlessPublishFails ExtraDispatchesAreFailures ReservedIsPublished
PROPERTY DueIsPublished

\* Two machines of two applications; two commits of others between the statements
CONSTANTS
  Window = 1
  MinCpu = 1
  MaxCpu = 16
  MinRam = 1
  MaxRam = 16
  CapacityStep = 1
  None = None
  Unknown = Unknown
  a = a
  b = b
  p = p
  q = q
  Machine <- MCMachine
  Platform = {p, q}
  PlatformOf <- MCPlatformOf
  Hostname <- MCHostname
  Columns <- MCColumns
  Key <- MCKey
  Rank <- MCRank
  Size <- MCSize
  Sight <- MCSight
  Day <- MCDay
  Installed <- MCInstalled
  Sampled <- MCSampled
  WindowDays = 1
  Limit = 1
  Asks <- MCAsks
  MaxCommits = 2
SPECIFICATION ReadSpec
INVARIANTS ReadTypeOK SummaryIsSound StatsAreOfOneWindow PagesCoverEachRow

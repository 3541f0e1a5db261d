SPECIFICATION FailingFileSpec
CONSTANTS
  NoSide = NoSide
  NoHash = NoHash
  p1 = p1
  p2 = p2
  Paths <- TwoPaths
  Concurrency = 1
  BreakerThreshold = 2
  BreakerCooldown = 1
  RetryDelays <- TwoTicks
  MaxSyncs = 4
  Mode = "last_write_wins"
  Tolerance = 0
  ProtectDeletes = FALSE
  BadPaths <- Bad
  FirstVersions = 1
  OfficeWrites = FALSE
  MidCycleLoss = TRUE
  MaxEdits = 2
  MaxFailures = 0
  MaxOutages = 0
  MaxLocks = 0
  MaxCrashes = 0
  MaxOperator = 0
PROPERTIES OneFailingFileDoesNotStopTheShare

SPECIFICATION TwoFilesSpec
CONSTANTS
  NoSide = NoSide
  NoHash = NoHash
  p1 = p1
  p2 = p2
  Paths <- TwoPaths
  Concurrency = 2
  BreakerThreshold = 2
  BreakerCooldown = 1
  RetryDelays <- OneTick
  MaxSyncs = 9
  Mode = "last_write_wins"
  Tolerance = 0
  ProtectDeletes = FALSE
  BadPaths <- NoPaths
  FirstVersions = 1
  OfficeWrites = TRUE
  MidCycleLoss = TRUE
  MaxEdits = 2
  MaxFailures = 3
  MaxOutages = 1
  MaxLocks = 1
  MaxCrashes = 1
  MaxOperator = 1
INVARIANTS OneProbe
PROPERTIES BreakerImplements CyclesSettle

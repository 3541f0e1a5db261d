SPECIFICATION OneFileSpec
CONSTANTS
  NoSide = NoSide
  NoHash = NoHash
  p1 = p1
  p2 = p2
  Paths <- OnePath
  Concurrency = 1
  BreakerThreshold = 2
  BreakerCooldown = 1
  RetryDelays <- OneTick
  MaxSyncs = 9
  Mode = "last_write_wins"
  Tolerance = 0
  ProtectDeletes = FALSE
  BadPaths <- NoPaths
  FirstVersions = 1
  OfficeWrites = TRUE
  MidCycleLoss = TRUE
  MaxEdits = 4
  MaxFailures = 1
  MaxOutages = 1
  MaxLocks = 0
  MaxCrashes = 2
  MaxOperator = 0
INVARIANTS TypeOK NoSilentDivergence
PROPERTIES OfflineCycleDestroysNothing MachineWorkIsKept

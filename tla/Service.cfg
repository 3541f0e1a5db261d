SPECIFICATION MCSpec
CONSTANTS
  None = None
  Dirs = {"folder"}
  Files = {"inner", "outer"}
  Root = "/"
  Parent <- ParentOf
  Looks = {"old", "new"}
  Ceilings = {2, 9}
  ChunkSize = 2
  MaxTouches = 1
  MaxSkips = 1
  MaxBreaks = 1
  MaxLoops = 2
  CachePaths = {"a", "b"}
  MaxCacheTouches = 2
  MaxLosses = 1
  MaxFaults = 2
  MaxTroubles = 1
  MaxSignals = 2
  MaxKills = 1
  Pages = {"page"}
  BufferSize = 2
  MaxStreams = 1
  MaxEvents = 3
  MaxDrops = 2
  MaxRestarts = 1
  MaxMounts = 1
  MaxFailures = 1
  MaxAsks = 2
  MaxFiles = 2
  PerFile = 1
  Torn = {3}
  Sync = {2, 3}
  ListLimit = 2
  ReplayLimit = 3
  MaxLines = 4
  MaxEnds = 1
  MaxClicks = 2
  Hour = 2
  Retained = 1
  Deadline = 4
  MaxTime = 3
  MaxPasses = 2
  MaxBegins = 3
  MaxChanges = 1
  MaxSteps = 1
INVARIANTS Types ListenersAreTold EndsInOrder
PROPERTIES SidesAreSeen
CHECK_DEADLOCK FALSE

SPECIFICATION MCSpec
CONSTANTS
  None = None
  NoRow = NoRow
  NoRequest = NoRequest
  Sentinel = Sentinel
  Torn = Torn
  Blank = Blank
  NoShare = NoShare
  MaxHelperRequests = 2
  MaxHelperMishaps = 1
  Width = 3
  MaxNetworkSaves = 1
  MaxNetworkFaults = 1
  MaxLinks = 1
  ScheduleIds = {1, 2}
  Managed = 1
  CatchupGrace = 1
  MaxScheduleTime = 5
  MaxScheduleEdits = 1
  MaxRuns = 2
  MaxScheduleStarts = 2
  Versions = {1, 2}
  NoTag = NoTag
  MaxUpdateRequests = 3
  MaxUpdateFaults = 1
  MaxUpdateCuts = 1
  MaxOsRuns = 2
  MaxOsFaults = 1
  MaxBoots = 1
  Windows = {"w1", "w2"}
  LastRelease = 2
  MaxConfigEdits = 2
  MaxOpens = 2
  MaxConfigStarts = 3
  MaxThrows = 1
  MaxSwitches = 1
  Hosts = {"h1", "h2"}
  HostAddresses = {"a1", "a2"}
  MaxCertChanges = 3
  MaxBreaks = 1
  Tabs = {"t1", "t2"}
  MaxSessions = 2
  IdleTime = 1
  LifeTime = 1
  LoginWindow = 1
  MaxFailures = 1
  MaxSignTime = 2
  MaxPasswords = 2
  MaxEnds = 1
  WindowMs = 3
  Limit = 2
  MaxRateTime = 9
  MaxHits = 6
  Paths = {"p", "q"}
  Texts = {"c1", "c2"}
  MaxHistoryWrites = 2
  MaxLoads = 2
  MaxClicks = 2
  MaxServerFaults = 1
  MaxFieldEdits = 2
  MaxPresses = 1
  MaxFileWrites = 2
  MaxFileRequests = 2
  MaxLists = 2
  Machines = {"m1"}
  Leasable = {"i1", "i2"}
  MaxDhcpChanges = 2
  MaxLeases = 2
  OptionSections = {"s1", "s2"}
  Keep = 2
  MaxOptionEdits = 2
  MaxImports = 1
  MaxCopyTime = 3
  MaxCopyCuts = 2
INVARIANTS Types HelperIsCareful InterfaceIsSafe SchedulesHold UpdatesEndWell
PROPERTIES RulesBeforeRoutes StatusSettles SettingsHold
CHECK_DEADLOCK FALSE

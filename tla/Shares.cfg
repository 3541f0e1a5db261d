SPECIFICATION MCSpec
CONSTANTS
  Shares = {1, 2}
  Place <- Places
  Users = {"pm", "tnc-a"}
  Legacy <- OldAccounts
  NoUser = NoUser
  NoRow = NoRow
  NoFile = NoFile
  NoCall = NoCall
  Absent = Absent
  NoController = NoController
  Twins <- NameTwins
  MaxEdits = 2
  MaxRefusals = 1
  MaxRestarts = 1
  Grace = 2
  Stability = 1
  MaxChanges = 4
  MaxHolds = 1
  Supervised = {"share"}
  Calls = {"c1"}
  Instances = {1, 2, 3}
  Prints = {"p1", "p2"}
  NoShare = "none"
  NoInstance = 0
  MaxSupEdits = 2
  MaxPauses = 1
  MaxOutages = 1
  MaxSupFailures = 1
  MaxSupRestarts = 1
  OfflineAfter = 2
  LastBackoff = 2
  Ticks = {"t1", "t2"}
  Attempts = {"a1"}
  MaxStarts = 2
  MaxMountOutages = 2
  MaxOwnerOps = 2
  LastAttempt = 2
  MaxSaves = 2
  MaxFaults = 2
  MaxCuts = 1
  Machines = {"m1", "m2"}
  Files = {"a|b", "a b"}
  Piped = {"a|b"}
  Spaced = {"a b"}
  Half = "half"
  Word = "word"
  MaxWire = 2
  MaxQueue = 2
  Burst = 1
  MaxOpens = 2
  MaxTroubles = 2
INVARIANTS Types SambaFollowsTheTable SharesAreKeptGoing
PROPERTIES WindowsAreKept NothingEndsUnderACycle SharesRecover
CHECK_DEADLOCK FALSE

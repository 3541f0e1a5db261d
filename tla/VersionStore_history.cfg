SPECIFICATION Spec
CONSTANTS
  NoFile = NoFile
  Paths = {p1}
  Contents = {c1, c2}
  Workers = {w1, w2}
  KeepCount = 2
  KeepDays = 1
  MaxCaptures = 3
  MaxSaves = 2
  MaxCrashes = 1
  MaxClock = 2
SYMMETRY Symmetry
INVARIANTS TypeOK ContentIsLostOnlyToARace PlanFollowsThePolicy
PROPERTY RestoreGivesTheVersion
CHECK_DEADLOCK FALSE

SPECIFICATION Spec
CONSTANTS
  NoFile = NoFile
  Paths = {p1}
  Contents = {c1, c2}
  Workers = {w1, w2}
  KeepCount = 1
  KeepDays = 1
  MaxCaptures = 2
  MaxSaves = 0
  MaxCrashes = 0
  MaxClock = 0
INVARIANT RowsHaveBlobs
CHECK_DEADLOCK FALSE

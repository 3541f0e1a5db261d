SPECIFICATION Spec
CONSTANTS
  Windows = {w1}
  LastRelease = 1
  NoRow = NoRow
  Sentinel = Sentinel
  MaxEdits = 2
  MaxOpens = 1
  MaxStarts = 1
  MaxThrows = 0
  MaxSwitches = 0
PROPERTIES OnePageKeepsItsEdits
CHECK_DEADLOCK FALSE

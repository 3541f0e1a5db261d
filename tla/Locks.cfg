SPECIFICATION FairSpec
CONSTANTS
  Paths = {p1}
  Machines = {m1, m2}
  NoMachine = NoMachine
  NoLock = NoLock
  NoTask = NoTask
  NoStatus = NoStatus
  StatusFailed = StatusFailed
  MaxEvents = 1
  MaxOpens = 2
  MaxOperator = 1
  MaxRefusals = 1
  MaxOutages = 1
  MaxCrashes = 1
INVARIANTS TypeOK OkIsEnforced TakenIsOnRecord
PROPERTIES NotOursStaysTheirs LocksFollowPrograms

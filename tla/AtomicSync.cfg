SPECIFICATION MCSpec
CONSTANTS
  NoSide = NoSide
  NoHash = NoHash
  InitSides <- NoSides
  Configs <- OpenConfigs
  ServerSkew <- HistorySkew
  MaxEdits = 3
  MaxChanges = 3
INVARIANTS NoUncapturedDestruction MirrorSymmetry LostOnlyToACapture
PROPERTIES OfflineDestroysNothing DeleteNeverBeatsAnEdit HistoriesSettle

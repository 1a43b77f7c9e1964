SPECIFICATION FairSpec
CONSTANTS
  r1 = r1
  r2 = r2
  Orders = {1, 2, 3}
  Values = {"new"}
  Listed = {}
  Imported = {1, 2, 3}
  HandedOver = {3}
  Dead = {}
  Runs = {r1, r2}
  Ozon = TRUE
  Limit = 1
  ChunkSize = 1
  MayReturn = TRUE
  MaxVer = 1
  MaxFaults = 1
  MaxMoves = 1
INVARIANTS
  SyncTypeOK
  LaneTurns
PROPERTIES
  EveryOrderRead
CHECK_DEADLOCK FALSE

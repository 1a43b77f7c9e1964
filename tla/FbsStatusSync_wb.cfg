SPECIFICATION FairSpec
CONSTANTS
  r1 = r1
  r2 = r2
  Orders = {1, 2}
  Values = {"new", "cancel"}
  Listed = {"new"}
  Imported = {}
  HandedOver = {}
  Dead = {}
  Runs = {r1}
  Ozon = FALSE
  Limit = 3
  ChunkSize = 1
  MayReturn = TRUE
  MaxVer = 2
  MaxFaults = 1
  MaxMoves = 0
INVARIANTS
  JournalKeepsItsWord
PROPERTIES
  EventuallyCurrent
CHECK_DEADLOCK FALSE

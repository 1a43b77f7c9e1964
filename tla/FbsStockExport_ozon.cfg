SPECIFICATION FairSpec
CONSTANTS
  i1 = i1
  r1 = r1
  r2 = r2
  Items = {i1}
  Runs = {r1, r2}
  Wb = FALSE
  Quantities = {0, 1}
  Limit = 1
  MaxChanges = 2
  MaxFaults = 1
  MaxRebinds = 0
  None = None
INVARIANTS
  SyncedIsExported
  OneUpdateAtATime
PROPERTIES
  ExportPromise
  EventuallyExportedOrRefused

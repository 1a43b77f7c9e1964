SPECIFICATION Spec
CONSTANTS
  i1 = i1
  i2 = i2
  r1 = r1
  r2 = r2
  Items = {i1, i2}
  Runs = {r1, r2}
  Wb = FALSE
  Quantities = {0, 1}
  Limit = 2
  MaxChanges = 1
  MaxFaults = 1
  MaxRebinds = 1
  None = None
SYMMETRY Symmetry
VIEW AllButRemote
INVARIANTS
  SyncedMeansSent

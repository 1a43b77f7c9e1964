SPECIFICATION FairSpec
CONSTANTS
  i1 = i1
  r1 = r1
  r2 = r2
  Items = {i1}
  Runs = {r1, r2}
  Wb = TRUE
  Quantities = {0, 1}
  Limit = 1
  MaxChanges = 1
  MaxFaults = 2
  MaxRebinds = 0
  None = None
PROPERTY
  EventuallyExported

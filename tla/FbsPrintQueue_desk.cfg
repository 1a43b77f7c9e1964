SPECIFICATION FairSpec
CONSTANTS
  w1 = w1
  w2 = w2
  a1 = a1
  order1 = order1
  supply1 = supply1
  Windows = {w1, w2}
  Agents = {a1}
  OrderLabels = {order1}
  Supplies = {supply1}
  Ready = {supply1}
  MaxAttempts = 2
  JobLimit = 2
  SupplyLimit = 1
  LongLease = FALSE
  MaySlow = TRUE
  MaxRows = 2
  MaxFaults = 2
  MaxRequests = 2
INVARIANTS
  PrintTypeOK
  OneOpenJobPerKey
  NoSecondCopy
  AttemptsBounded
  DispatchedIsOnPaper
PROPERTIES
  EventuallySettled
CHECK_DEADLOCK FALSE

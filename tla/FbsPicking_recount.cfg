CONSTANTS
  o1 = o1  o2 = o2
  b1 = b1  b2 = b2  b3 = b3
  p1 = p1  p2 = p2
  c1 = c1  c2 = c2
  k1 = k1  k2 = k2
  Orders = {o1, o2}
  Balances = {b1}
  Waves = {1, 2}
  Pickers = {p1, p2}
  Carts = {c1}
  Controllers = {}
  Need <- NeedOnes
  Stock <- StockOfOne
  Rank <- RankOfOne
  UpperTier = {}
  Statuses = {"open", "cancelled"}
  WaveLimit = 1
  None = None
SPECIFICATION PickingSpec
PROPERTY ReportedStockStaysClosed
CHECK_DEADLOCK FALSE

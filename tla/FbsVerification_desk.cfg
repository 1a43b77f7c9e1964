CONSTANTS
  o1 = o1  o2 = o2
  b1 = b1  b2 = b2  b3 = b3
  p1 = p1  p2 = p2
  c1 = c1  c2 = c2
  k1 = k1  k2 = k2
  Orders = {o1, o2}
  Balances = {b1, b2}
  Waves = {1, 2, 3}
  Pickers = {p1, p2}
  Carts = {c1, c2}
  Controllers = {k1, k2}
  Need <- NeedOneTwo
  Stock <- StockThree
  Rank <- RankOfTwo
  UpperTier = {}
  Statuses = {"open", "confirm", "cancelled"}
  WaveLimit = 1
  None = None
SPECIFICATION Spec
INVARIANTS ProgressSound LabelMeansComplete DoneWaveIsLabelled NoWaveLeftOpen CountersAgree WaveNeverStalls
CHECK_DEADLOCK FALSE
SYMMETRY People

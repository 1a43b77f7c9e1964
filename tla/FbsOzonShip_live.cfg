SPECIFICATION FairSpec
CONSTANTS
  w1 = w1
  w2 = w2
  Workers = {w1, w2}
  MaxAttempts = 2
  MaxFaults = 2
  MaxStalls = 0
INVARIANTS
  ShipTypeOK
  DoubtIsChecked
  KeyIsNotSpent
PROPERTIES
  NoBlindResend
  EventuallyLabelled
CHECK_DEADLOCK FALSE

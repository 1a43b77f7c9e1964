CONSTANTS
  o1 = o1  o2 = o2
  Orders = {o1, o2}
  MaxAttempts = 2
  MaxTrouble = 2
SPECIFICATION Spec
INVARIANTS HandoverTypeOK TakenBackIsFree DoubtIsPursued PendingIsUnderWay
PROPERTIES ShippedAsVerified
CHECK_DEADLOCK FALSE
SYMMETRY OrderSymmetry

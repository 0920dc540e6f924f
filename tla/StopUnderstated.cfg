SPECIFICATION Spec
CONSTANTS
  g = g
  a = a
  none = none
  Receipt <- mcReceipt
  NoReceipt = none
  Generation <- mcGeneration
  Predecessor <- mcPredecessor
  MaxGeneration = 3
  NoHead = NoHead
  Request <- oneRequest
  NoRow = NoRow
  Proc = {p1, p2}
  Free = Free
  DirectLedger = TRUE
  OtherReceipts = {}
PROPERTY StopNeverUnderstates
CHECK_DEADLOCK FALSE

SPECIFICATION PlanLiveSpec
CONSTANTS
  g = g
  a = a
  b = b
  none = none
  Receipt <- mcReceipt
  NoReceipt = none
  Generation <- mcGeneration
  Predecessor <- mcPredecessor
  MaxGeneration = 3
  NoHead = NoHead
  Request <- oneRequest
  NoRow = NoRow
  Proc = {p1, p2}
  Free = Free
  NoPlan = NoPlan
  DirectLedger = FALSE
  OtherReceipts = {}
PROPERTIES DispatchIsReconciled StopIsCertified
CHECK_DEADLOCK FALSE

SPECIFICATION PlanSpec
CONSTANTS
  g = g
  a = a
  b = b
  none = none
  Receipt <- mcReceipt
  NoReceipt = none
  Generation <- mcGeneration
  Predecessor <- mcPredecessor
  MaxGeneration = 3
  NoHead = NoHead
  Request <- openRequest
  NoRow = NoRow
  Proc = {p1, p2}
  Free = Free
  NoPlan = NoPlan
  DirectLedger = TRUE
  OtherReceipts = {b}
SYMMETRY Symmetric
INVARIANTS AttemptedOnce AbandonedStaysFenced
PROPERTY SuccessorRecordStands
CHECK_DEADLOCK FALSE

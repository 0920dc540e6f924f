SPECIFICATION PlanSpec
CONSTANTS
  g = g
  a = a
  b = b
  none = none
  Receipt <- mcReceipt
  NoReceipt = none
  Generation <- mcGeneration
  Predecessor <- mcPredecessor
  MaxGeneration = 3
  NoHead = NoHead
  Request <- mcRequest
  NoRow = NoRow
  Proc = {p1, p2}
  Free = Free
  NoPlan = NoPlan
  DirectLedger = FALSE
  OtherReceipts = {}
SYMMETRY Symmetric
INVARIANTS PlanTypeOK RecoveryStands GateTellsTruth
PROPERTY ImplementsOneShotCas
CHECK_DEADLOCK FALSE

SPECIFICATION Spec
CONSTANTS
  g = g
  a = a
  b = b
  none = none
  Receipt <- mcReceipt
  NoReceipt = none
  Generation <- mcGeneration
  Predecessor <- mcPredecessor
  MaxGeneration = 3
  NoHead = NoHead
  Request <- mcRequest
  NoRow = NoRow
  Local = {l1, l2}
  Proc = {p1, p2}
  Free = Free
  MaxEpoch = 2
  MaxBeat = 2
SYMMETRY Symmetric
INVARIANTS TypeOK OneChain ActsOnce WordsStand
PROPERTIES ActsAsSeen ImplementsOneWayUpdate
CHECK_DEADLOCK FALSE

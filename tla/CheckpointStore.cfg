SPECIFICATION Spec
CONSTANTS
  g = g
  a = a
  b = b
  c = c
  none = none
  Receipt <- mcReceipt
  NoReceipt = none
  Generation <- mcGeneration
  Predecessor <- mcPredecessor
  MaxGeneration = 3
  Installation = {i1}
  Client = {c1, c2}
  Nonce = {n1, n2}
  NoHead = NoHead
  Idle = Idle
  Fresh = 1
  Retention = 1
  Validity = 1
  MaxWindow = 2
  Skew = 1
  MaxTime = 2
SYMMETRY Symmetric
INVARIANTS TypeOK ChallengeAnsweredOnce StatementsAgree AcceptedIsFresh
PROPERTY ImplementsFreshHeadRead
CHECK_DEADLOCK FALSE

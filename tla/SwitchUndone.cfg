SPECIFICATION LiveSpec
CONSTANTS
  Process = {p1, p2}
  Transaction = {a}
  Installed = Installed
  Expectations <- mcExpectations
  MaxGeneration = 2
  None = None
  Orphaned = Orphaned
PROPERTY SwitchIsUndone

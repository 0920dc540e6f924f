SPECIFICATION Spec
CONSTANTS
  Process = {p1}
  Transaction = {a}
  Installed = Installed
  Expectations <- mcExpectations
  MaxGeneration = 2
  None = None
  Orphaned = Orphaned
INVARIANT PendingSwitchCanBeDrafted

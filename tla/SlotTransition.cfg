SPECIFICATION Spec
CONSTANTS
  Process = {p1, p2}
  Transaction = {a, b}
  Installed = Installed
  Expectations <- mcExpectations
  MaxGeneration = 3
  None = None
  Orphaned = Orphaned
SYMMETRY Symmetric
INVARIANTS TypeOK ProposalKeepsBothSides AttestedSlotKept PointerNeverAmbiguous
PROPERTIES ImplementsReversibleSwitch RecoveredStaysDown

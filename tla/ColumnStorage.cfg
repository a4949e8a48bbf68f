SPECIFICATION Spec
CONSTANTS
  v1 = v1
  v2 = v2
  Values = {v1, v2}
  Junk = Junk
  MaxRows = 4
  Threshold = 1
  ExpandCount = 2
  MaxGrow = 2
  PendingCapacity = 1
  Allowed = {}
INVARIANTS
  FileHoldsFlushed
  SavedIsOnDisk
PROPERTIES
  ImplementsRowStore
SYMMETRY ValueSymmetry
CHECK_DEADLOCK FALSE

SPECIFICATION Spec
CONSTANTS
  a = a
  b = b
  NULL = NULL
  Columns = {a, b}
  Values = {1, 2}
  ChunkRows = 2
  MaxRows = 5
  Nullable = {b}
  Allowed = {}
INVARIANTS
  PruneSound
  RangeSound
CHECK_DEADLOCK FALSE

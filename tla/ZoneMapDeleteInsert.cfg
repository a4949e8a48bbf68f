SPECIFICATION Spec
CONSTANTS
  a = a
  NULL = NULL
  Columns = {a}
  Values = {1, 2, 3}
  ChunkRows = 2
  MaxRows = 6
  Nullable = {}
  Allowed = {"append after delete"}
INVARIANTS
  PruneSound
CHECK_DEADLOCK FALSE

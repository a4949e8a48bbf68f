SPECIFICATION Spec
CONSTANTS
  parent = parent
  child = child
  other = other
  id = id
  ref = ref
  val = val
  extra = extra
  d1 = d1
  d2 = d2
  i1 = i1
  Databases = {d1, d2}
  TableNames = {parent, child, other}
  ColumnNames = {id, ref, val, extra}
  IndexNames = {i1}
  Schemas <- MCSchemas
  AtStart <- MCAtStart
  Values = {0, 1}
  Allowed = {1}
  Histories = {}
  MaxRows = 2
  MaxFile = 1
  MaxStatements = 5
  MaxRestarts = 1
  Null = Null
  None = None
INVARIANTS
  ConstraintsHold
  ReferencesHold
  EndedIsSaved
  DeleteFindsMatches
CHECK_DEADLOCK FALSE

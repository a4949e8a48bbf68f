SPECIFICATION Spec
CONSTANTS
  a = a
  b = b
  Key = Key
  Declared <- MCDeclared
  ColumnNames = {a, b}
  IndexNames = {i1}
  Values = {0, 1}
  MaxRows = 2
  Capacities = {0, 1, 2}
  MaxStatements = 4
  MaxQueries = 2
  Faults = {"open", "crash"}
  Null = Null
  None = None
INVARIANTS
  ReportedSaved
  IndexSound
  AppendsKeepRows
CHECK_DEADLOCK FALSE

SPECIFICATION Spec
CONSTANTS
  n1 = n1
  n2 = n2
  Names = {n1, n2}
  Db = Db
  NoRows = NoRows
  NoUse = NoUse
  NoSlot = NoSlot
  Queries <- PortalQueries
  MaxStatements = 1
  MaxPortals = 2
  MaxReplies = 2
  MaxFetch = 1
INVARIANTS
  QuietAfterError
  RunOnce
  RowsDelivered
PROPERTIES
  ImplementsNames

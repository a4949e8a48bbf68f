SPECIFICATION QueriesSpec
CONSTANTS
  Columns <- MCColumns
  Null <- MCNull
  NullKey = 0
  MaxConjuncts = 8
  ListItems = 1
  MaxRelations = 3
  MaxStack = 3
  MaxSlots = 3
  MaxInList = 2
  MaxSimple = 2
  WordSize = 16
  NarrowSize = 2
  GroupRows = 2
  ChunkRows = 2
  DispatchRows = {1, 6, 16}
  MinGapRows = 4
  MinPercent = 20
  RangeCostRows = 5
  MaxRows = 18
  Inputs <- MCInputs
  Hashes <- MCHashes
  Estimates = {0, 3}
  FirstBuckets = 1
  FirstPlaces = 1
  RowsPerGuess = 64
  DeviceSlots = 8
  TileGroups = 1
  DenseGroups = 3
  PieceRows = 2
  ScanWidth = 2
  Word = 8
  Huge = 1000
  PoolWorkers = 2
  ParallelRows = 3
  TaskRows = 1
  KeepsPerTask = 1
  MaxKeep = 3
  WalkChunk = 1
  KeyBits = 4
  SortTile = 2
  NullValue = NullValue
  WindowGpuRows = 3
INVARIANTS
  RewriteSound
  FilterSound
  WindowSound
  OrderSound
  ScannedOnce
  RangesFit
  JoinSound
  GroupsSound
CHECK_DEADLOCK FALSE

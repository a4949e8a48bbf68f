SPECIFICATION LoopSpec
CONSTANTS
  WorkerCount = 3
  MaxTasks = 3
  MaxCalls = 2
  Shared = FALSE
  SharedMax = 0
  MaxItems = 5
INVARIANTS
  ItemsOnce
  NoItemShared
  NoWaitOnClosed
PROPERTIES
  WorkersExit

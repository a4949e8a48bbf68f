SPECIFICATION FairSpec
CONSTANTS
  WorkerCount = 3
  MaxTasks = 3
  MaxCalls = 3
  Shared = TRUE
  SharedMax = 3
INVARIANTS
  TasksOnce
  RightTask
PROPERTIES
  ImplementsParallelFor
  CallReturns

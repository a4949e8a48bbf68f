SPECIFICATION ScanSpec
CONSTANTS
  Buffers = {1, 2, 3, 4}
  Budget = 2
  MaxEntries = 3
  ScanColumns = {a, b}
  Narrow = {b}
  SameName = {}
  Slots = 2
  Kinds = {"whole", "resident", "scan", "probe"}
  Faults = {"alloc", "begin", "submit"}
  Histories = {}
  MaxChunks = 3
  MaxAsked = 4
  MaxWrites = 1
  MaxFaults = 1
  None = None
  Nothing = Nothing
  Garbage = Garbage
INVARIANTS
  AnswerRight
  InUseIsHeld
CHECK_DEADLOCK FALSE

SPECIFICATION ImportSpec
CONSTANTS
  Workers = {w1, w2}
  SlotCount = 2
  MaxImports = 1
  JobCap = 4
  Faults = {"import", "copy", "lost"}
  MaxCopies = 4
  MaxOpens = 2
  MaxChunks = 3
  None = None
INVARIANTS
  NoUseAfterRelease
  NothingLeaked
PROPERTIES
  CallReturns
CHECK_DEADLOCK FALSE

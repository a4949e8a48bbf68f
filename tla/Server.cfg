SPECIFICATION FairServerSpec
CONSTANTS
  None = None
  c1 = c1
  c2 = c2
  Connections = {c1, c2}
  MaxErrors = 3
INVARIANTS
  FailureReported
  ErrorHasCause
PROPERTIES
  QueriesRun

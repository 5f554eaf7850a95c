SPECIFICATION Spec
CONSTANTS
  main = main
  side = side
  a = a
  b = b
  Lanes = {main, side}
  Main = main
  Ids = {a, b}
  Names = {}
  None = None
  Missing = Missing
  Writes <- MCOneWrite
  Loaders = {"open"}
  FailureLeaves = {"none", "partial"}
  Serialized = TRUE
  MaxRequests = 2
  MaxCrashes = 0
INVARIANT AcknowledgedSurvives
CHECK_DEADLOCK FALSE

SPECIFICATION Spec
CONSTANTS
  main = main
  side = side
  a = a
  b = b
  Lanes = {main, side}
  Main = main
  Ids = {a, b}
  Names = {}
  None = None
  Missing = Missing
  Writes <- MCWrites
  Loaders = {"open", "fork"}
  FailureLeaves = {"none"}
  Serialized = TRUE
  MaxRequests = 3
  MaxCrashes = 2
CHECK_DEADLOCK FALSE
INVARIANTS
  AcknowledgedSurvives StorageConsistent
PROPERTIES
  ImplementsSessionLog EverythingSettles

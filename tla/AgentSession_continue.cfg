SPECIFICATION Spec
CONSTANTS
  Text <- MCText
  QueueMode = "all"
  MaxRetries = 1
  MaxSent = 1
  MaxTurns = 2
  MaxBash = 0
  MaxCompactions = 1
  MaxOthers = 0
  None = None
CHECK_DEADLOCK FALSE
INVARIANTS
  ContinuationsAccepted

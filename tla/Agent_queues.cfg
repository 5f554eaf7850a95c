SPECIFICATION FairSpec
CONSTANTS
  QueueModes <- MCBothModes
  ToolExecution = "parallel"
  MaxSent = 3
  MaxCalls = 1
  MaxTurns = 1
  MaxRuns = 2
  MaxThrows = 0
CHECK_DEADLOCK FALSE
INVARIANTS
  QueuesAreFifo NothingOverlooked FollowUpsWaitForStop
PROPERTIES
  AbortSettles

SPECIFICATION Spec
CONSTANTS
  QueueModes <- MCOneAtATime
  ToolExecution = "parallel"
  MaxSent = 2
  MaxCalls = 2
  MaxTurns = 2
  MaxRuns = 2
  MaxThrows = 1
CHECK_DEADLOCK FALSE
INVARIANTS
  ContextMatchesTranscript CallsAnsweredInOrder NoStalePendingCalls
PROPERTIES
  NoSilentLoss

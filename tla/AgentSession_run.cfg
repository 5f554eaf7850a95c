SPECIFICATION Spec
CONSTANTS
  Text <- MCText
  QueueMode = "all"
  MaxRetries = 1
  MaxSent = 2
  MaxTurns = 2
  MaxBash = 1
  MaxCompactions = 1
  MaxOthers = 1
  None = None
CHECK_DEADLOCK FALSE
INVARIANTS
  ResultsFollowCalls ContextMatchesSession DisplayedIsPending RepetitionsBounded
  CallsConsistent
PROPERTIES
  SettlesWhenDone

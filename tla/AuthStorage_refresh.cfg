SPECIFICATION FairSpec
CONSTANTS
  Processes = {p1, p2}
  MaxCalls = 2
  MaxReloads = 2
  LateStarts = FALSE
  MaxTokens = 3
  MaxCrashes = 1
  None = None
CHECK_DEADLOCK FALSE
INVARIANTS
  RotationSafe StoredIsUsable CacheIsCurrent CallsHonest
PROPERTIES
  NoUpdateUndone CallsEnd

SPECIFICATION Spec
CONSTANTS
  Processes = {p1, p2}
  MaxCalls = 2
  MaxReloads = 2
  LateStarts = TRUE
  MaxTokens = 2
  MaxCrashes = 0
  None = None
INVARIANTS MutualExclusion
CHECK_DEADLOCK FALSE
SYMMETRY Alike

SPECIFICATION ForkSpec
CONSTANTS
  Lanes = {main, side}
  Main = main
  Ids = {a, b, c}
  Names = {n}
  None = None
  Missing = Missing
  MaxLog = 4
SYMMETRY MCSymmetry
CHECK_DEADLOCK FALSE
INVARIANTS
  OneOpenOperation TreeIntact LogReplays
  ForkFaithful

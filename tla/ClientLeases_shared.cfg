SPECIFICATION FairSpec
CONSTANTS
  Leases <- MCLeases
  Modes <- MCModes
  MaxConnections = 2
  MaxRuntimes = 2
  MaxRevision = 1
  Overtaking = FALSE
  None = None
CHECK_DEADLOCK FALSE
INVARIANTS
  LeasesExclusive BooksBalance SnapshotIsCurrent NoForgottenAttachment
PROPERTY DetachLeavesNobody CallsSettle

  

SPECIFICATION FairSpec
CONSTANTS
  Conns = {c1, c2}
  Sessions = {s1}
  MaxRequests = 2
  None = None
INVARIANTS
  OneRuntimePerSession NoRuntimeLeaks DisposedOnce NothingLiveAfterClose
  ConnectionsConsistent
PROPERTIES
  EverythingSettles

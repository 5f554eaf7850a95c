SPECIFICATION Spec
CONSTANTS
  Conns = {c1, c2}
  Sessions = {s1}
  MaxRequests = 2
  None = None
INVARIANT AttachedClientsControlRuntime

SPECIFICATION Spec
CONSTANTS
  MaxSessions = 2
  MaxCalls = 2
  u1 = u1
  u2 = u2
  OwnerOf <- Alternating
  None = None
INVARIANT BaselineIsOwn

SPECIFICATION Spec
CONSTANTS
  Users = {u1}
  MaxSessions = 2
  Devices = {d1, d2}
  a1 = a1
  AddressOf <- OneAddress
  Attempts = {r1, r2}
  AuthLimit = 2
  AuthTtl = 1
  SessionTtl = 2
  MaxTime = 2
  None = None
SYMMETRY Symmetric
INVARIANTS
  FailuresBounded
  AuthorisedBySession
PROPERTIES
  BlockLasts
  OnlyOwnersEndSessions
  KeepsLimit

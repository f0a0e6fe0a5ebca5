SPECIFICATION Spec
CONSTANTS
  Users = {u1, u2}
  Jtis = {j1, j2}
  Devices = {d1, d2}
  Creds = {c1}
  Requests = {r1, r2}
  Ops <- RacingEndpoints
  SessionTtl = 1
  ReAuthTimeout = 0
  Strict = TRUE
  MaxTime = 0
  Unused = Unused
  Deleted = Deleted
  None = None
SYMMETRY Symmetric
INVARIANTS
  EndedSessionsStayOut
  BoundToDevice
  SessionHasAuthTime
  CredentialsSealedByOwner
  PlaintextGoesToOwner
PROPERTIES
  VaultOpenedByOwner
  KeepsPromise

SPECIFICATION FairSpec
CONSTANTS
  Users = {u1, u2}
  Jtis = {j1}
  Devices = {d1, d2}
  Creds = {c1}
  Requests = {r1}
  Ops <- AllOps
  SessionTtl = 1
  ReAuthTimeout = 0
  Strict = FALSE
  MaxTime = 1
  Unused = Unused
  Deleted = Deleted
  None = None
PROPERTIES
  KeepsPromise
  RequestsFinish

SPECIFICATION Spec
CONSTANTS
  Users = {u1, u2}
  Logs = {l1, l2}
  Calls = {c1}
  Window = 1
  MinSamples = 1
  SignalSets <- BoundarySets
  Threshold = 60
  Cooldown = 2
  MaxDelay = 1
  MaxTime = 3
  MaxBoots = 1
  None = None
SYMMETRY Symmetric
CHECK_DEADLOCK FALSE
INVARIANTS
  CloseAlertsOverlapped
  SilenceHasAnAlert
  BaselinesAreGrounded

SPECIFICATION Spec
CONSTANTS
  Users = {u1}
  Logs = {l1, l2}
  Calls = {}
  Window = 9
  MinSamples = 1
  SignalSets <- TopSet
  Threshold = 60
  Cooldown = 2
  MaxDelay = 0
  MaxTime = 1
  MaxBoots = 0
  None = None
CHECK_DEADLOCK FALSE
INVARIANT CooldownHolds

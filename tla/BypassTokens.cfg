SPECIFICATION Spec
CONSTANTS
  Tokens = {t1, t2}
  Bindings = {b1, b2}
  Second = 2
  Lifetime = 5
  MaxTime = 11
  None = None
INVARIANTS
  SingleUse
PROPERTY
  ForgottenInTime

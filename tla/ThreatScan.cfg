SPECIFICATION FairSpec
CONSTANTS
  Scans = {s1, s2}
  ScanTimeout = 6
  PollInterval = 3
  MinPollSleep = 1
  MaxStart = 2
  None = None
CHECK_DEADLOCK FALSE
INVARIANTS
  AnsweredInTime
  NeverGivesUpEarly
  QuotaPerScan
PROPERTY ScansAnswered

SPECIFICATION Spec
CONSTANTS
  u1 = u1
  s1 = s1
  s2 = s2
  page = page
  archive = archive
  program = program
  Users = {u1}
  Sessions = {s1, s2}
  Urls = {archive, program}
  Requests = {r1, r2, r3}
  Tokens = {t1, t2}
  UserOf <- OneUser
  Inspectable <- Everything
  FileVerdict <- Files
  RuleRows <- NoRules
  Answers = {"SAFE", "SUSPICIOUS"}
  FailClosed = FALSE
  CacheTtl = 1
  Second = 1
  Lifetime = 2
  MaxTime = 1
  MaxBoots = 1
  None = None
SYMMETRY Symmetric
CHECK_DEADLOCK FALSE
INVARIANTS
  OneRequestPerWarning
  MaliciousFilesStayOut

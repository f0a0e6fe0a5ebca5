SPECIFICATION FairSpec
CONSTANTS
  u1 = u1
  s1 = s1
  s2 = s2
  page = page
  archive = archive
  program = program
  Users = {u1}
  Sessions = {s1}
  Urls = {page, program}
  Requests = {r1, r2}
  Tokens = {t1}
  UserOf <- OneUser
  Inspectable <- Public
  FileVerdict <- Files
  RuleRows <- PageRules
  Answers = {"SAFE", "FAILSAFE"}
  FailClosed = TRUE
  CacheTtl = 1
  Second = 1
  Lifetime = 2
  MaxTime = 1
  MaxBoots = 0
  None = None
CHECK_DEADLOCK FALSE
INVARIANTS
  TypeOK
  BlockRuleHolds
  LoggedIffDecided
PROPERTIES
  VerdictsAreFresh
  RequestsAnswered

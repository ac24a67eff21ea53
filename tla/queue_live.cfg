SPECIFICATION FairSpec
CONSTANTS
  s1 = s1  s2 = s2  t1 = t1  t2 = t2
  NULL = NULL
  Session = {s1, s2}
  Token = {t1, t2}
  TokenOf <- OwnTokens
  Target = {g1}
  Url = {u1}
  Tick = {k1}
  Faults = {"log", "release", "cleanup"}
  MaxItems = 2
  MaxRuns = 2
  MaxAttempts = 2
  MaxCrashes = 0
PROPERTIES
  ExpiredReleased
  CallsReturn
CHECK_DEADLOCK FALSE

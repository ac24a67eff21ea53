SPECIFICATION FairSpec
CONSTANTS
  s1 = s1  s2 = s2  t1 = t1  t2 = t2
  NULL = NULL
  Session = {s1}
  Token = {t1}
  TokenOf <- OneSession
  Target = {g1, g2}
  Url = {u1}
  Tick = {k1, k2}
  Faults = {"log"}
  MaxItems = 4
  MaxRuns = 1
  MaxAttempts = 1
  MaxCrashes = 0
PROPERTIES
  TicksEnd
CHECK_DEADLOCK FALSE

SPECIFICATION Spec
CONSTANTS
  s1 = s1  s2 = s2  t1 = t1  t2 = t2
  NULL = NULL
  Session = {s1, s2}
  Token = {t1, t2}
  TokenOf <- OwnTokens
  Target = {g1}
  Url = {u1}
  Tick = {k1}
  Faults = {"log", "release", "cleanup"}
  MaxItems = 2
  MaxRuns = 3
  MaxAttempts = 2
  MaxCrashes = 1
SYMMETRY Symmetry
INVARIANTS
  QueueInv
PROPERTIES
  LiveClaimEndsByHandler
  ImplementsLease
CHECK_DEADLOCK FALSE

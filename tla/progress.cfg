SPECIFICATION Spec
CONSTANTS
  NULL = NULL
  Editor = {q1, q2}
  Agent = {a1, a2}
  MaxResumes = 3
  Call = {c1, c2}
  GuardTTL = 3
  MaxRestarts = 1
  Article = {n1, n2}
  Image = {i1, i2}
  Tab = {b1, b2}
  Pinnable = {n1}
  MaxStars = 2
  MaxDeaths = 1
  Tick = {k1, k2, k3}
  MaxFaults = 2
INVARIANTS
  HwmInv
  GuardInv
  RetentionInv
  CronInv
PROPERTIES
  DrainCutsNone
  SignalEnds
  StaleMarkCleared
  GuardOpens
  OldGoUnlessPinned

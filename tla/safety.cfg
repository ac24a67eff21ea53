SPECIFICATION Spec
CONSTANTS
  NULL = NULL
  Token = {t1, t2}
  Bearer = {b1, b2}
  Admin = {d1}
  TTL = 2
  MaxEntries = 1
  MaxAttempts = 1
  Restamps = TRUE
  Request = {r1, r2, r3, r4, r5}
  MaxInFlight = 4
  Writer = {w1, w2}
  Batches <- SomeBatches
  CodeVisible = {TRUE, FALSE}
  MaxBatchFaults = 1
  HumanInvite = {h1}
  AgentInvite = {g1}
  DashboardInvite = {s1}
  Name = {n1, n2}
  Redeemer = {c1, c2}
  Issuer = {o1}
SYMMETRY Symmetry
INVARIANTS
  CacheKept
  AccessInv
  BatchInv
  InviteInv
PROPERTIES
  ImplementsTicket
  ImplementsGrace
  ImplementsCodes
CHECK_DEADLOCK FALSE

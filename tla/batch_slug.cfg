SPECIFICATION BatchSpec
CONSTANTS
  Writer = {w1, w2}
  NULL = NULL
  Batches <- OneBatch
  CodeVisible = {TRUE, FALSE}
  MaxBatchFaults = 0
INVARIANTS
  CollisionsResolved
CHECK_DEADLOCK FALSE

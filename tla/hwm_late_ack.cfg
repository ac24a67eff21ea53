SPECIFICATION HwmSpec
CONSTANTS
  NULL = NULL
  Editor = {q1}
  Agent = {a1}
  MaxResumes = 2
INVARIANTS
  StartsFresh

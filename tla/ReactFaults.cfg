SPECIFICATION Spec
CONSTANTS
  Session = {s1}
  CallId = {c1, c2}
  Worker = {w1}
  None = None
  MaxId = 3
  MaxTools = 1
  MaxIterations = 2
  MaxRetry = 1
  Faults = {"session","publish","kv"}
  Duplicates = {"result"}
  ReuseCalls = TRUE
  Interrupts = {"clear","reload"}
SYMMETRY Symmetry
INVARIANTS TranscriptWellFormed
CHECK_DEADLOCK FALSE

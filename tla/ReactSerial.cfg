SPECIFICATION Spec
CONSTANTS
  Session = {s1}
  CallId = {c1, c2}
  Worker = {w1}
  None = None
  MaxId = 3
  MaxTools = 1
  MaxIterations = 2
  MaxRetry = 1
  Faults = {"session","publish"}
  Duplicates = {"reply","result"}
  ReuseCalls = FALSE
  Interrupts = {}
SYMMETRY Symmetry
INVARIANTS TypeOK WatchdogCoversTurns AtMostOneFinal OwnPrompt MappingsOwned
CHECK_DEADLOCK FALSE

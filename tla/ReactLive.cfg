SPECIFICATION FairSpec
CONSTANTS
  Session = {s1}
  CallId = {c1, c2}
  Worker = {w1}
  None = None
  MaxId = 2
  MaxTools = 2
  MaxIterations = 2
  MaxRetry = 1
  Faults = {"session","publish"}
  Duplicates = {}
  ReuseCalls = TRUE
  Interrupts = {"clear","reload"}
PROPERTIES EveryTurnEnds ImplementsLifecycle RepliesSettle
CHECK_DEADLOCK FALSE

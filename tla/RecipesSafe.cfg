SPECIFICATION Spec
CONSTANTS
  a = a
  b = b
  p1 = p1
  p2 = p2
  p3 = p3
  q1 = q1
  Recipe = {a, b}
  Ids <- MCIds
  Field = {f1, f2}
  None = None
  Faults = {"kill", "error"}
  MaxFaults = 2
  MaxObjects = 6
  MaxRevision = 3
SYMMETRY Symmetry
INVARIANTS Recoverable VisibleIsCommitted
PROPERTIES KeepsHistory
CHECK_DEADLOCK FALSE

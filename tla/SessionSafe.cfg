SPECIFICATION Spec
CONSTANTS
  a = a
  b = b
  None = None
  Session = {1, 2, 3}
  Key = {1, 2}
  Client = {a, b}
  Retries = 2
  Limit = 1
  PageSize = 2
  Budget = 2
  MaxCalls = 2
  Ops = {"append", "fetch", "meta", "update", "delete", "clear"}
  Schemas = {"old", "current"}
  Faults = {"read", "write"}
INVARIANTS TypeOK 
PROPERTIES ImplementsThreadStore
SYMMETRY MCSymmetry

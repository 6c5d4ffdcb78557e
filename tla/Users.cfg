SPECIFICATION Spec
CONSTANTS
  Handle = {h1, h2}
  Context = {c1, c2}
  Name = {n1, n2}
  Nick = {x}
  PublicKey = {k}
  None = None
  MaxUsers = 2
  MaxCuts = 2
SYMMETRY Symmetry
INVARIANTS ReferencesHold
CHECK_DEADLOCK FALSE

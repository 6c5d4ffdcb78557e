SPECIFICATION FairSpec
CONSTANTS
  Call = {1, 2}
  Request = {1, 2}
  Capsule = {k1}
  None = None
  MaxRoutes = 1
INVARIANTS Consent OnePrompt
PROPERTIES AnswersKept NeverWedged
CHECK_DEADLOCK FALSE

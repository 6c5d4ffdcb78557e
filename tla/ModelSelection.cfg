SPECIFICATION FairSpec
CONSTANTS
  c1 = c1
  c2 = c2
  a1 = a1
  a2 = a2
  b1 = b1
  x = x
  y = y
  Capsule = {c1, c2}
  Model = {a1, a2, b1}
  Offer <- MCOffer
  Name <- MCName
  Limits <- MCLimits
  Worker = {w1}
  None = None
  MaxEvents = 2
INVARIANTS RequestsFit ChoiceKept
PROPERTIES CacheFollows
CHECK_DEADLOCK FALSE

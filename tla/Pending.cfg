SPECIFICATION FairSpec
CONSTANTS
  HostId = {h1, h2}
  Round = {r1, r2, r3}
  Limit = 1
  MaxRounds = 2
  MaxCalls = 3
  None = None
INVARIANTS ApprovalInv OneAnswer RequestsServed PresentersBounded ResumedOnce
PROPERTIES FinalStays ResultsAreRead AwaitingEnds
CHECK_DEADLOCK FALSE

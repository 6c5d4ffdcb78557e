SPECIFICATION CompactionSpec
CONSTANTS
  Instance = {i1}
  Session = {s1, s2}
  Nothing = Nothing
  Size = {1, 2}
  MaxMessages = 3
  Target = {2, 3}
  KeepRecent = 1
  FirstResponse = 2
  IdleGrace = 2
  HookTimeout = 4
  MaxResponses = 5
  PollInterval = 2
  CompactTimeout = 7
SYMMETRY Symmetry
INVARIANTS OwnTranscript CutToFit

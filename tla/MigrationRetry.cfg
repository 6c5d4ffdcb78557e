SPECIFICATION FairSpec
CONSTANTS
  Source = {s1}
  File = {f1, f2}
  Absent = Absent
  Local = Local
  MaxVersion = 2
  MaxCrashes = 3
  IoErrors = FALSE
  ProductRuns = "never"
PROPERTIES RetrySucceeds

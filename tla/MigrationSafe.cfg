SPECIFICATION Spec
CONSTANTS
  Source = {s1, s2}
  File = {f1, f2}
  Absent = Absent
  Local = Local
  MaxVersion = 2
  MaxCrashes = 2
  IoErrors = TRUE
  ProductRuns = "any time"
SYMMETRY Symmetry
INVARIANTS TransactionInv ReceiptTruthful PreImportKept NoResidue
PROPERTIES ImportIsCurrent CompletedHomeStays

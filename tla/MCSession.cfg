CONSTANTS
  IsRoot = FALSE
  Ids = {A, B}
  A = A
  B = B
  Nothing = Nothing
  Results = {"done", "skipped", "warning", "failed"}
  MaxResults = 2
  MaxRuns = 2
CHECK_DEADLOCK FALSE
SPECIFICATION Spec
SYMMETRY Symmetry
INVARIANTS
  ReportMatchesJob
  RunIsRecorded
  ExitsUnwind

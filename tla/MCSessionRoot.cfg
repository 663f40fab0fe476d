CONSTANTS
  IsRoot = TRUE
  Ids = {A, B}
  A = A
  B = B
  Nothing = Nothing
  Results = {"done", "warning", "failed"}
  MaxResults = 2
  MaxRuns = 2
CHECK_DEADLOCK FALSE
SPECIFICATION Spec
INVARIANT ExitsUnwind

CONSTANTS
  Shells = {one, other}
  one = one
  other = other
  Ids = {A, B}
  A = A
  B = B
  NoJob = NoJob
  Shared = Shared
  Results = {"failed"}
  OldFiles <- MCOldFiles
  MaxEntries = 2
  MaxCreated = 2
  MaxCrashes = 1
SYMMETRY Symmetry
SPECIFICATION Spec
INVARIANTS
  JobsAddUp
  AcknowledgedResultsStay
  ActiveJobIsThere
PROPERTY ImplementsJobLog

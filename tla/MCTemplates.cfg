CONSTANTS
  Paths = {"audit", "hello", "old/hello"}
  NameOf <- MCNameOf
  first = first
  second = second
  broken = broken
  Valid = {first, second}
  Invalid = {broken}
  Nothing = Nothing
  MaxEdits = 2
  MaxFailures = 1
  MaxStarts = 2
SYMMETRY Symmetry
CHECK_DEADLOCK FALSE
SPECIFICATION Spec
INVARIANTS
  RunIsCurrent
  RegistrationsSurvive
  FileIsCurrent

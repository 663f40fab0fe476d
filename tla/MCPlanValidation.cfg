CONSTANTS
  Length = 3
  Submitted <- MCPlans
SPECIFICATION Validation
INVARIANTS
  ValidPlansAreLayered
  VerdictIsRight
PROPERTY Decides
CHECK_DEADLOCK FALSE

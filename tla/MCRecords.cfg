CONSTANTS
  Target = "owasp.org"
  Runs <- MCRuns
  MaxRuns = 2
  MaxEvents = 4
  MaxFaults = 2
SPECIFICATION Spec
INVARIANTS
  ReplayLosesLittle
  ClaimsCarryTheirSources
CHECK_DEADLOCK FALSE

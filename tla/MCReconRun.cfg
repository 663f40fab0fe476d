CONSTANTS
  Ports <- MCPorts
  Situations <- MCSituations
  Intents <- MCIntents
SPECIFICATION Spec
INVARIANTS
  PlansAreValid
  NothingComesLate
  CoverageIsKept
  ElevationIsForeseen
  NegativeIsConclusive

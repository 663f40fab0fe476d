CONSTANTS
  Plans <- MCPlans
  Kinds = {host}
  host = host
  MaxConcurrency = 2
  HandlerOutcomes = {"done", "skipped", "failed"}
SPECIFICATION Spec
INVARIANTS
  InFlightFitsPool
  RunsOnlyWhenReady
  EvidenceIsDeterministic
  EventLifecycle
  CancelStopsWork
  ResultsAreComplete
  QuietAtTheEnd
  LossesAreReported
PROPERTIES
  Terminates
  ImplementsPlanRun
  RecordsAreFinal

CONSTANTS
  Conditions = {port, service}
  port = port
  service = service
  Indents = {0, 2, 4, 8}
  MaxLines = 4
SYMMETRY Symmetry
SPECIFICATION CltSpec
INVARIANTS
  VerdictIsRight
  RunFollowsSource

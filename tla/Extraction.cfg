CONSTANTS
  Sessions = {s1, s2}
  LastPage = 3
  MaxPages = 4
  Sources <- MCSources
  Scenarios <- MCScenarios
SPECIFICATION Spec
SYMMETRY Symmetric
CHECK_DEADLOCK FALSE
INVARIANTS TypeOK CommitCoversWindow RequestsAreBounded

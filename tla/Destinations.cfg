CONSTANTS
  Loads = {l1, l2, l3}
  Keys = {k1, k2}
  Scenarios <- MCScenarios
  None = None
SPECIFICATION Spec
SYMMETRY Symmetric
CHECK_DEADLOCK FALSE
INVARIANTS TypeOK BackupOutlivesGap
PROPERTIES ImplementsBronze

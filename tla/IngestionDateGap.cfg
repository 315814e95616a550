CONSTANTS
  Runs = {r1, r2, r3}
  Records = {a, b, c}
  LastDay = 2
  InitialStart = 0
  Scenarios <- RunsOverMidnight
  None = None
SPECIFICATION Spec
SYMMETRY Symmetric
CHECK_DEADLOCK FALSE
INVARIANTS NoGap

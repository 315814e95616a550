CONSTANTS
  Runs = {r1, r2, r3}
  Pipelines = {p1, p2}
  DbtPipelines = {p1}
  Streams = {s1}
  MaxRetained = 2
  MaxConcurrent = 2
  MaxLogLines = 1
  LineLimit = 1
  None = None
SPECIFICATION Spec
SYMMETRY Symmetric
CHECK_DEADLOCK FALSE
INVARIANTS TypeOK OneRunPerPipeline HistoryIsSafe SlotsAreAccountedFor

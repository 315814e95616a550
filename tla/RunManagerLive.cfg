CONSTANTS
  Runs = {r1, r2}
  Pipelines = {p1, p2}
  DbtPipelines = {p1}
  Streams = {s1}
  MaxRetained = 2
  MaxConcurrent = 1
  MaxLogLines = 1
  LineLimit = 2
  None = None
SPECIFICATION FairSpec
CHECK_DEADLOCK FALSE
INVARIANTS CompleteStreamMissesNothing
PROPERTIES QueuedRunsFinish StreamsEnd

CONSTANTS
  w1 = w1
  w2 = w2
  w3 = w3
  p1 = p1
  p2 = p2
  k1 = k1
  k2 = k2
  Writers = {w1, w2, w3}
  Processes = {p1, p2}
  ProcessOf <- MCProcessOf
  Keys = {k1, k2}
  Backends = {"json", "duckdb", "delta"}
  None = None
SPECIFICATION MCSpec
CHECK_DEADLOCK FALSE
INVARIANTS TypeOK OneSuccessor
PROPERTIES ImplementsRegister CallsReturn

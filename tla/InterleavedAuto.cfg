CONSTANTS
  Sessions = {s1, s2}
  LastPage = 3
  MaxPages = 4
  Sources <- RegularSources
  Scenarios <- InterleavedAuto
SPECIFICATION Spec
SYMMETRY Symmetric
CHECK_DEADLOCK FALSE
INVARIANTS CommitCoversWindow

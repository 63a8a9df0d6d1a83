SPECIFICATION Spec
CONSTANTS
  Client = {k1}
  Conn = {c1, c2}
  NoConn = NoConn
SYMMETRY ConnSymmetry
INVARIANTS
  WatchesOwnEntry
CHECK_DEADLOCK FALSE

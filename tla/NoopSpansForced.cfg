CONSTANTS
  Routine = {g1, g2}
  Carry = {"entry", "forced entry", "local"}
  MaxNest = 2
  MaxNoop = 2
SPECIFICATION NoopSpec
INVARIANTS ForcedIsTraced

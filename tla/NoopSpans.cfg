CONSTANTS
  Routine = {g1, g2}
  Carry = {"entry", "local"}
  MaxNest = 3
  MaxNoop = 4
SPECIFICATION NoopSpec
INVARIANTS NoopBalanced TracedStaysTraced

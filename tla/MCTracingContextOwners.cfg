SPECIFICATION ContextSpec
CONSTANTS
  Span = {s1, s2}
  Goroutine = {g1}
  NoSpan = NoSpan
  Kind = {"exit", "local"}
  MaxReuse = 1
  MaxCaptured = 0
  NestedAsync = TRUE
SYMMETRY Interchangeable
INVARIANTS
  LastEndFreezes
CHECK_DEADLOCK FALSE

SPECIFICATION ContextSpec
CONSTANTS
  Span = {s1, s2, s3}
  Goroutine = {g1, g2}
  NoSpan = NoSpan
  Kind = {"exit", "local"}
  MaxReuse = 1
  MaxCaptured = 0
  NestedAsync = FALSE
SYMMETRY Interchangeable
INVARIANTS
  OwnersOnOneGoroutine
  ReuseCountsOwners
  LastEndFreezes
  ContextRestored
PROPERTIES
  Spec
CHECK_DEADLOCK FALSE

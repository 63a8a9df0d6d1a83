SPECIFICATION FairContextSpec
CONSTANTS
  Span = {s1, s2}
  Goroutine = {g1, g2}
  NoSpan = NoSpan
  Kind = {"exit", "local"}
  MaxReuse = 1
  MaxCaptured = 1
  NestedAsync = TRUE
PROPERTIES
  EverySpanReported
CHECK_DEADLOCK FALSE

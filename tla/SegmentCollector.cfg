SPECIFICATION FairSpec
CONSTANTS
  Span = {s1, s2, s3}
  NoSpan = NoSpan
INVARIANTS
  ReportIsWholeSegment
  NeverStranded
  ReportIsSpanTree
PROPERTIES
  SealedForGood
  ReportSpec
  EndedSegmentIsReported
CHECK_DEADLOCK FALSE

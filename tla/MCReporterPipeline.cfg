CONSTANTS
  reporter = reporter
  pprof = pprof
  c1 = c1
  NoConn = NoConn
  Client <- MCClient
  Conn <- MCConn
  Reporter <- MCReporter
  Others <- MCOthers
  Pipe <- MCPipe
  MaxQueue = 1
  MaxMsg <- MCMaxMsg
SPECIFICATION FairPipelineSpec
INVARIANTS PipelineTypeOK Accounted EndedIsDrained
PROPERTIES Spec CloseEndsLoops

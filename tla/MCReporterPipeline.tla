-------------------------- MODULE MCReporterPipeline --------------------------
(* The trace pipeline and one other, the reporter and one other holder. *)
EXTENDS ReporterPipeline

CONSTANTS reporter, pprof, c1

MCClient == {reporter, pprof}
MCReporter == reporter
MCOthers == {pprof}
MCPipe   == {"tracing", "metrics"}
MCConn   == {c1}
MCMaxMsg == [p \in MCPipe |-> IF p = "metrics" THEN 2 ELSE 1]
=============================================================================

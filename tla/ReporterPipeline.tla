--------------------------- MODULE ReporterPipeline ---------------------------
(***************************************************************************)
(* The send pipelines of the gRPC reporter (plugins/core/reporter/grpc/    *)
(* grpc.go) over the shared connection: SendTracing, SendMetrics and       *)
(* SendLog put a message into a bounded channel or drop it, and one loop   *)
(* per channel opens a stream, sends what the channel has and starts over  *)
(* when the stream fails.  Close closes the channels; the loops drain them *)
(* and the trace loop gives the reporter's reference back.                 *)
(*                                                                         *)
(* The messages of a pipeline are numbered as they are produced.  "Others" *)
(* are the managers built before the reporter, which hold the connection   *)
(* and never release it: the pprof manager always, the CDS manager if it   *)
(* is switched on (tools/go-agent/instrument/reporter/instrument.go).      *)
(***************************************************************************)
EXTENDS ConnectionManager, Sequences

CONSTANTS Pipe,       \* the pipelines looked at
          Reporter,   \* the reporter as a caller of GetConnection
          Others,     \* the other callers
          MaxQueue,   \* maxSendQueueSize
          MaxMsg      \* bound: how many messages are produced for each pipeline

Closing == <<"tracing", "metrics", "log">>   \* the order of Close

ASSUME PipelineAssumption ==
  /\ Pipe \subseteq {"tracing", "metrics", "log"}
  /\ Others # {} /\ Reporter \notin Others /\ Client = Others \cup {Reporter}
  /\ MaxQueue \in Nat \ {0} /\ MaxMsg \in [Pipe -> Nat]

VARIABLES
  conn,      \* the connection of a booted reporter's client stubs
  closed,    \* how many channels Close has closed
  produced,  \* messages given to SendTracing, SendMetrics, SendLog
  sendCh,    \* tracingSendCh, metricsSendCh, logSendCh
  loop,      \* where each StreamLoop is
  current,   \* the message it has in hand, 0 if none
  broken,    \* its stream is dead, whether the loop knows or not
  flight,    \* sent on the stream, not yet received
  received,  \* what the backend has
  lost,      \* history: gone with a failed send or stream
  refused    \* history: never accepted, the channel was full or closed

loopVars == <<loop, current, broken>>
msgVars  == <<flight, received, lost>>
pipelineVars == <<conn, closed, produced, sendCh, loopVars, msgVars, refused>>
allVars == <<vars, pipelineVars>>

PipelineTypeOK ==
  /\ conn \in Conn \cup {NoConn} /\ closed \in 0..Len(Closing)
  /\ produced \in [Pipe -> Nat]
  /\ sendCh \in [Pipe -> Seq(Nat)]
  /\ loop \in [Pipe -> {"none", "check", "open", "ready", "send", "closing", "ended"}]
  /\ current \in [Pipe -> Nat]
  /\ broken \in [Pipe -> BOOLEAN]
  /\ \A f \in {flight, received, lost, refused} : f \in [Pipe -> SUBSET Nat]

PipelineInit ==
  /\ Init
  /\ conn = NoConn /\ closed = 0
  /\ produced = [p \in Pipe |-> 0]
  /\ sendCh = [p \in Pipe |-> <<>>]
  /\ loop = [p \in Pipe |-> "none"]
  /\ current = [p \in Pipe |-> 0]
  /\ broken = [p \in Pipe |-> FALSE]
  /\ flight = [p \in Pipe |-> {}]
  /\ received = [p \in Pipe |-> {}]
  /\ lost = [p \in Pipe |-> {}]
  /\ refused = [p \in Pipe |-> {}]

booted == conn # NoConn   \* bootFlag

IsClosed(p) == \E i \in 1..closed : Closing[i] = p
-----------------------------------------------------------------------------
(* Construction, Boot and Close *)

\* The managers get the connection first, the reporter after them.
Construct ==
  /\ \E k \in Client : Get(k) /\ (k = Reporter =>
       ~booted /\ \A o \in Others : client[o] = "holding")
  /\ UNCHANGED pipelineVars

Boot ==
  /\ ~booted /\ client[Reporter] = "holding"
  /\ conn' = held[Reporter]
  /\ loop' = [p \in Pipe |-> "check"]
  /\ UNCHANGED <<vars, closed, produced, sendCh, current, broken, msgVars, refused>>

\* Mutant of CloseChannel: the channels are closed once more.
CloseChannelAgain ==
  /\ booted /\ closed <= Len(Closing)
  /\ closed' = closed + 1
  /\ UNCHANGED <<vars, conn, produced, sendCh, loopVars, msgVars, refused>>

\* Mutant of CloseChannel: only tracingSendCh is closed.
CloseTracingOnly ==
  /\ booted /\ closed < 1
  /\ closed' = closed + 1
  /\ UNCHANGED <<vars, conn, produced, sendCh, loopVars, msgVars, refused>>

\* Close, one channel after the other (it is called once); senders go on
\* in between.
CloseChannel ==
  /\ booted /\ closed < Len(Closing)
  /\ closed' = closed + 1
  /\ UNCHANGED <<vars, conn, produced, sendCh, loopVars, msgVars, refused>>

\* Close of a reporter that was never booted
CloseUnbooted ==
  /\ ~booted /\ Release(Reporter)
  /\ UNCHANGED pipelineVars
-----------------------------------------------------------------------------
(* SendTracing, SendMetrics, SendLog *)

\* The select never blocks: a full channel drops the message, a closed one
\* panics and the recover drops it.
SendX(p) ==
  /\ booted /\ produced[p] < MaxMsg[p]
  /\ produced' = [produced EXCEPT ![p] = @ + 1]
  /\ IF ~IsClosed(p) /\ Len(sendCh[p]) < MaxQueue
     THEN /\ sendCh' = [sendCh EXCEPT ![p] = Append(@, produced'[p])]
          /\ UNCHANGED refused
     ELSE /\ refused' = [refused EXCEPT ![p] = @ \cup {produced'[p]}]
          /\ UNCHANGED sendCh
  /\ UNCHANGED <<vars, conn, closed, loopVars, msgVars>>
-----------------------------------------------------------------------------
(* StreamLoop *)

MoveTo(p, l) == loop' = [loop EXCEPT ![p] = l]

\* its stream can carry messages
Alive(p) == ~broken[p] /\ channel[conn] # "closed"

\* Mutant of CheckStatus: an outage ends the loop like a shutdown.
CheckStatusEnds(p) ==
  /\ loop[p] = "check"
  /\ MoveTo(p, IF ConnectionStatus = "connected" THEN "open" ELSE "ended")
  /\ UNCHANGED <<vars, conn, closed, produced, sendCh, current, broken, msgVars, refused>>

\* Top of the loop; on "disconnect" it sleeps and comes back.
CheckStatus(p) ==
  /\ loop[p] = "check"
  /\ \/ ConnectionStatus = "shutdown"  /\ MoveTo(p, "ended")
     \/ ConnectionStatus = "connected" /\ MoveTo(p, "open")
  /\ UNCHANGED <<vars, conn, closed, produced, sendCh, current, broken, msgVars, refused>>

\* openBackendStream on the connection the client stubs were made with
OpenStream(p) ==
  /\ loop[p] = "open"
  /\ channel[conn] = "ok"
  /\ MoveTo(p, "ready")
  /\ broken' = [broken EXCEPT ![p] = FALSE]
  /\ UNCHANGED <<vars, conn, closed, produced, sendCh, current, msgVars, refused>>

OpenFails(p) ==
  /\ loop[p] = "open"
  /\ MoveTo(p, "check")
  /\ UNCHANGED <<vars, conn, closed, produced, sendCh, current, broken, msgVars, refused>>

\* Mutant of Take: the message stays in the channel until it is sent.
TakePeeks(p) ==
  /\ loop[p] = "ready" /\ sendCh[p] # <<>>
  /\ current' = [current EXCEPT ![p] = Head(sendCh[p])]
  /\ MoveTo(p, "send")
  /\ UNCHANGED <<vars, conn, closed, produced, sendCh, broken, msgVars, refused>>

Take(p) ==
  /\ loop[p] = "ready" /\ sendCh[p] # <<>>
  /\ current' = [current EXCEPT ![p] = Head(sendCh[p])]
  /\ sendCh' = [sendCh EXCEPT ![p] = Tail(@)]
  /\ MoveTo(p, "send")
  /\ UNCHANGED <<vars, conn, closed, produced, broken, msgVars, refused>>

\* A Send that succeeds has only handed the message to the transport.
SendSucceeds(p) ==
  /\ loop[p] = "send" /\ Alive(p)
  /\ flight' = [flight EXCEPT ![p] = @ \cup {current[p]}]
  /\ current' = [current EXCEPT ![p] = 0]
  /\ MoveTo(p, "ready")
  /\ UNCHANGED <<vars, conn, closed, produced, sendCh, broken, received, lost, refused>>

\* sendWithRecover: a message that cannot be encoded is skipped.
SendPanics(p) ==
  /\ loop[p] = "send"
  /\ lost' = [lost EXCEPT ![p] = @ \cup {current[p]}]
  /\ current' = [current EXCEPT ![p] = 0]
  /\ MoveTo(p, "ready")
  /\ UNCHANGED <<vars, conn, closed, produced, sendCh, broken, flight, received, refused>>

\* The send fails, or the watchdog cancels it: the stream is cancelled with
\* all it had not delivered, and the loop starts over.
SendFails(p) ==
  /\ loop[p] = "send"
  /\ lost' = [lost EXCEPT ![p] = @ \cup {current[p]} \cup flight[p]]
  /\ flight' = [flight EXCEPT ![p] = {}]
  /\ current' = [current EXCEPT ![p] = 0]
  /\ MoveTo(p, "check")
  /\ UNCHANGED <<vars, conn, closed, produced, sendCh, broken, received, refused>>

\* The channel is closed and empty; CloseAndRecv waits for the backend to take
\* what is in flight, and gives up on a broken stream or after the timeout.
Drained(p) ==
  /\ loop[p] = "ready" /\ sendCh[p] = <<>> /\ IsClosed(p)
  /\ lost' = [lost EXCEPT ![p] = @ \cup flight[p]]
  /\ flight' = [flight EXCEPT ![p] = {}]
  /\ MoveTo(p, "closing")
  /\ UNCHANGED <<vars, conn, closed, produced, sendCh, current, broken, received, refused>>

\* Mutant of EndLoop: every loop gives a reference back.
EndLoopReleasing(p) ==
  /\ loop[p] = "closing"
  /\ MoveTo(p, "ended")
  /\ IF p = "tracing" THEN Release(Reporter)
     ELSE IF entry = NoConn THEN UNCHANGED vars
     ELSE /\ Drop
          /\ IF refCount'[entry] <= 0
             THEN entry' = NoConn /\ channel' = [channel EXCEPT ![entry] = "closed"]
             ELSE UNCHANGED <<entry, channel>>
          /\ UNCHANGED <<clientVars, status, watcherVars>>
  /\ UNCHANGED <<conn, closed, produced, sendCh, current, broken, msgVars, refused>>

\* The end of the loop: closeGRPCConn is called by the trace loop alone.
EndLoop(p) ==
  /\ loop[p] = "closing"
  /\ MoveTo(p, "ended")
  /\ IF p = "tracing" THEN Release(Reporter) ELSE UNCHANGED vars
  /\ UNCHANGED <<conn, closed, produced, sendCh, current, broken, msgVars, refused>>

LoopStep(p) ==
  \/ CheckStatus(p) \/ OpenStream(p) \/ OpenFails(p) \/ Take(p)
  \/ SendSucceeds(p) \/ SendPanics(p) \/ SendFails(p) \/ Drained(p) \/ EndLoop(p)
-----------------------------------------------------------------------------
(* The backend and the network *)

Streaming(p) == loop[p] \in {"ready", "send"} /\ Alive(p)

BackendReceives(p) ==
  /\ Streaming(p)
  /\ \E m \in flight[p] :
       /\ received' = [received EXCEPT ![p] = @ \cup {m}]
       /\ flight' = [flight EXCEPT ![p] = @ \ {m}]
  /\ UNCHANGED <<vars, conn, closed, produced, sendCh, loopVars, lost, refused>>

\* A stream dies: the backend ends it, or the transport under it is gone.
StreamBreaks(p) ==
  /\ loop[p] \in {"ready", "send"} /\ ~broken[p]
  /\ broken' = [broken EXCEPT ![p] = TRUE]
  /\ lost' = [lost EXCEPT ![p] = @ \cup flight[p]]
  /\ flight' = [flight EXCEPT ![p] = {}]
  /\ UNCHANGED <<vars, conn, closed, produced, sendCh, loop, current, received, refused>>

Connection ==
  /\ \E c \in Conn : Watch(c) \/ TransportChanges(c)
  /\ UNCHANGED pipelineVars

PipelineNext ==
  \/ Construct \/ Boot \/ CloseChannel \/ CloseUnbooted \/ Connection
  \/ \E p \in Pipe : SendX(p) \/ LoopStep(p) \/ BackendReceives(p) \/ StreamBreaks(p)

PipelineSpec == PipelineInit /\ [][PipelineNext]_allVars

\* The loops and the status goroutine run, a backend that can be reached lets a
\* stream be opened in the end, and a Close that has begun goes on.  Nothing is
\* assumed of the network, of sends, or of anybody calling Close.
FairPipelineSpec ==
  /\ PipelineSpec
  /\ \A p \in Pipe : WF_allVars(LoopStep(p)) /\ SF_allVars(OpenStream(p))
  /\ WF_allVars(closed > 0 /\ CloseChannel)
  /\ \A c \in Conn : WF_allVars(Watch(c) /\ UNCHANGED pipelineVars)
-----------------------------------------------------------------------------
(* Properties *)

\* Every message is in one place: no reconnect, panic or drain sends one twice
\* or forgets one, and the channel holds no more than its size.
Accounted ==
  \A p \in Pipe :
    LET queued == {sendCh[p][i] : i \in 1..Len(sendCh[p])}
        inHand == {current[p]} \ {0}
        places == <<queued, inHand, flight[p], received[p], lost[p], refused[p]>>
    IN  /\ UNION {places[i] : i \in 1..6} = 1..produced[p]
        /\ \A i, j \in 1..6 : i # j => places[i] \cap places[j] = {}
        /\ Cardinality(queued) = Len(sendCh[p]) /\ Len(sendCh[p]) <= MaxQueue

\* A loop ends only when its channel is closed and drained ("Graceful drain",
\* grpc.go:304): not on an outage, and not because the trace loop has released
\* the connection first, which the other holders keep open.
EndedIsDrained ==
  \A p \in Pipe : loop[p] = "ended" =>
    IsClosed(p) /\ sendCh[p] = <<>> /\ current[p] = 0 /\ flight[p] = {}

\* After Close, once the connection is up and the streams hold, every loop ends.
CloseEndsLoops ==
  <>[](booted => channel[conn] = "ok" /\ \A p \in Pipe : ~broken[p])
    => (closed > 0 ~> \A p \in Pipe : loop[p] = "ended")
=============================================================================

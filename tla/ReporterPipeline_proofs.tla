------------------------ MODULE ReporterPipeline_proofs ------------------------
(***************************************************************************)
(* For any pipelines, queue sizes and holders of the connection: the       *)
(* reporter is a well-behaved caller of the connection manager, its loops  *)
(* end only when they are drained, and no message is sent twice or         *)
(* forgotten.                                                              *)
(***************************************************************************)
EXTENDS ReporterPipeline, ConnectionManager_proofs, SequenceTheorems

\* The holders that come first stay.
OthersInv ==
  /\ booted \/ client[Reporter] # "idle" => \A o \in Others : client[o] = "holding"
  /\ \A p \in Pipe : loop[p] # "none" => booted

LoopInv ==
  \A p \in Pipe :
    /\ current[p] # 0 <=> loop[p] = "send"
    /\ loop[p] \in {"closing", "ended"} => IsClosed(p) /\ sendCh[p] = <<>> /\ flight[p] = {}

InQueue(p) == {sendCh[p][i] : i \in 1..Len(sendCh[p])}
InHand(p)  == {current[p]} \ {0}

\* N messages, each in one of six places.
Split(Q, H, F, R, L, X, N) ==
  /\ Q \cup H \cup F \cup R \cup L \cup X = 1..N
  /\ Q \cap H = {}
  /\ (Q \cup H) \cap F = {}
  /\ (Q \cup H \cup F) \cap R = {}
  /\ (Q \cup H \cup F \cup R) \cap L = {}
  /\ (Q \cup H \cup F \cup R \cup L) \cap X = {}

Distinct(s) == \A i, j \in 1..Len(s) : s[i] = s[j] => i = j

MessageInv ==
  \A p \in Pipe :
    /\ Split(InQueue(p), InHand(p), flight[p], received[p], lost[p], refused[p], produced[p])
    /\ Distinct(sendCh[p])
    /\ Len(sendCh[p]) <= MaxQueue

PipelineInv == IInv /\ PipelineTypeOK /\ OthersInv /\ LoopInv /\ MessageInv
-----------------------------------------------------------------------------
\* Every step of the reporter is a step of the connection manager, or none.
LEMMA Composes == [PipelineNext]_allVars => [Next]_vars
<1> SUFFICES ASSUME [PipelineNext]_allVars PROVE [Next]_vars
  OBVIOUS
<1> USE PipelineAssumption
<1>1. CASE UNCHANGED allVars
  BY <1>1 DEF allVars
<1>2. CASE Construct \/ Boot \/ CloseChannel \/ CloseUnbooted \/ Connection
  BY <1>2 DEF Construct, Boot, CloseChannel, CloseUnbooted, Connection, Next
<1>3. ASSUME NEW p \in Pipe, SendX(p) \/ LoopStep(p) \/ BackendReceives(p) \/ StreamBreaks(p)
      PROVE  [Next]_vars
  <2>1. CASE EndLoop(p)
    BY <2>1 DEF EndLoop, Next
  <2> QED
    BY <1>3, <2>1 DEF SendX, LoopStep, CheckStatus, OpenStream, OpenFails, Take, SendSucceeds,
       SendPanics, SendFails, Drained, BackendReceives, StreamBreaks
<1> QED
  BY <1>1, <1>2, <1>3 DEF PipelineNext

\* The type invariant without its quantifier over variables
PipelineTypes ==
  /\ conn \in Conn \cup {NoConn} /\ closed \in 0..Len(Closing)
  /\ produced \in [Pipe -> Nat]
  /\ sendCh \in [Pipe -> Seq(Nat)]
  /\ loop \in [Pipe -> {"none", "check", "open", "ready", "send", "closing", "ended"}]
  /\ current \in [Pipe -> Nat]
  /\ broken \in [Pipe -> BOOLEAN]
  /\ flight \in [Pipe -> SUBSET Nat] /\ received \in [Pipe -> SUBSET Nat]
  /\ lost \in [Pipe -> SUBSET Nat] /\ refused \in [Pipe -> SUBSET Nat]

\* Types are kept by every step.
LEMMA TypeStep ==
  ASSUME TypeOK, PipelineTypeOK, [PipelineNext]_allVars
  PROVE  PipelineTypeOK'
<1> SUFFICES ASSUME PipelineTypes PROVE PipelineTypes'
  BY DEF PipelineTypeOK, PipelineTypes
<1> USE PipelineAssumption DEF PipelineTypes, loopVars, msgVars, pipelineVars
<1>1. CASE UNCHANGED allVars \/ Construct \/ CloseUnbooted \/ Connection
  BY <1>1 DEF allVars, Construct, CloseUnbooted, Connection
<1>2. CASE Boot
  <2>1. held[Reporter] \in Conn \cup {NoConn}
    BY DEF TypeOK
  <2> QED
    BY <1>2, <2>1 DEF Boot
<1>3. CASE CloseChannel
  BY <1>3 DEF CloseChannel, Closing
<1>4. ASSUME NEW p \in Pipe, SendX(p) PROVE PipelineTypes'
  <2>1. produced[p] + 1 \in Nat
    OBVIOUS
  <2>2. produced' \in [Pipe -> Nat] /\ produced'[p] \in Nat
    BY <1>4, <2>1 DEF SendX
  <2>3. sendCh[p] \in Seq(Nat) /\ Append(sendCh[p], produced'[p]) \in Seq(Nat)
    BY <2>2, AppendProperties
  <2>4. sendCh' \in [Pipe -> Seq(Nat)]
    BY <1>4, <2>3 DEF SendX
  <2>5. refused' \in [Pipe -> SUBSET Nat]
    BY <1>4, <2>2, SMTT(30) DEF SendX
  <2> QED
    BY <1>4, <2>2, <2>4, <2>5 DEF SendX
<1>5. ASSUME NEW p \in Pipe, CheckStatus(p) \/ OpenStream(p) \/ OpenFails(p) \/ EndLoop(p)
      PROVE  PipelineTypes'
  <2>1. UNCHANGED <<conn, closed, produced, sendCh, current, msgVars, refused>>
    BY <1>5 DEF CheckStatus, OpenStream, OpenFails, EndLoop
  <2>2. \E l \in {"ended", "open", "ready", "check"} : MoveTo(p, l)
    BY <1>5 DEF CheckStatus, OpenStream, OpenFails, EndLoop
  <2>3. broken' \in [Pipe -> BOOLEAN]
    BY <1>5 DEF CheckStatus, OpenStream, OpenFails, EndLoop
  <2> QED
    BY <2>1, <2>2, <2>3 DEF MoveTo
<1>6. ASSUME NEW p \in Pipe, Take(p) PROVE PipelineTypes'
  <2>1. Head(sendCh[p]) \in Nat /\ Tail(sendCh[p]) \in Seq(Nat)
    BY <1>6, HeadTailProperties DEF Take
  <2> QED
    BY <1>6, <2>1 DEF Take, MoveTo
<1>7. ASSUME NEW p \in Pipe, SendSucceeds(p) \/ SendPanics(p) \/ SendFails(p) \/ Drained(p)
      PROVE  PipelineTypes'
  <2>1. UNCHANGED <<conn, closed, produced, sendCh, broken, received, refused>>
    BY <1>7 DEF SendSucceeds, SendPanics, SendFails, Drained
  <2>2. \E l \in {"closing", "ready", "check"} : MoveTo(p, l)
    BY <1>7 DEF SendSucceeds, SendPanics, SendFails, Drained
  <2>3. current[p] \in Nat /\ flight[p] \subseteq Nat /\ lost[p] \subseteq Nat
    OBVIOUS
  <2>4. current' \in [Pipe -> Nat]
    BY <1>7, SMTT(30) DEF SendSucceeds, SendPanics, SendFails, Drained
  <2>5. flight' \in [Pipe -> SUBSET Nat] /\ lost' \in [Pipe -> SUBSET Nat]
    <3>1. CASE SendSucceeds(p)
      BY <2>3, <3>1 DEF SendSucceeds
    <3>2. CASE SendPanics(p)
      BY <2>3, <3>2 DEF SendPanics
    <3>3. CASE SendFails(p)
      BY <2>3, <3>3 DEF SendFails
    <3>4. CASE Drained(p)
      BY <2>3, <3>4 DEF Drained
    <3> QED
      BY <1>7, <3>1, <3>2, <3>3, <3>4
  <2> QED
    BY <2>1, <2>2, <2>4, <2>5 DEF MoveTo
<1>8. ASSUME NEW p \in Pipe, BackendReceives(p) \/ StreamBreaks(p) PROVE PipelineTypes'
  <2>1. CASE BackendReceives(p)
    <3>1. PICK m \in flight[p] : /\ received' = [received EXCEPT ![p] = @ \cup {m}]
                                 /\ flight' = [flight EXCEPT ![p] = @ \ {m}]
      BY <2>1 DEF BackendReceives
    <3>2. m \in Nat /\ flight[p] \subseteq Nat /\ received[p] \subseteq Nat
      OBVIOUS
    <3>3. received' \in [Pipe -> SUBSET Nat] /\ flight' \in [Pipe -> SUBSET Nat]
      BY <3>1, <3>2
    <3> QED
      BY <2>1, <3>3 DEF BackendReceives
  <2>2. CASE StreamBreaks(p)
    BY <2>2 DEF StreamBreaks
  <2> QED
    BY <1>8, <2>1, <2>2
<1> QED
  BY <1>1, <1>2, <1>3, <1>4, <1>5, <1>6, <1>7, <1>8 DEF PipelineNext, LoopStep

\* A booted reporter is never told Shutdown.
LEMMA NoShutDown ==
  ASSUME IInv, OthersInv, booted
  PROVE  ConnectionStatus # "shutdown"
<1>1. \E o \in Others : o \in Holders
  BY PipelineAssumption DEF OthersInv, Holders
<1>2. entry # NoConn
  BY <1>1 DEF IInv, CountInv
<1>3. entry \in Conn /\ channel[entry] \in Open /\ status[entry] # "shutdown"
  BY <1>2 DEF IInv, TypeOK, OpenInv, WatchInv
<1> QED
  BY <1>2, <1>3 DEF ConnectionStatus, Open

\* The other holders stay, and only a booted reporter has loops.
LEMMA OthersStep ==
  ASSUME IInv, PipelineTypes, OthersInv, [PipelineNext]_allVars
  PROVE  OthersInv'
<1> USE PipelineAssumption DEF OthersInv, booted
<1>t. client \in [Client -> {"idle", "missed", "dialed", "holding"}]
  BY DEF IInv, TypeOK
<1>1. CASE UNCHANGED <<client, conn, loop>>
  BY <1>1
<1>2. CASE Construct
  <2>1. UNCHANGED <<conn, loop>>
    BY <1>2 DEF Construct, pipelineVars, loopVars
  <2>2. PICK k \in Client : Get(k) /\ (k = Reporter =>
          ~booted /\ \A o \in Others : client[o] = "holding")
    BY <1>2 DEF Construct
  <2>3. client[k] # "holding" /\ \A j \in Client : j # k => client'[j] = client[j]
    BY <2>2, <1>t DEF Get, GetHit, GetMiss, Dial, DialFails, Publish, Yield, Acquire
  <2> QED
    BY <2>1, <2>2, <2>3
<1>3. CASE Boot
  <2>1. Reporter \in Holders
    BY <1>3 DEF Boot, Holders
  <2>2. held[Reporter] # NoConn
    BY <2>1 DEF IInv, CountInv
  <2>3. conn' # NoConn /\ client' = client /\ client[Reporter] = "holding"
    BY <1>3, <2>2 DEF Boot, vars, clientVars
  <2> QED
    BY <2>3
<1>4. ASSUME Release(Reporter), UNCHANGED conn,
             \A p \in Pipe : loop'[p] # "none" => booted,
             booted \/ client'[Reporter] = "idle"
      PROVE  OthersInv'
  <2>1. client'[Reporter] = "idle" /\ \A o \in Others : client'[o] = client[o]
    BY <1>4, <1>t DEF Release
  <2> QED
    BY <1>4, <2>1
<1>5. CASE CloseUnbooted
  BY <1>4, <1>5, <1>t DEF CloseUnbooted, Release, pipelineVars, loopVars
<1>6. CASE Connection
  BY <1>1, <1>6 DEF Connection, pipelineVars, loopVars, Watch, WatchRead, WatchState, WatchWrite,
     TransportChanges, clientVars
<1>7. ASSUME NEW p \in Pipe, LoopStep(p) PROVE OthersInv'
  <2>1. loop[p] # "none" /\ UNCHANGED conn /\ \E l \in {"check", "open", "ready", "send",
          "closing", "ended"} : MoveTo(p, l)
    BY <1>7 DEF LoopStep, CheckStatus, OpenStream, OpenFails, Take, SendSucceeds, SendPanics,
       SendFails, Drained, EndLoop
  <2>2. booted /\ \A q \in Pipe : loop'[q] # "none" => booted
    BY <2>1 DEF MoveTo, PipelineTypes
  <2>3. CASE EndLoop(p) /\ p = "tracing"
    BY <2>1, <2>2, <2>3, <1>4 DEF EndLoop
  <2>4. CASE ~(EndLoop(p) /\ p = "tracing")
    <3>1. UNCHANGED client
      BY <1>7, <2>4 DEF LoopStep, CheckStatus, OpenStream, OpenFails, Take, SendSucceeds,
         SendPanics, SendFails, Drained, EndLoop, vars, clientVars
    <3> QED
      BY <2>1, <2>2, <3>1
  <2> QED
    BY <2>3, <2>4
<1>8. CASE CloseChannel \/ \E p \in Pipe : SendX(p) \/ BackendReceives(p) \/ StreamBreaks(p)
  BY <1>1, <1>8 DEF CloseChannel, SendX, BackendReceives, StreamBreaks, vars, clientVars, loopVars
<1>9. CASE UNCHANGED allVars
  BY <1>1, <1>9 DEF allVars, vars, clientVars, pipelineVars, loopVars
<1> QED
  BY <1>2, <1>3, <1>5, <1>6, <1>7, <1>8, <1>9 DEF PipelineNext

\* A loop has a message in hand only while it sends, and a loop that is done
\* has nothing left.
LEMMA LoopsStep ==
  ASSUME IInv, PipelineTypes, OthersInv, LoopInv, MessageInv, [PipelineNext]_allVars
  PROVE  LoopInv'
<1> USE PipelineAssumption DEF LoopInv, PipelineTypes
<1>1. CASE UNCHANGED <<closed, sendCh, loop, current, flight>>
  BY <1>1 DEF IsClosed
<1>2. CASE UNCHANGED allVars \/ Construct \/ CloseUnbooted \/ Connection
  BY <1>1, <1>2 DEF allVars, Construct, CloseUnbooted, Connection, pipelineVars, loopVars, msgVars
<1>3. CASE Boot
  BY <1>3 DEF Boot, msgVars, OthersInv
<1>4. CASE CloseChannel
  <2>1. closed \in Nat /\ closed' = closed + 1
    BY <1>4 DEF CloseChannel, Closing
  <2>2. \A p \in Pipe : IsClosed(p) => IsClosed(p)'
    BY <2>1 DEF IsClosed
  <2> QED
    BY <1>4, <2>2 DEF CloseChannel, loopVars, msgVars
<1>5. ASSUME NEW p \in Pipe, SendX(p) PROVE LoopInv'
  <2>1. UNCHANGED <<closed, loop, current, flight>>
    BY <1>5 DEF SendX, loopVars, msgVars
  <2>2. \A q \in Pipe : IsClosed(q)' <=> IsClosed(q)
    BY <2>1 DEF IsClosed
  <2>3. \A q \in Pipe : IsClosed(q) => sendCh'[q] = sendCh[q]
    BY <1>5 DEF SendX
  <2> QED
    BY <2>1, <2>2, <2>3
<1>6. ASSUME NEW p \in Pipe, LoopStep(p) \/ BackendReceives(p) \/ StreamBreaks(p) PROVE LoopInv'
  <2>1. UNCHANGED closed
    BY <1>6 DEF LoopStep, CheckStatus, OpenStream, OpenFails, Take, SendSucceeds, SendPanics,
       SendFails, Drained, EndLoop, BackendReceives, StreamBreaks
  <2>2. \A q \in Pipe : IsClosed(q)' <=> IsClosed(q)
    BY <2>1 DEF IsClosed
  <2>3. CASE CheckStatus(p)
    <3>1. booted
      BY <2>3 DEF CheckStatus, OthersInv
    <3> QED
      BY <2>2, <2>3, <3>1, NoShutDown DEF CheckStatus, MoveTo, msgVars, PipelineTypes
  <2>4. CASE OpenStream(p) \/ OpenFails(p)
    BY <2>2, <2>4 DEF OpenStream, OpenFails, MoveTo, msgVars
  <2>5. CASE Take(p)
    <3>1. sendCh[p] \in Seq(Nat) /\ sendCh[p] # <<>>
      BY <2>5 DEF Take
    <3>2. Head(sendCh[p]) = sendCh[p][1] /\ 1 \in 1..Len(sendCh[p])
      BY <3>1, EmptySeq
    <3>3. Head(sendCh[p]) # 0
      BY <3>2 DEF MessageInv, Split, InQueue
    <3> QED
      BY <2>2, <2>5, <3>3 DEF Take, MoveTo, msgVars
  <2>6. CASE SendSucceeds(p) \/ SendPanics(p) \/ SendFails(p)
    BY <2>2, <2>6 DEF SendSucceeds, SendPanics, SendFails, MoveTo
  <2>7. CASE Drained(p)
    BY <2>2, <2>7 DEF Drained, MoveTo
  <2>8. CASE EndLoop(p)
    BY <2>2, <2>8 DEF EndLoop, MoveTo, msgVars
  <2>9. CASE BackendReceives(p) \/ StreamBreaks(p)
    BY <2>2, <2>9 DEF BackendReceives, StreamBreaks, Streaming, loopVars
  <2> QED
    BY <1>6, <2>3, <2>4, <2>5, <2>6, <2>7, <2>8, <2>9 DEF LoopStep
<1> QED
  BY <1>2, <1>3, <1>4, <1>5, <1>6 DEF PipelineNext

\* A pipeline whose messages stay where they are keeps MessageInv.
LEMMA MessageFrame ==
  ASSUME MessageInv, NEW p \in Pipe,
         UNCHANGED <<sendCh[p], current[p], flight[p], received[p], lost[p], refused[p],
                     produced[p]>>
  PROVE  /\ Split(InQueue(p), InHand(p), flight[p], received[p], lost[p], refused[p],
                  produced[p])'
         /\ Distinct(sendCh[p])' /\ Len(sendCh[p])' <= MaxQueue
BY DEF MessageInv, Split, InQueue, InHand, Distinct

\* What a channel holds after a message was put into it or taken out of it
LEMMA Put ==
  ASSUME NEW s \in Seq(Nat), NEW m \in Nat, Distinct(s), \A i \in 1..Len(s) : s[i] # m
  PROVE  LET t == Append(s, m) IN
         /\ {t[i] : i \in 1..Len(t)} = {s[i] : i \in 1..Len(s)} \cup {m}
         /\ Distinct(t) /\ Len(t) = Len(s) + 1
<1> DEFINE t == Append(s, m)
<1>1. /\ Len(s) \in Nat /\ Len(t) = Len(s) + 1
      /\ \A i \in 1..Len(s) : t[i] = s[i]
      /\ t[Len(s) + 1] = m
  BY AppendProperties, LenProperties
<1> HIDE DEF t
<1>2. \A i \in 1..Len(t) : i \in 1..Len(s) \/ i = Len(s) + 1
  BY <1>1
<1>3. {t[i] : i \in 1..Len(t)} \subseteq {s[i] : i \in 1..Len(s)} \cup {m}
  BY <1>1, <1>2
<1>4. {s[i] : i \in 1..Len(s)} \cup {m} \subseteq {t[i] : i \in 1..Len(t)}
  <2>1. \A i \in 1..Len(s) : i \in 1..Len(t)
    BY <1>1
  <2>2. Len(s) + 1 \in 1..Len(t)
    BY <1>1
  <2> QED
    BY <1>1, <2>1, <2>2
<1>5. Distinct(t)
  BY <1>1, <1>2 DEF Distinct
<1> QED
  BY <1>1, <1>3, <1>4, <1>5 DEF t

LEMMA Got ==
  ASSUME NEW s \in Seq(Nat), s # <<>>, Distinct(s)
  PROVE  LET t == Tail(s) IN
         /\ {s[i] : i \in 1..Len(s)} = {t[i] : i \in 1..Len(t)} \cup {Head(s)}
         /\ Head(s) \notin {t[i] : i \in 1..Len(t)}
         /\ Distinct(t) /\ Len(t) = Len(s) - 1
<1> DEFINE t == Tail(s)
<1>1. /\ Len(s) \in Nat \ {0} /\ Len(t) = Len(s) - 1
      /\ \A i \in 1..Len(t) : t[i] = s[i + 1]
      /\ Head(s) = s[1]
  BY HeadTailProperties, EmptySeq
<1> HIDE DEF t
<1>2. \A i \in 1..Len(t) : i + 1 \in 1..Len(s) /\ i + 1 # 1
  BY <1>1
<1>3. \A i \in 1..Len(s) : i = 1 \/ (i - 1 \in 1..Len(t) /\ (i - 1) + 1 = i)
  BY <1>1
<1>4. {s[i] : i \in 1..Len(s)} \subseteq {t[i] : i \in 1..Len(t)} \cup {Head(s)}
  <2> SUFFICES ASSUME NEW i \in 1..Len(s), i # 1 PROVE s[i] \in {t[j] : j \in 1..Len(t)}
    BY <1>1
  <2>1. i - 1 \in 1..Len(t) /\ t[i - 1] = s[i]
    BY <1>1, <1>3
  <2> QED
    BY <2>1
<1>5. {t[i] : i \in 1..Len(t)} \cup {Head(s)} \subseteq {s[i] : i \in 1..Len(s)}
  <2>1. Head(s) \in {s[i] : i \in 1..Len(s)}
    BY <1>1
  <2>2. ASSUME NEW i \in 1..Len(t) PROVE t[i] \in {s[j] : j \in 1..Len(s)}
    BY <1>1, <1>2
  <2> QED
    BY <2>1, <2>2
<1>6. Head(s) \notin {t[i] : i \in 1..Len(t)}
  BY <1>1, <1>2 DEF Distinct
<1>7. Distinct(t)
  <2> SUFFICES ASSUME NEW i \in 1..Len(t), NEW j \in 1..Len(t), t[i] = t[j] PROVE i = j
    BY DEF Distinct
  <2>1. s[i + 1] = s[j + 1] /\ i + 1 \in 1..Len(s) /\ j + 1 \in 1..Len(s)
    BY <1>1, <1>2
  <2>2. i + 1 = j + 1
    BY <2>1 DEF Distinct
  <2> QED
    BY <2>2
<1> QED
  BY <1>1, <1>4, <1>5, <1>6, <1>7 DEF t

\* No step loses a message or has it in two places.
LEMMA MessageStep ==
  ASSUME IInv, PipelineTypes, OthersInv, LoopInv, MessageInv, [PipelineNext]_allVars
  PROVE  MessageInv'
<1> USE PipelineAssumption DEF PipelineTypes
<1>1. CASE UNCHANGED <<sendCh, current, flight, received, lost, refused, produced>>
  BY <1>1, MessageFrame DEF MessageInv
<1>2. CASE UNCHANGED allVars \/ Construct \/ CloseUnbooted \/ Connection \/ Boot \/ CloseChannel
  BY <1>1, <1>2 DEF allVars, Construct, CloseUnbooted, Connection, Boot, CloseChannel, pipelineVars,
     loopVars, msgVars
\* The rest concerns one pipeline.
<1>3. ASSUME NEW p \in Pipe,
             SendX(p) \/ LoopStep(p) \/ BackendReceives(p) \/ StreamBreaks(p)
      PROVE  MessageInv'
  <2>a. \A q \in Pipe : q # p =>
          UNCHANGED <<sendCh[q], current[q], flight[q], received[q], lost[q], refused[q],
                      produced[q]>>
    BY <1>3 DEF SendX, LoopStep, CheckStatus, OpenStream, OpenFails, Take, SendSucceeds, SendPanics,
       SendFails, Drained, EndLoop, BackendReceives, StreamBreaks, loopVars, msgVars
  <2> DEFINE Kept == /\ Split(InQueue(p), InHand(p), flight[p], received[p], lost[p], refused[p],
                              produced[p])
                     /\ Distinct(sendCh[p]) /\ Len(sendCh[p]) <= MaxQueue
  <2>b. Kept' => MessageInv'
    BY <2>a, MessageFrame DEF MessageInv
  <2>c. Kept /\ sendCh[p] \in Seq(Nat) /\ current[p] \in Nat /\ produced[p] \in Nat
    BY DEF MessageInv
  <2> HIDE DEF Kept
  <2>1. CASE SendX(p)
    <3> DEFINE m == produced[p] + 1
    <3>1. produced'[p] = m /\ UNCHANGED <<current, flight, received, lost>>
      BY <2>1 DEF SendX, loopVars, msgVars
    <3>2. m \in Nat /\ m \notin 1..produced[p] /\ 1..m = 1..produced[p] \cup {m}
      BY <2>c
    <3>3. \A i \in 1..Len(sendCh[p]) : sendCh[p][i] # m
      BY <2>c, <3>2 DEF Kept, Split, InQueue
    <3>4. CASE sendCh'[p] = Append(sendCh[p], m) /\ refused' = refused /\ Len(sendCh[p]) < MaxQueue
      <4>1. InQueue(p)' = InQueue(p) \cup {m} /\ Distinct(sendCh[p])'
            /\ Len(sendCh[p])' = Len(sendCh[p]) + 1
        <5>1. Distinct(sendCh[p])
          BY <2>c DEF Kept
        <5>2. LET t == Append(sendCh[p], m) IN
              /\ {t[i] : i \in 1..Len(t)} = InQueue(p) \cup {m}
              /\ Distinct(t) /\ Len(t) = Len(sendCh[p]) + 1
          BY <2>c, <3>2, <3>3, <5>1, Put DEF InQueue
        <5> QED
          BY <3>4, <5>2 DEF InQueue, Distinct
      <4>2. Len(sendCh[p])' <= MaxQueue
        BY <2>c, <3>4, <4>1, LenProperties
      <4>3. InHand(p)' = InHand(p)
        BY <3>1 DEF InHand
      <4> QED
        BY <2>b, <2>c, <3>1, <3>2, <3>4, <4>1, <4>2, <4>3 DEF Kept, Split
    <3>5. CASE sendCh' = sendCh /\ refused'[p] = refused[p] \cup {m}
      <4>1. InQueue(p)' = InQueue(p) /\ InHand(p)' = InHand(p) /\ Distinct(sendCh[p])'
            /\ Len(sendCh[p])' <= MaxQueue
        BY <2>c, <3>1, <3>5 DEF InQueue, InHand, Distinct, Kept
      <4> QED
        BY <2>b, <2>c, <3>1, <3>2, <3>5, <4>1 DEF Kept, Split
    <3> QED
      BY <2>1, <3>1, <3>4, <3>5 DEF SendX
  <2>2. CASE Take(p)
    <3>1. /\ sendCh[p] # <<>> /\ sendCh'[p] = Tail(sendCh[p]) /\ current'[p] = Head(sendCh[p])
          /\ UNCHANGED <<flight, received, lost, refused, produced>>
      BY <2>2 DEF Take, msgVars
    <3>2. InHand(p) = {}
      BY <2>2 DEF Take, LoopInv, InHand
    <3>3. /\ InQueue(p) = InQueue(p)' \cup {Head(sendCh[p])} /\ Head(sendCh[p]) \notin InQueue(p)'
          /\ Distinct(sendCh[p])' /\ Len(sendCh[p])' = Len(sendCh[p]) - 1
      <4>1. Distinct(sendCh[p])
        BY <2>c DEF Kept
      <4>2. LET t == Tail(sendCh[p]) IN
            /\ InQueue(p) = {t[i] : i \in 1..Len(t)} \cup {Head(sendCh[p])}
            /\ Head(sendCh[p]) \notin {t[i] : i \in 1..Len(t)}
            /\ Distinct(t) /\ Len(t) = Len(sendCh[p]) - 1
        BY <2>c, <3>1, <4>1, Got DEF InQueue
      <4> DEFINE t == Tail(sendCh[p])
      <4>3. InQueue(p)' = {t[i] : i \in 1..Len(t)}
        BY <3>1 DEF InQueue
      <4>4. Distinct(sendCh[p])' /\ Len(sendCh[p])' = Len(t)
        BY <3>1, <4>2 DEF Distinct
      <4> QED
        BY <4>2, <4>3, <4>4
    <3>4. Head(sendCh[p]) # 0
      BY <2>c, <3>3 DEF Kept, Split
    <3>5. InHand(p)' = {Head(sendCh[p])}
      BY <3>1, <3>4 DEF InHand
    <3>6. Len(sendCh[p])' <= MaxQueue
      BY <2>c, <3>3, LenProperties DEF Kept
    <3> QED
      BY <2>b, <2>c, <3>1, <3>2, <3>3, <3>5, <3>6 DEF Kept, Split
  <2>3. ASSUME UNCHANGED <<sendCh, refused, produced>> PROVE
          /\ InQueue(p)' = InQueue(p) /\ Distinct(sendCh[p])' /\ Len(sendCh[p])' <= MaxQueue
          /\ refused'[p] = refused[p] /\ produced'[p] = produced[p]
    BY <2>c, <2>3 DEF InQueue, Distinct, Kept
  <2>4. CASE SendSucceeds(p) \/ SendPanics(p) \/ SendFails(p)
    <3>1. UNCHANGED <<sendCh, refused, produced, received>> /\ current'[p] = 0
      BY <2>4 DEF SendSucceeds, SendPanics, SendFails
    <3>2. InHand(p) = {current[p]} /\ InHand(p)' = {}
      BY <2>4, <3>1 DEF SendSucceeds, SendPanics, SendFails, LoopInv, InHand
    <3>3. \/ flight'[p] = flight[p] \cup {current[p]} /\ lost'[p] = lost[p]
          \/ flight'[p] = flight[p] /\ lost'[p] = lost[p] \cup {current[p]}
          \/ flight'[p] = {} /\ lost'[p] = lost[p] \cup {current[p]} \cup flight[p]
      BY <2>4 DEF SendSucceeds, SendPanics, SendFails
    <3> QED
      BY <2>b, <2>c, <2>3, <3>1, <3>2, <3>3 DEF Kept, Split
  <2>5. CASE Drained(p) \/ StreamBreaks(p)
    <3>1. /\ UNCHANGED <<sendCh, refused, produced, received, current>>
          /\ flight'[p] = {} /\ lost'[p] = lost[p] \cup flight[p]
      BY <2>5 DEF Drained, StreamBreaks
    <3>2. InHand(p)' = InHand(p)
      BY <3>1 DEF InHand
    <3> QED
      BY <2>b, <2>c, <2>3, <3>1, <3>2 DEF Kept, Split
  <2>6. CASE BackendReceives(p)
    <3>1. UNCHANGED <<sendCh, refused, produced, lost, current>>
      BY <2>6 DEF BackendReceives, loopVars
    <3>2. \E m \in flight[p] : received'[p] = received[p] \cup {m} /\ flight'[p] = flight[p] \ {m}
      BY <2>6 DEF BackendReceives
    <3>3. InHand(p)' = InHand(p)
      BY <3>1 DEF InHand
    <3> QED
      BY <2>b, <2>c, <2>3, <3>1, <3>2, <3>3 DEF Kept, Split
  <2>7. CASE CheckStatus(p) \/ OpenStream(p) \/ OpenFails(p) \/ EndLoop(p)
    BY <1>1, <2>7 DEF CheckStatus, OpenStream, OpenFails, EndLoop, msgVars
  <2> QED
    BY <1>3, <2>1, <2>2, <2>4, <2>5, <2>6, <2>7 DEF LoopStep
<1> QED
  BY <1>2, <1>3 DEF PipelineNext
-----------------------------------------------------------------------------
LEMMA InitPipelineInv == PipelineInit => PipelineInv
<1> SUFFICES ASSUME PipelineInit PROVE PipelineInv
  OBVIOUS
<1>1. IInv
  BY InitIInv DEF PipelineInit
<1>2. PipelineTypeOK
  <2>1. PipelineTypes
    BY DEF PipelineInit, PipelineTypes, Closing
  <2> QED
    BY <2>1 DEF PipelineTypes, PipelineTypeOK
<1>3. OthersInv
  BY PipelineAssumption DEF PipelineInit, Init, OthersInv, booted
<1>4. LoopInv
  BY DEF PipelineInit, LoopInv
<1>5. MessageInv
  <2> SUFFICES ASSUME NEW p \in Pipe
               PROVE  /\ Split(InQueue(p), InHand(p), flight[p], received[p], lost[p], refused[p],
                               produced[p])
                      /\ Distinct(sendCh[p]) /\ Len(sendCh[p]) <= MaxQueue
    BY DEF MessageInv
  <2>1. sendCh[p] = <<>> /\ Len(sendCh[p]) = 0 /\ 1..0 = {}
    BY DEF PipelineInit
  <2>2. InQueue(p) = {} /\ InHand(p) = {} /\ Distinct(sendCh[p]) /\ 0 <= MaxQueue
    BY <2>1, PipelineAssumption DEF PipelineInit, InQueue, InHand, Distinct
  <2> QED
    BY <2>1, <2>2 DEF PipelineInit, Split
<1> QED
  BY <1>1, <1>2, <1>3, <1>4, <1>5 DEF PipelineInv

\* PipelineInv holds in every reachable state, whatever breaks and whenever Close is called.
THEOREM PipelineInvariance == PipelineSpec => []PipelineInv
<1>1. PipelineInv /\ [PipelineNext]_allVars => PipelineInv'
  <2> SUFFICES ASSUME PipelineInv, [PipelineNext]_allVars PROVE PipelineInv'
    OBVIOUS
  <2>1. PipelineTypes /\ TypeOK
    BY DEF PipelineInv, PipelineTypes, PipelineTypeOK, IInv
  <2> QED
    BY <2>1, Composes, StepIInv, TypeStep, OthersStep, LoopsStep, MessageStep DEF PipelineInv
<1> QED
  BY <1>1, InitPipelineInv, PTL DEF PipelineSpec

\* Types are kept, and every channel has been closed once at most.
THEOREM PipelineTypeCorrect == PipelineSpec => []PipelineTypeOK
<1>1. PipelineInv => PipelineTypeOK
  BY DEF PipelineInv
<1> QED
  BY <1>1, PipelineInvariance, PTL

\* The reporter, its loops and Close use the connection as ConnectionManager's
\* callers do, releasing it once.
THEOREM PipelineComposition == PipelineSpec => Spec
<1>1. PipelineInit => Init
  BY DEF PipelineInit
<1> QED
  BY <1>1, Composes, PTL DEF PipelineSpec, Spec

\* So while anybody holds the connection no loop closes it.
THEOREM PipelineReferences == PipelineSpec => []HeldIsOpen
BY PipelineComposition, References, PTL

\* A loop that has ended is drained.
THEOREM Drains == PipelineSpec => []EndedIsDrained
<1>1. PipelineInv => EndedIsDrained
  BY DEF PipelineInv, LoopInv, EndedIsDrained
<1> QED
  BY <1>1, PipelineInvariance, PTL

\* No message is ever in two places or in none.
THEOREM NothingForgotten == PipelineSpec => []Accounted
<1>1. PipelineInv => Accounted
  <2> SUFFICES ASSUME PipelineInv, NEW p \in Pipe
               PROVE  LET places == <<InQueue(p), InHand(p), flight[p], received[p], lost[p],
                                      refused[p]>>
                      IN  /\ UNION {places[i] : i \in 1..6} = 1..produced[p]
                          /\ \A i, j \in 1..6 : i # j => places[i] \cap places[j] = {}
                          /\ Cardinality(InQueue(p)) = Len(sendCh[p])
                          /\ Len(sendCh[p]) <= MaxQueue
    BY DEF Accounted, InQueue, InHand
  <2>1. /\ Split(InQueue(p), InHand(p), flight[p], received[p], lost[p], refused[p], produced[p])
        /\ Distinct(sendCh[p]) /\ Len(sendCh[p]) <= MaxQueue
        /\ sendCh[p] \in Seq(Nat)
    BY DEF PipelineInv, MessageInv, PipelineTypeOK
  <2>2. Cardinality(InQueue(p)) = Len(sendCh[p])
    <3>1. Len(sendCh[p]) \in Nat /\ DOMAIN sendCh[p] = 1..Len(sendCh[p])
          /\ sendCh[p] = [i \in 1..Len(sendCh[p]) |-> sendCh[p][i]]
      BY <2>1, LenProperties
    <3>2. sendCh[p] \in Bijection(1..Len(sendCh[p]), InQueue(p))
      BY <2>1, <3>1 DEF InQueue, Distinct, Bijection, Injection, Surjection, IsInjective
    <3>3. ExistsBijection(1..Len(sendCh[p]), InQueue(p))
      BY <3>2 DEF ExistsBijection
    <3> QED
      BY <3>1, <3>3, FS_CountingElements
  <2> DEFINE places == <<InQueue(p), InHand(p), flight[p], received[p], lost[p], refused[p]>>
  <2>3. \A i \in 1..6 : i \in {1, 2, 3, 4, 5, 6}
    OBVIOUS
  <2>4. \A i, j \in 1..6 : i # j => places[i] \cap places[j] = {}
    BY <2>1, <2>3 DEF Split
  <2>5. UNION {places[i] : i \in 1..6} =
          InQueue(p) \cup InHand(p) \cup flight[p] \cup received[p] \cup lost[p] \cup refused[p]
    <3>1. {places[i] : i \in 1..6} =
            {InQueue(p), InHand(p), flight[p], received[p], lost[p], refused[p]}
      BY <2>3
    <3> QED
      BY <3>1
  <2> QED
    BY <2>1, <2>2, <2>4, <2>5 DEF Split
<1> QED
  BY <1>1, PipelineInvariance, PTL
=============================================================================

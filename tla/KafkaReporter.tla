----------------------------- MODULE KafkaReporter -----------------------------
(***************************************************************************)
(* The Kafka reporter (reporter/kafka/kafka.go).  SendTracing, SendMetrics *)
(* and SendLog put a message into a bounded channel or drop it; one loop   *)
(* per channel encodes and writes it with the one writer of the reporter.  *)
(* A fourth goroutine registers the instance and keeps it alive.  Close    *)
(* closes the channels and then the writer, under the loops that still     *)
(* drain; what is written afterwards fails.  A panic of the writer in one  *)
(* of these loops ends the process: nothing recovers it there.             *)
(*                                                                         *)
(* The messages of a topic are numbered as they are offered.  The writer   *)
(* tries a message up to ten times: one that is acknowledged, with acks of *)
(* one (the default) or all, may have arrived twice, one that failed may   *)
(* have arrived all the same.                                              *)
(***************************************************************************)
EXTENDS Naturals, Sequences, FiniteSets

CONSTANTS Topic,      \* the topics looked at
          QueueSize,  \* kafkaMaxSendQueueSize
          MaxOffered  \* bound: messages offered for each topic

ClosingOrder == <<"segments", "meters", "logs">>   \* then the writer

ASSUME KafkaAssumption ==
  /\ Topic \subseteq {"segments", "meters", "logs"}
  /\ QueueSize \in Nat \ {0} /\ MaxOffered \in Nat

VARIABLES
  bootFlag,
  closing,    \* steps of Close done: three channels, then the writer
  broker,     \* "up" or "down"
  offered,    \* messages given to the reporter
  inbox,      \* tracingSendCh, metricsSendCh, logSendCh
  writing,    \* the message a send loop has, 0 if none
  sender,     \* each send loop: "none", "range", "ended" or "panicked"
  topicLog,   \* what the broker has of each topic
  acked,      \* written, as far as the loop knows
  failed,     \* given up: not encoded, or the write failed
  turnedAway, \* never accepted: the channel was full or closed
  checker,    \* the goroutine of check
  submitted,  \* its instancePropertiesSubmitted
  management  \* the kinds of message the broker has of the instance; a ping that
              \* came before all properties is "stray"

sendVars   == <<offered, inbox, writing, sender, topicLog, acked, failed, turnedAway>>
checkVars  == <<checker, submitted, management>>
kafkaVars  == <<bootFlag, closing, broker, sendVars, checkVars>>

ChannelClosed(t) == \E i \in 1..closing : i \in DOMAIN ClosingOrder /\ ClosingOrder[i] = t
WriterOpen == closing <= Len(ClosingOrder)
\* the process is: a panic of a send loop is the end of all its goroutines
Alive == \A t \in Topic : sender[t] # "panicked"

KafkaInit ==
  /\ bootFlag = FALSE
  /\ closing = 0
  /\ broker \in {"up", "down"}
  /\ offered = [t \in Topic |-> 0]
  /\ inbox = [t \in Topic |-> <<>>]
  /\ writing = [t \in Topic |-> 0]
  /\ sender = [t \in Topic |-> "none"]
  /\ topicLog = [t \in Topic |-> <<>>]
  /\ acked = [t \in Topic |-> {}]
  /\ failed = [t \in Topic |-> {}]
  /\ turnedAway = [t \in Topic |-> {}]
  /\ checker = "none"
  /\ submitted = FALSE
  /\ management = {}
-----------------------------------------------------------------------------
(* Boot and Close *)

\* With a negative checkInterval there is no goroutine of check.
KafkaBoot ==
  /\ ~bootFlag
  /\ bootFlag' = TRUE
  /\ sender' = [t \in Topic |-> "range"]
  /\ checker' \in {"sleep", "none"}
  /\ UNCHANGED <<closing, broker, offered, inbox, writing, topicLog, acked, failed,
                 turnedAway, submitted, management>>

\* Close; a reporter that was not booted keeps its writer.
CloseStep ==
  /\ bootFlag /\ closing <= Len(ClosingOrder)
  /\ closing' = closing + 1
  /\ UNCHANGED <<bootFlag, broker, sendVars, checkVars>>
-----------------------------------------------------------------------------
(* SendTracing, SendMetrics, SendLog and their loops *)

\* A full channel takes the default branch, a closed one panics and recovers.
Offer(t) ==
  /\ bootFlag /\ offered[t] < MaxOffered
  /\ offered' = [offered EXCEPT ![t] = @ + 1]
  /\ IF ~ChannelClosed(t) /\ Len(inbox[t]) < QueueSize
     THEN /\ inbox' = [inbox EXCEPT ![t] = Append(@, offered'[t])]
          /\ UNCHANGED turnedAway
     ELSE /\ turnedAway' = [turnedAway EXCEPT ![t] = @ \cup {offered'[t]}]
          /\ UNCHANGED inbox
  /\ UNCHANGED <<bootFlag, closing, broker, writing, sender, topicLog, acked, failed, checkVars>>

Receive(t) ==
  /\ sender[t] = "range" /\ writing[t] = 0 /\ inbox[t] # <<>>
  /\ writing' = [writing EXCEPT ![t] = Head(inbox[t])]
  /\ inbox' = [inbox EXCEPT ![t] = Tail(@)]
  /\ UNCHANGED <<bootFlag, closing, broker, offered, sender, topicLog, acked, failed,
                 turnedAway, checkVars>>

\* n copies of the message reach the broker
Arrives(t, n) == topicLog' = [topicLog EXCEPT ![t] = @ \o [i \in 1..n |-> writing[t]]]

\* Mutant of WriteFails: a message that failed goes back into the channel.
WriteFailsRequeued(t) ==
  /\ writing[t] # 0
  /\ Len(inbox[t]) < QueueSize
  /\ Arrives(t, 0)
  /\ inbox' = [inbox EXCEPT ![t] = Append(@, writing[t])]
  /\ writing' = [writing EXCEPT ![t] = 0]
  /\ UNCHANGED <<bootFlag, closing, broker, offered, sender, acked, failed, turnedAway, checkVars>>

WriteSucceeds(t) ==
  /\ writing[t] # 0 /\ WriterOpen /\ broker = "up"
  /\ \E n \in 1..2 : Arrives(t, n)
  /\ acked' = [acked EXCEPT ![t] = @ \cup {writing[t]}]
  /\ writing' = [writing EXCEPT ![t] = 0]
  /\ UNCHANGED <<bootFlag, closing, broker, offered, inbox, sender, failed, turnedAway, checkVars>>

\* The write fails, also because the writer is closed; or the message cannot be
\* encoded, with an error or a panic that marshalWithRecover takes.
WriteFails(t) ==
  /\ writing[t] # 0
  /\ \E n \in 0..(IF WriterOpen THEN 1 ELSE 0) : Arrives(t, n)
  /\ failed' = [failed EXCEPT ![t] = @ \cup {writing[t]}]
  /\ writing' = [writing EXCEPT ![t] = 0]
  /\ UNCHANGED <<bootFlag, closing, broker, offered, inbox, sender, acked, turnedAway, checkVars>>

\* WriteMessages panics, outside marshalWithRecover; the message may have arrived.
WritePanics(t) ==
  /\ writing[t] # 0
  /\ \E n \in 0..(IF WriterOpen THEN 1 ELSE 0) : Arrives(t, n)
  /\ sender' = [sender EXCEPT ![t] = "panicked"]
  /\ UNCHANGED <<bootFlag, closing, broker, offered, inbox, writing, acked, failed, turnedAway,
                 checkVars>>

\* the range is over
SenderEnds(t) ==
  /\ sender[t] = "range" /\ writing[t] = 0 /\ inbox[t] = <<>> /\ ChannelClosed(t)
  /\ sender' = [sender EXCEPT ![t] = "ended"]
  /\ UNCHANGED <<bootFlag, closing, broker, offered, inbox, writing, topicLog, acked, failed,
                 turnedAway, checkVars>>

SendLoop(t) ==
  Receive(t) \/ WriteSucceeds(t) \/ WriteFails(t) \/ WritePanics(t) \/ SenderEnds(t)
-----------------------------------------------------------------------------
(* check: it goes on after Close, with writes that fail *)

CheckUnchanged == UNCHANGED <<bootFlag, closing, broker, sendVars>>

\* A round that has the properties behind it goes on to the ping, ...
CheckBegins ==
  /\ checker = "sleep"
  /\ checker' = IF submitted THEN "ping" ELSE "properties"
  /\ UNCHANGED <<submitted, management>> /\ CheckUnchanged

PropertiesSucceed ==
  /\ checker = "properties" /\ WriterOpen /\ broker = "up"
  /\ management' = management \cup {"properties"}
  /\ checker' = "ping"
  /\ UNCHANGED submitted /\ CheckUnchanged

\* ... one whose properties fail, or panic, begins with them again.
PropertiesFail ==
  /\ checker = "properties"
  /\ \/ UNCHANGED management
     \/ WriterOpen /\ management' = management \cup {"properties"}
  /\ checker' = "sleep"
  /\ UNCHANGED submitted /\ CheckUnchanged

PingSucceeds ==
  /\ checker = "ping" /\ WriterOpen /\ broker = "up"
  /\ management' = management \cup {IF "properties" \in management THEN "ping" ELSE "stray"}
  /\ submitted' = TRUE
  /\ checker' = "sleep"
  /\ CheckUnchanged

PingFails ==
  /\ checker = "ping"
  /\ submitted' = TRUE
  /\ checker' = "sleep"
  /\ UNCHANGED management /\ CheckUnchanged

\* Mutant of PingPanics: the recover is around the loop.
PingPanicsForGood ==
  /\ checker = "ping"
  /\ checker' = "ended"
  /\ UNCHANGED <<submitted, management>> /\ CheckUnchanged

\* The flag is set when checkOnce returns: after a panic it keeps its value,
\* and the properties are sent again.
PingPanics ==
  /\ checker = "ping"
  /\ checker' = "sleep"
  /\ UNCHANGED <<submitted, management>> /\ CheckUnchanged

CheckLoop == CheckBegins \/ PropertiesSucceed \/ PropertiesFail
             \/ PingSucceeds \/ PingFails \/ PingPanics
-----------------------------------------------------------------------------
BrokerChanges ==
  /\ broker' \in {"up", "down"} \ {broker}
  /\ UNCHANGED <<bootFlag, closing, sendVars, checkVars>>

KafkaNext ==
  \/ BrokerChanges
  \/ /\ Alive
     /\ \/ KafkaBoot \/ CloseStep \/ CheckLoop
        \/ \E t \in Topic : Offer(t) \/ SendLoop(t)

KafkaSpec == KafkaInit /\ [][KafkaNext]_kafkaVars

\* While the process lives its goroutines run, a Close that has begun goes on,
\* and a broker that is up takes a write that is made again and again.
KafkaFairness ==
  /\ \A t \in Topic : WF_kafkaVars(Alive /\ SendLoop(t))
  /\ WF_kafkaVars(Alive /\ closing > 0 /\ CloseStep)
  /\ WF_kafkaVars(Alive /\ CheckLoop)
  /\ SF_kafkaVars(Alive /\ PropertiesSucceed) /\ SF_kafkaVars(Alive /\ PingSucceeds)

FairKafkaSpec == KafkaSpec /\ KafkaFairness
-----------------------------------------------------------------------------
KafkaTypeOK ==
  /\ bootFlag \in BOOLEAN /\ submitted \in BOOLEAN
  /\ closing \in 0..(Len(ClosingOrder) + 1)
  /\ broker \in {"up", "down"}
  /\ offered \in [Topic -> Nat] /\ writing \in [Topic -> Nat]
  /\ inbox \in [Topic -> Seq(Nat)] /\ topicLog \in [Topic -> Seq(Nat)]
  /\ sender \in [Topic -> {"none", "range", "ended", "panicked"}]
  /\ acked \in [Topic -> SUBSET Nat] /\ failed \in [Topic -> SUBSET Nat]
  /\ turnedAway \in [Topic -> SUBSET Nat]
  /\ checker \in {"none", "sleep", "properties", "ping"}
  /\ management \subseteq {"properties", "ping", "stray"}

\* Every message is in one place, over every order of full channels, failed
\* writes and the closing of channels and writer; the broker has what was
\* acknowledged, in the order it was offered, and nothing that was turned away
\* (the send loops skip what fails and never go back to it, kafka.go:164-188);
\* of the message whose write panicked the loop does not know.  A loop that ended
\* left nothing behind, and nothing is accepted after it.
OnePlace(t) ==
  LET queued == {inbox[t][i] : i \in DOMAIN inbox[t]}
      inHand == {writing[t]} \ {0}
      places == <<queued, inHand, acked[t], failed[t], turnedAway[t]>>
  IN  /\ UNION {places[i] : i \in 1..5} = 1..offered[t]
      /\ \A i, j \in 1..5 : i # j => places[i] \cap places[j] = {}

InOrder(t) == \A i, j \in DOMAIN topicLog[t] : i < j => topicLog[t][i] <= topicLog[t][j]
InDoubt(t) == IF sender[t] = "panicked" THEN {writing[t]} ELSE {}
Drained(t) == sender[t] = "ended" => ChannelClosed(t) /\ inbox[t] = <<>> /\ writing[t] = 0

KafkaAccounted ==
  \A t \in Topic :
    LET arrived == {topicLog[t][i] : i \in DOMAIN topicLog[t]}
    IN  OnePlace(t) /\ InOrder(t) /\ Drained(t)
        /\ acked[t] \subseteq arrived
        /\ arrived \subseteq acked[t] \cup failed[t] \cup InDoubt(t)

\* As long as no write of a send loop panics, which nothing recovers: the loops
\* end with Close, whatever is left in the channels; and the instance of a
\* reporter that is not closed and has a check goroutine is registered, the
\* properties first, and then kept alive whenever the broker stays up: no failure
\* nor panic in that goroutine ends it (kafka.go:313-316).
KafkaLoopsLive ==
  /\ []("stray" \notin management)
  /\ closing > 0 ~> (\A t \in Topic : sender[t] = "ended") \/ ~Alive
  /\ <>[](bootFlag /\ checker # "none" /\ closing = 0 /\ broker = "up" /\ Alive)
       => []<><<PingSucceeds>>_kafkaVars
=============================================================================

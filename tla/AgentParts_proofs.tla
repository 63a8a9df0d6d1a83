--------------------------- MODULE AgentParts_proofs ---------------------------
(***************************************************************************)
(* Proofs about the parts of the agent that share no state with each       *)
(* other: the configuration with its samplers, for any watchers, rates and *)
(* default rate; the Kafka reporter, for any topics, channel size and      *)
(* number of messages; and the counters, for any counters and callers.     *)
(***************************************************************************)
EXTENDS DynamicConfig, KafkaReporter, MeterRegistry, FiniteSetTheorems, SequenceTheorems, TLAPS

\* Every sampler is the one of its rate, and has the rate asked for as far as
\* the configuration is handled.
Handled(w, c) == c[w] # Bad => sampler[w].rate = Asked(c[w])

ConfigInv ==
  /\ ConfigTypeOK
  /\ \A w \in Watcher : sampler[w] = SamplerOf(sampler[w].rate)
  /\ uuid # NoConfig /\ fetch # "handling" => \A w \in Watcher : Handled(w, uuid)
  /\ fetch = "handling" =>
       answer \in Config /\ \A w \in Watcher \ left : Handled(w, answer)

LEMMA SamplerType ==
  ASSUME NEW r \in Int
  PROVE  /\ SamplerOf(r) \in [rate : Int, threshold : Int]
         /\ SamplerOf(r).rate = r
<1>1. Threshold(r) \in Int
  <2>1. r \div 10 \in Int /\ (r \div 10) - 1 \in Int
    OBVIOUS
  <2> QED
    BY <2>1 DEF Threshold
<1> QED
  BY <1>1 DEF SamplerOf

LEMMA ShareIsThreshold ==
  ASSUME NEW r, NEW t \in 0..100
  PROVE  Share([rate |-> r, threshold |-> t]) = t
<1>1. {n \in 0..99 : t > n} = 0..(t - 1)
  OBVIOUS
<1>2. Cardinality(0..(t - 1)) = t
  <2>1. 0 \in Int /\ t - 1 \in Int
    OBVIOUS
  <2>2. Cardinality(0..(t - 1)) = IF 0 > t - 1 THEN 0 ELSE (t - 1) - 0 + 1
    BY <2>1, FS_Interval
  <2> QED
    BY <2>2
<1> QED
  BY <1>1, <1>2 DEF Share, IsSampled

\* A sampler takes the share that is right for its rate (sampler.go:58-73,
\* 133-141): none or all at the ends, else at most one in a hundred less.
THEOREM SamplerTakesRate ==
  ASSUME NEW r \in Int
  PROVE  Takes(SamplerOf(r), r)
<1>1. CASE r <= 0
  <2>1. SamplerOf(r) = [rate |-> r, threshold |-> 0]
    BY <1>1 DEF SamplerOf
  <2>2. Share(SamplerOf(r)) = 0
    <3>1. 0 \in 0..100
      OBVIOUS
    <3>2. Share([rate |-> r, threshold |-> 0]) = 0
      BY <3>1, ShareIsThreshold
    <3> QED
      BY <2>1, <3>2
  <2> QED
    BY <1>1, <2>2 DEF Takes
<1>2. CASE r >= 1000
  <2>1. SamplerOf(r) = [rate |-> r, threshold |-> 100] /\ ~(r <= 0)
    BY <1>2 DEF SamplerOf
  <2>2. Share(SamplerOf(r)) = 100
    <3>1. 100 \in 0..100
      OBVIOUS
    <3>2. Share([rate |-> r, threshold |-> 100]) = 100
      BY <3>1, ShareIsThreshold
    <3> QED
      BY <2>1, <3>2
  <2> QED
    BY <1>2, <2>1, <2>2 DEF Takes
<1>3. CASE ~(r <= 0) /\ ~(r >= 1000)
  <2>1. SamplerOf(r) = [rate |-> r, threshold |-> Threshold(r)]
    BY <1>3 DEF SamplerOf
  <2>2. Threshold(r) \in 0..100 /\ r - 10 * Threshold(r) \in 0..10
    <3>1. CASE r \in RoundedDown
      <4>1. PICK i \in 1..99 : r = 10 * i
        BY <3>1, ConfigAssumption
      <4>2. r \div 10 = i
        BY <4>1
      <4>3. Threshold(r) = i - 1
        BY <3>1, <4>2 DEF Threshold
      <4> QED
        BY <4>1, <4>3
    <3>2. CASE r \notin RoundedDown
      <4>1. Threshold(r) = r \div 10
        BY <3>2 DEF Threshold
      <4>2. r \div 10 \in 0..100 /\ r - 10 * (r \div 10) \in 0..10
        BY <1>3
      <4> QED
        BY <4>1, <4>2
    <3> QED
      BY <3>1, <3>2
  <2>3. Share(SamplerOf(r)) = Threshold(r)
    BY <2>1, <2>2, ShareIsThreshold
  <2> QED
    BY <1>3, <2>2, <2>3 DEF Takes
<1> QED
  BY <1>1, <1>2, <1>3

LEMMA ConfigInitially == ConfigInit => ConfigInv
<1> SUFFICES ASSUME ConfigInit PROVE ConfigInv
  OBVIOUS
<1>1. DefaultRate \in Int
  BY ConfigAssumption
<1>2. /\ sampler = [w \in Watcher |-> SamplerOf(DefaultRate)]
      /\ uuid = NoConfig /\ fetch = "none"
  BY DEF ConfigInit
<1>3. /\ sampler \in [Watcher -> [rate : Int, threshold : Int]]
      /\ \A w \in Watcher : sampler[w] = SamplerOf(sampler[w].rate)
  BY <1>1, <1>2, SamplerType
<1>4. ConfigTypeOK
  BY <1>3 DEF ConfigInit, ConfigTypeOK
<1> QED
  BY <1>2, <1>3, <1>4 DEF ConfigInv

LEMMA NotifyKeepsInv == ASSUME ConfigInv, NEW w \in Watcher, NotifyWatcher(w) PROVE ConfigInv'
<1>0. /\ ConfigTypeOK /\ fetch = "handling" /\ answer \in Config /\ w \in left
      /\ \A v \in Watcher : sampler[v] = SamplerOf(sampler[v].rate)
      /\ \A v \in Watcher \ left : Handled(v, answer)
      /\ left' = left \ {w} /\ UNCHANGED <<status, config, uuid, fetch, answer>>
  BY DEF ConfigInv, NotifyWatcher
<1>1. /\ sampler \in [Watcher -> [rate : Int, threshold : Int]]
      /\ sampler[w].rate \in Int
  BY <1>0 DEF ConfigTypeOK
<1>2. answer[w] \in Int \cup {Absent, Bad} /\ Bad \notin Int /\ Absent # Bad /\ DefaultRate \in Int
  BY <1>0, ConfigAssumption DEF Config
<1>3. /\ sampler' \in [Watcher -> [rate : Int, threshold : Int]]
      /\ sampler'[w] = SamplerOf(sampler'[w].rate)
      /\ answer[w] # Bad => sampler'[w].rate = Asked(answer[w])
      /\ \A v \in Watcher : v # w => sampler'[v] = sampler[v]
  <2>1. CASE answer[w] = sampler[w].rate
    <3>1. sampler' = sampler
      BY <2>1 DEF NotifyWatcher
    <3>2. Asked(answer[w]) = answer[w]
      BY <1>1, <2>1, ConfigAssumption DEF Asked
    <3> QED
      BY <1>0, <1>1, <2>1, <3>1, <3>2
  <2>2. CASE answer[w] # sampler[w].rate /\ answer[w] = Bad
    <3>1. sampler' = [sampler EXCEPT ![w] = sampler[w]]
      BY <2>2 DEF NotifyWatcher, Notify
    <3> QED
      BY <1>0, <1>1, <2>2, <3>1
  <2>3. CASE answer[w] # sampler[w].rate /\ answer[w] # Bad
    <3> DEFINE r == Asked(answer[w])
    <3>1. r \in Int
      BY <1>2, <2>3 DEF Asked
    <3>2. sampler' = [sampler EXCEPT ![w] = SamplerOf(r)]
      BY <2>3 DEF NotifyWatcher, Notify, Asked
    <3>3. SamplerOf(r) \in [rate : Int, threshold : Int] /\ SamplerOf(r).rate = r
      BY <3>1, SamplerType
    <3> HIDE DEF r
    <3>4. sampler'[w] = SamplerOf(r)
      BY <1>1, <3>2
    <3>5. sampler'[w] = SamplerOf(sampler'[w].rate) /\ sampler'[w].rate = r
      BY <3>3, <3>4
    <3>6. /\ sampler' \in [Watcher -> [rate : Int, threshold : Int]]
          /\ \A v \in Watcher : v # w => sampler'[v] = sampler[v]
      BY <1>1, <3>2, <3>3
    <3> QED
      BY <3>5, <3>6 DEF r
  <2> QED
    BY <2>1, <2>2, <2>3
<1>4. ConfigTypeOK'
  BY <1>0, <1>3 DEF ConfigTypeOK
<1>5. \A v \in Watcher : sampler'[v] = SamplerOf(sampler'[v].rate)
  BY <1>0, <1>3
<1>6. \A v \in Watcher \ left' : Handled(v, answer)'
  <2> SUFFICES ASSUME NEW v \in Watcher \ left' PROVE Handled(v, answer)'
    OBVIOUS
  <2>1. CASE v = w
    BY <1>0, <1>3, <2>1 DEF Handled, Asked
  <2>2. CASE v # w
    <3>1. v \in Watcher \ left
      BY <1>0, <2>2
    <3> QED
      BY <1>0, <1>3, <2>2, <3>1 DEF Handled, Asked
  <2> QED
    BY <2>1, <2>2
<1> QED
  BY <1>0, <1>4, <1>5, <1>6 DEF ConfigInv

LEMMA ConfigKept == ConfigInv /\ [ConfigNext]_configVars => ConfigInv'
<1> SUFFICES ASSUME ConfigInv, [ConfigNext]_configVars PROVE ConfigInv'
  OBVIOUS
<1>0. ConfigTypeOK
  BY DEF ConfigInv
<1>1. CASE \E w \in Watcher : NotifyWatcher(w)
  BY <1>1, NotifyKeepsInv
<1>2. CASE UpdateUuid
  <2>1. /\ fetch = "handling" /\ left = {} /\ uuid' = answer /\ fetch' = "sleep"
        /\ UNCHANGED <<status, config, answer, left, sampler>>
    BY <1>2 DEF UpdateUuid
  <2>2. \A w \in Watcher : Handled(w, uuid)'
    BY <2>1 DEF ConfigInv, Handled, Asked
  <2>3. ConfigTypeOK'
    BY <1>0, <2>1 DEF ConfigTypeOK
  <2> QED
    BY <2>1, <2>2, <2>3 DEF ConfigInv
<1>3. CASE FetchAnswered /\ config # uuid
  <2>1. /\ fetch = "waiting" /\ fetch' = "handling" /\ answer' = config /\ left' = Watcher
        /\ UNCHANGED <<status, config, uuid, sampler>>
    BY <1>3 DEF FetchAnswered
  <2>2. ConfigTypeOK' /\ config \in Config
    BY <1>0, <2>1 DEF ConfigTypeOK
  <2> QED
    BY <2>1, <2>2 DEF ConfigInv
<1>4. CASE \/ StartFetching \/ Fetch \/ FetchEnds \/ FetchFails
           \/ FetchAnswered /\ config = uuid
           \/ ConfigChanges \/ ConfigLinkChanges \/ UNCHANGED configVars
  <2>1. /\ UNCHANGED <<uuid, answer, left, sampler>>
        /\ \/ fetch' = fetch
           \/ fetch # "handling" /\ fetch' \in {"sleep", "waiting", "ended"}
        /\ status' = status \/ status' \in {"connected", "disconnect", "shutdown"}
        /\ config' = config \/ config' \in Config
    <3>1. CASE StartFetching \/ Fetch \/ FetchEnds \/ FetchFails \/ UNCHANGED configVars
      BY <3>1 DEF StartFetching, Fetch, FetchEnds, FetchFails, configVars
    <3>2. CASE FetchAnswered /\ config = uuid
      BY <3>2 DEF FetchAnswered
    <3>3. CASE ConfigChanges
      BY <3>3 DEF ConfigChanges
    <3>4. CASE ConfigLinkChanges
      BY <3>4 DEF ConfigLinkChanges
    <3> QED
      BY <1>4, <3>1, <3>2, <3>3, <3>4
  <2>2. ConfigTypeOK'
    BY <1>0, <2>1 DEF ConfigTypeOK
  <2>3. \A w \in Watcher : /\ Handled(w, uuid)' <=> Handled(w, uuid)
                           /\ Handled(w, answer)' <=> Handled(w, answer)
    BY <2>1 DEF Handled, Asked
  <2> QED
    BY <2>1, <2>2, <2>3 DEF ConfigInv
<1> QED
  BY <1>1, <1>2, <1>3, <1>4 DEF ConfigNext, FetchStep, HandleStep

LEMMA ConfigSafe == ConfigSpec => []ConfigInv
BY ConfigInitially, ConfigKept, PTL DEF ConfigSpec

\* Type correctness of the fetch loop and the samplers.
THEOREM ConfigTypeCorrect == ConfigSpec => []ConfigTypeOK
<1>1. ConfigInv => ConfigTypeOK
  BY DEF ConfigInv
<1> QED
  BY ConfigSafe, <1>1, PTL

\* The configuration whose UUID the agent answers with is in force, for any
\* watchers and rates (config_discovery.go:46-75, sampler.go:124-146).
THEOREM AppliedWhenAcked == ConfigSpec => []AckedIsApplied
<1>1. ConfigInv => AckedIsApplied
  <2> SUFFICES ASSUME ConfigInv, uuid # NoConfig, fetch # "handling",
                      NEW w \in Watcher, uuid[w] # Bad
               PROVE  Takes(sampler[w], Asked(uuid[w]))
    BY DEF AckedIsApplied
  <2>1. sampler[w] = SamplerOf(sampler[w].rate) /\ sampler[w].rate = Asked(uuid[w])
    BY DEF ConfigInv, Handled
  <2>2. sampler[w].rate \in Int
    BY DEF ConfigInv, ConfigTypeOK
  <2>3. Takes(SamplerOf(sampler[w].rate), sampler[w].rate)
    BY <2>2, SamplerTakesRate
  <2> QED
    BY <2>1, <2>3
<1> QED
  BY ConfigSafe, <1>1, PTL
-----------------------------------------------------------------------------
(* KafkaReporter *)

Queued(t)  == {inbox[t][i] : i \in DOMAIN inbox[t]}
Over(t)    == acked[t] \cup failed[t]
Arrived(t) == {topicLog[t][i] : i \in DOMAIN topicLog[t]}

\* Every message offered is somewhere, and what was turned away, acknowledged
\* or given up is nowhere else.
PlacesInv(t) ==
  /\ Queued(t) \cup Over(t) \cup turnedAway[t] \subseteq 1..offered[t]
  /\ writing[t] \in 0..offered[t]
  /\ 1..offered[t] \subseteq Queued(t) \cup {writing[t]} \cup Over(t) \cup turnedAway[t]
  /\ turnedAway[t] \cap (Queued(t) \cup {writing[t]} \cup Over(t)) = {}
  /\ acked[t] \cap failed[t] = {}

\* The messages go through channel and loop in the order they were offered, so
\* that what is over, what is written and what is queued follow each other.
FlowInv(t) ==
  /\ \A i, j \in DOMAIN inbox[t] : i < j => inbox[t][i] < inbox[t][j]
  /\ \A m \in Over(t), n \in Queued(t) : m < n
  /\ writing[t] # 0 => /\ \A m \in Over(t) : m < writing[t]
                       /\ \A n \in Queued(t) : writing[t] < n
  /\ InOrder(t)

BrokerInv(t) == acked[t] \subseteq Arrived(t) /\ Arrived(t) \subseteq Over(t) \cup InDoubt(t)

TopicInv(t) == PlacesInv(t) /\ FlowInv(t) /\ BrokerInv(t)

KafkaInv == KafkaTypeOK /\ \A t \in Topic : TopicInv(t)

LEMMA KafkaTypes == KafkaInit => KafkaTypeOK
<1>1. Len(ClosingOrder) = 3
  BY DEF ClosingOrder
<1>2. <<>> \in Seq(Nat)
  OBVIOUS
<1>3. ASSUME KafkaInit
      PROVE  /\ inbox \in [Topic -> Seq(Nat)] /\ topicLog \in [Topic -> Seq(Nat)]
             /\ offered \in [Topic -> Nat] /\ writing \in [Topic -> Nat]
             /\ closing \in 0..(Len(ClosingOrder) + 1)
  BY <1>1, <1>2, <1>3 DEF KafkaInit
<1>4. ASSUME KafkaInit
      PROVE  /\ acked \in [Topic -> SUBSET Nat] /\ failed \in [Topic -> SUBSET Nat]
             /\ turnedAway \in [Topic -> SUBSET Nat]
             /\ sender \in [Topic -> {"none", "range", "ended", "panicked"}]
  BY <1>4 DEF KafkaInit
<1> QED
  BY <1>3, <1>4 DEF KafkaInit, KafkaTypeOK

\* What a sequence of numbers holds after Append, ...
LEMMA AppendHolds ==
  ASSUME NEW s \in Seq(Nat), NEW x \in Nat
  PROVE  LET r == Append(s, x) IN
         /\ r \in Seq(Nat)
         /\ {r[i] : i \in DOMAIN r} = {s[i] : i \in DOMAIN s} \cup {x}
         /\ (\A i, j \in DOMAIN s : i < j => s[i] < s[j]) /\ (\A i \in DOMAIN s : s[i] < x)
            => \A i, j \in DOMAIN r : i < j => r[i] < r[j]
<1> DEFINE r == Append(s, x)
<1>1. r \in Seq(Nat) /\ Len(r) = Len(s) + 1 /\ Len(s) \in Nat
      /\ DOMAIN r = 1..Len(r) /\ DOMAIN s = 1..Len(s)
  OBVIOUS
<1>2. r[Len(s) + 1] = x /\ \A i \in 1..Len(s) : r[i] = s[i]
  OBVIOUS
<1> HIDE DEF r
<1>3. {r[i] : i \in DOMAIN r} = {s[i] : i \in DOMAIN s} \cup {x}
  <2>1. \A i \in DOMAIN r : i \in DOMAIN s \/ i = Len(s) + 1
    BY <1>1
  <2>2. \A i \in DOMAIN s : i \in DOMAIN r
    BY <1>1
  <2>3. Len(s) + 1 \in DOMAIN r
    BY <1>1
  <2> QED
    BY <1>1, <1>2, <2>1, <2>2, <2>3
<1>4. ASSUME \A i, j \in DOMAIN s : i < j => s[i] < s[j],
             \A i \in DOMAIN s : s[i] < x,
             NEW i \in DOMAIN r, NEW j \in DOMAIN r, i < j
      PROVE  r[i] < r[j]
  <2>1. i \in DOMAIN s /\ (j \in DOMAIN s \/ j = Len(s) + 1)
    BY <1>1, <1>4
  <2> QED
    BY <1>1, <1>2, <1>4, <2>1
<1> QED
  BY <1>1, <1>3, <1>4 DEF r

\* ... after Tail ...
LEMMA TailHolds ==
  ASSUME NEW s \in Seq(Nat), s # <<>>, \A i, j \in DOMAIN s : i < j => s[i] < s[j]
  PROVE  LET r == Tail(s) IN
         /\ r \in Seq(Nat) /\ Head(s) \in Nat
         /\ {s[i] : i \in DOMAIN s} = {r[i] : i \in DOMAIN r} \cup {Head(s)}
         /\ \A n \in {r[i] : i \in DOMAIN r} : Head(s) < n
         /\ \A i, j \in DOMAIN r : i < j => r[i] < r[j]
<1> DEFINE r == Tail(s)
<1>1. /\ r \in Seq(Nat) /\ Len(r) = Len(s) - 1 /\ Len(s) \in Nat /\ 1 <= Len(s)
      /\ DOMAIN r = 1..Len(r) /\ DOMAIN s = 1..Len(s)
      /\ Head(s) = s[1] /\ s[1] \in Nat
      /\ \A i \in 1..Len(r) : r[i] = s[i + 1]
  BY HeadTailProperties, ElementOfSeq
<1> HIDE DEF r
<1>2. /\ 1 \in DOMAIN s
      /\ \A i \in DOMAIN r : i + 1 \in DOMAIN s /\ i + 1 > 1
      /\ \A i \in DOMAIN s : i = 1 \/ i - 1 \in DOMAIN r
  <2>1. 1 \in DOMAIN s
    BY <1>1
  <2>2. \A i \in DOMAIN r : i + 1 \in DOMAIN s /\ i + 1 > 1
    BY <1>1
  <2>3. \A i \in DOMAIN s : i = 1 \/ i - 1 \in DOMAIN r
    BY <1>1
  <2> QED
    BY <2>1, <2>2, <2>3
<1>3. {s[i] : i \in DOMAIN s} = {r[i] : i \in DOMAIN r} \cup {Head(s)}
  <2>1. ASSUME NEW i \in DOMAIN s PROVE s[i] = Head(s) \/ \E j \in DOMAIN r : s[i] = r[j]
    <3>1. CASE i # 1
      <4>1. i - 1 \in DOMAIN r /\ i = (i - 1) + 1
        BY <1>1, <1>2, <3>1
      <4>2. r[i - 1] = s[i]
        BY <1>1, <4>1
      <4> QED
        BY <4>1, <4>2
    <3> QED
      BY <1>1, <3>1
  <2>2. ASSUME NEW j \in DOMAIN r PROVE \E i \in DOMAIN s : s[i] = r[j]
    BY <1>1, <1>2
  <2>3. \E i \in DOMAIN s : s[i] = Head(s)
    BY <1>1, <1>2
  <2> QED
    BY <2>1, <2>2, <2>3
<1>4. ASSUME NEW i \in DOMAIN r, NEW j \in DOMAIN r, i < j PROVE r[i] < r[j]
  <2>1. i + 1 \in DOMAIN s /\ j + 1 \in DOMAIN s /\ i + 1 < j + 1
    BY <1>1, <1>2, <1>4
  <2>2. s[i + 1] < s[j + 1]
    BY <2>1
  <2> QED
    BY <1>1, <2>2
<1>5. \A i \in DOMAIN r : Head(s) < r[i]
  BY <1>1, <1>2
<1> QED
  BY <1>1, <1>3, <1>4, <1>5 DEF r

\* ... and after some copies of a number that is not smaller.
LEMMA CopiesHold ==
  ASSUME NEW s \in Seq(Nat), NEW x \in Nat, NEW n \in Nat
  PROVE  LET r == s \o [i \in 1..n |-> x] IN
         /\ r \in Seq(Nat)
         /\ {r[i] : i \in DOMAIN r} = {s[i] : i \in DOMAIN s} \cup (IF n = 0 THEN {} ELSE {x})
         /\ (\A i, j \in DOMAIN s : i < j => s[i] <= s[j]) /\ (\A i \in DOMAIN s : s[i] <= x)
            => \A i, j \in DOMAIN r : i < j => r[i] <= r[j]
<1> DEFINE c == [i \in 1..n |-> x]
           r == s \o c
<1>1. c \in Seq(Nat) /\ Len(c) = n /\ \A i \in 1..n : c[i] = x
  OBVIOUS
<1> HIDE DEF c
<1>2. /\ r \in Seq(Nat) /\ Len(r) = Len(s) + n /\ Len(s) \in Nat
      /\ DOMAIN r = 1..Len(r) /\ DOMAIN s = 1..Len(s)
      /\ \A i \in 1..Len(r) : r[i] = IF i <= Len(s) THEN s[i] ELSE c[i - Len(s)]
  <2>1. /\ r \in Seq(Nat) /\ Len(r) = Len(s) + Len(c)
        /\ \A i \in 1..(Len(s) + Len(c)) : r[i] = IF i <= Len(s) THEN s[i] ELSE c[i - Len(s)]
    BY <1>1, ConcatProperties
  <2> HIDE DEF r
  <2> QED
    BY <1>1, <2>1, LenProperties
<1> HIDE DEF r
<1>3. \A i \in DOMAIN r : (i \in DOMAIN s /\ r[i] = s[i]) \/ (i > Len(s) /\ n # 0 /\ r[i] = x)
  <2> SUFFICES ASSUME NEW i \in DOMAIN r, i > Len(s) PROVE n # 0 /\ r[i] = x
    BY <1>2
  <2>1. i - Len(s) \in 1..n
    BY <1>2
  <2> QED
    BY <1>1, <1>2, <2>1
<1>4. \A i \in DOMAIN s : i \in DOMAIN r /\ r[i] = s[i]
  BY <1>2
<1>5. n # 0 => Len(r) \in DOMAIN r /\ Len(r) > Len(s)
  BY <1>2
<1>6. {r[i] : i \in DOMAIN r} = {s[i] : i \in DOMAIN s} \cup (IF n = 0 THEN {} ELSE {x})
  BY <1>2, <1>3, <1>4, <1>5
<1>7. ASSUME \A i, j \in DOMAIN s : i < j => s[i] <= s[j],
             \A i \in DOMAIN s : s[i] <= x,
             NEW i \in DOMAIN r, NEW j \in DOMAIN r, i < j
      PROVE  r[i] <= r[j]
  <2>1. i > Len(s) => r[i] = x /\ r[j] = x
    BY <1>2, <1>3, <1>7
  <2> QED
    BY <1>2, <1>3, <1>7, <2>1
<1> QED
  BY <1>2, <1>6, <1>7 DEF r, c

\* A step that leaves the data of a topic alone leaves its invariant alone.
LEMMA SameTopic ==
  ASSUME NEW t \in Topic, TopicInv(t),
         offered'[t] = offered[t], inbox'[t] = inbox[t], writing'[t] = writing[t],
         topicLog'[t] = topicLog[t], acked'[t] = acked[t], failed'[t] = failed[t],
         turnedAway'[t] = turnedAway[t], InDoubt(t)' = InDoubt(t)
  PROVE  TopicInv(t)'
BY DEF TopicInv, PlacesInv, FlowInv, BrokerInv, InOrder, Queued, Over, Arrived

\* As long as no loop panicked no message is in doubt.
LEMMA NoneInDoubt ==
  ASSUME Alive
  PROVE  /\ \A t \in Topic : InDoubt(t) = {}
         /\ UNCHANGED sender => \A t \in Topic : InDoubt(t)' = InDoubt(t)
BY DEF Alive, InDoubt

\* The types of what belongs to one topic.
LEMMA KafkaTopicTypes ==
  ASSUME KafkaTypeOK, NEW t \in Topic
  PROVE  /\ offered[t] \in Nat /\ writing[t] \in Nat
         /\ inbox[t] \in Seq(Nat) /\ topicLog[t] \in Seq(Nat)
         /\ acked[t] \subseteq Nat /\ failed[t] \subseteq Nat /\ turnedAway[t] \subseteq Nat
         /\ Queued(t) \subseteq Nat /\ Over(t) \subseteq Nat
<1>1. inbox[t] \in Seq(Nat) /\ acked[t] \subseteq Nat /\ failed[t] \subseteq Nat
  BY DEF KafkaTypeOK
<1>2. Queued(t) \subseteq Nat
  BY <1>1 DEF Queued
<1> QED
  BY <1>1, <1>2 DEF KafkaTypeOK, Over

\* A message that is offered is the last of its topic: it goes to the end of the
\* channel, or nowhere.
LEMMA OfferKeeps ==
  ASSUME KafkaInv, Alive, NEW t \in Topic, Offer(t)
  PROVE  KafkaInv'
<1> DEFINE x == offered[t] + 1
<1>0. /\ UNCHANGED <<bootFlag, closing, broker, writing, sender, topicLog, acked, failed,
                     checker, submitted, management>>
      /\ offered' = [offered EXCEPT ![t] = x]
  BY DEF Offer, checkVars
<1>d. \A u \in Topic : InDoubt(u)' = InDoubt(u)
  BY <1>0, NoneInDoubt
<1>1. KafkaTypeOK /\ TopicInv(t)
  BY DEF KafkaInv
<1>2. x \in Nat /\ offered'[t] = x /\ x > offered[t] /\ offered[t] \in Nat
  BY <1>0, <1>1 DEF KafkaTypeOK
<1> HIDE DEF x
<1>3. /\ Queued(t) \cup Over(t) \cup turnedAway[t] \subseteq 1..offered[t]
      /\ writing[t] \in 0..offered[t]
  BY <1>1 DEF TopicInv, PlacesInv
<1>4. \A n \in Queued(t) \cup Over(t) \cup turnedAway[t] \cup {writing[t]} : n < x
  BY <1>2, <1>3
<1>5. 1..x = 1..offered[t] \cup {x}
  BY <1>0, <1>2 DEF x
<1>6. CASE inbox' = [inbox EXCEPT ![t] = Append(@, offered'[t])] /\ UNCHANGED turnedAway
  <2>1. inbox[t] \in Seq(Nat) /\ inbox'[t] = Append(inbox[t], x)
    BY <1>1, <1>2, <1>6 DEF KafkaTypeOK
  <2>2. \A i \in DOMAIN inbox[t] : inbox[t][i] < x
    BY <1>4 DEF Queued
  <2>3. \A i, j \in DOMAIN inbox[t] : i < j => inbox[t][i] < inbox[t][j]
    BY <1>1 DEF TopicInv, FlowInv
  <2>4. /\ inbox'[t] \in Seq(Nat) /\ Queued(t)' = Queued(t) \cup {x}
        /\ \A i, j \in DOMAIN inbox'[t] : i < j => inbox'[t][i] < inbox'[t][j]
    <3> DEFINE c == inbox[t]
               d == Append(c, x)
    <3>1. c \in Seq(Nat) /\ x \in Nat /\ (\A i \in DOMAIN c : c[i] < x)
          /\ \A i, j \in DOMAIN c : i < j => c[i] < c[j]
      BY <1>2, <2>1, <2>2, <2>3
    <3>2. Queued(t) = {c[i] : i \in DOMAIN c} /\ Queued(t)' = {d[i] : i \in DOMAIN d}
      BY <2>1 DEF Queued
    <3>3. inbox'[t] = d
      BY <2>1
    <3> HIDE DEF c
    <3>4. /\ d \in Seq(Nat) /\ {d[i] : i \in DOMAIN d} = {c[i] : i \in DOMAIN c} \cup {x}
          /\ \A i, j \in DOMAIN d : i < j => d[i] < d[j]
      BY <3>1, AppendHolds
    <3> HIDE DEF d
    <3> QED
      BY <3>2, <3>3, <3>4
  <2>5. KafkaTypeOK'
    BY <1>0, <1>1, <1>2, <1>6, <2>1, <2>4 DEF KafkaTypeOK
  <2>6. PlacesInv(t)'
    BY <1>0, <1>1, <1>2, <1>4, <1>5, <1>6, <2>4 DEF TopicInv, PlacesInv, Over
  <2>7. FlowInv(t)'
    BY <1>0, <1>1, <1>4, <2>4 DEF TopicInv, FlowInv, InOrder, Over
  <2>8. BrokerInv(t)'
    BY <1>0, <1>d, <1>1 DEF TopicInv, BrokerInv, Over, Arrived
  <2>9. ASSUME NEW u \in Topic, u # t PROVE TopicInv(u)'
    BY <1>0, <1>d, <1>1, <1>6, <2>9, SameTopic DEF KafkaInv, KafkaTypeOK
  <2> QED
    BY <2>5, <2>6, <2>7, <2>8, <2>9 DEF KafkaInv, TopicInv
<1>7. CASE turnedAway' = [turnedAway EXCEPT ![t] = @ \cup {offered'[t]}] /\ UNCHANGED inbox
  <2>1. turnedAway'[t] = turnedAway[t] \cup {x} /\ turnedAway' \in [Topic -> SUBSET Nat]
    BY <1>1, <1>2, <1>7 DEF KafkaTypeOK
  <2>2. KafkaTypeOK'
    BY <1>0, <1>1, <1>2, <1>7, <2>1 DEF KafkaTypeOK
  <2>3. PlacesInv(t)'
    BY <1>0, <1>1, <1>2, <1>4, <1>5, <1>7, <2>1 DEF TopicInv, PlacesInv, Over, Queued
  <2>4. FlowInv(t)' /\ BrokerInv(t)'
    BY <1>0, <1>d, <1>1, <1>7 DEF TopicInv, FlowInv, BrokerInv, InOrder, Over, Queued, Arrived
  <2>5. ASSUME NEW u \in Topic, u # t PROVE TopicInv(u)'
    BY <1>0, <1>d, <1>1, <1>7, <2>5, SameTopic DEF KafkaInv, KafkaTypeOK
  <2> QED
    BY <2>2, <2>3, <2>4, <2>5 DEF KafkaInv, TopicInv
<1> QED
  BY <1>6, <1>7 DEF Offer

\* A message that is received comes before all that is queued.
LEMMA ReceiveKeeps ==
  ASSUME KafkaInv, Alive, NEW t \in Topic, Receive(t)
  PROVE  KafkaInv'
<1> DEFINE x == Head(inbox[t])
<1>0. /\ UNCHANGED <<bootFlag, closing, broker, offered, sender, topicLog, acked, failed,
                     turnedAway, checker, submitted, management>>
      /\ writing[t] = 0 /\ inbox[t] # <<>>
      /\ writing' = [writing EXCEPT ![t] = x] /\ inbox' = [inbox EXCEPT ![t] = Tail(@)]
  BY DEF Receive, checkVars
<1>d. \A u \in Topic : InDoubt(u)' = InDoubt(u)
  BY <1>0, NoneInDoubt
<1>1. KafkaTypeOK /\ TopicInv(t) /\ inbox[t] \in Seq(Nat)
  BY DEF KafkaInv, KafkaTypeOK
<1>2. inbox'[t] = Tail(inbox[t]) /\ writing'[t] = x
  BY <1>0, <1>1 DEF KafkaTypeOK
<1>3. \A i, j \in DOMAIN inbox[t] : i < j => inbox[t][i] < inbox[t][j]
  BY <1>1 DEF TopicInv, FlowInv
<1>4. /\ inbox'[t] \in Seq(Nat) /\ x \in Nat
      /\ Queued(t) = Queued(t)' \cup {x}
      /\ \A n \in Queued(t)' : x < n
      /\ \A i, j \in DOMAIN inbox'[t] : i < j => inbox'[t][i] < inbox'[t][j]
  <2> DEFINE c == inbox[t]
             d == Tail(c)
  <2>1. c \in Seq(Nat) /\ c # <<>> /\ \A i, j \in DOMAIN c : i < j => c[i] < c[j]
    BY <1>0, <1>1, <1>3
  <2>2. Queued(t) = {c[i] : i \in DOMAIN c} /\ Queued(t)' = {d[i] : i \in DOMAIN d}
    BY <1>2 DEF Queued
  <2>3. inbox'[t] = d /\ x = Head(c)
    BY <1>2
  <2> HIDE DEF c, x
  <2>4. /\ d \in Seq(Nat) /\ Head(c) \in Nat
        /\ {c[i] : i \in DOMAIN c} = {d[i] : i \in DOMAIN d} \cup {Head(c)}
        /\ \A n \in {d[i] : i \in DOMAIN d} : Head(c) < n
        /\ \A i, j \in DOMAIN d : i < j => d[i] < d[j]
    BY <2>1, TailHolds
  <2> HIDE DEF d
  <2> QED
    BY <2>2, <2>3, <2>4
<1> HIDE DEF x
<1>5. /\ Queued(t) \subseteq 1..offered[t] /\ offered[t] \in Nat
      /\ \A m \in Over(t) : m < x
  BY <1>1, <1>4 DEF TopicInv, PlacesInv, FlowInv, KafkaTypeOK
<1>6. x \in 1..offered[t] /\ x \notin turnedAway[t]
  BY <1>1, <1>4, <1>5 DEF TopicInv, PlacesInv
<1>7. KafkaTypeOK'
  BY <1>0, <1>1, <1>2, <1>4 DEF KafkaTypeOK
<1>8. PlacesInv(t)'
  <2>1. 0 \notin 1..offered[t]
    BY <1>5
  <2> QED
    BY <1>0, <1>1, <1>2, <1>4, <1>5, <1>6, <2>1 DEF TopicInv, PlacesInv, Over
<1>9. FlowInv(t)'
  BY <1>0, <1>1, <1>2, <1>4, <1>5 DEF TopicInv, FlowInv, InOrder, Over
<1>10. BrokerInv(t)'
  BY <1>0, <1>d, <1>1 DEF TopicInv, BrokerInv, Over, Arrived
<1>11. ASSUME NEW u \in Topic, u # t PROVE TopicInv(u)'
  BY <1>0, <1>d, <1>1, <1>11, SameTopic DEF KafkaInv, KafkaTypeOK
<1> QED
  BY <1>7, <1>8, <1>9, <1>10, <1>11 DEF KafkaInv, TopicInv

\* What arrives at the broker comes last there.
LEMMA Arrival ==
  ASSUME KafkaInv, Alive, NEW t \in Topic, NEW n \in 0..2, writing[t] # 0, Arrives(t, n)
  PROVE  /\ topicLog' \in [Topic -> Seq(Nat)]
         /\ \A u \in Topic : u # t => topicLog'[u] = topicLog[u]
         /\ Arrived(t)' = Arrived(t) \cup (IF n = 0 THEN {} ELSE {writing[t]})
         /\ InOrder(t)'
         /\ writing[t] \notin Over(t)
<1> DEFINE x == writing[t]
<1>1. KafkaTypeOK /\ TopicInv(t) /\ topicLog \in [Topic -> Seq(Nat)] /\ x \in Nat /\ n \in Nat
  BY DEF KafkaInv, KafkaTypeOK
<1>2. topicLog' = [topicLog EXCEPT ![t] = topicLog[t] \o [i \in 1..n |-> x]]
  BY DEF Arrives
<1>3. topicLog'[t] = topicLog[t] \o [i \in 1..n |-> x]
  BY <1>1, <1>2
<1>4. Arrived(t) \subseteq Over(t) /\ (\A m \in Over(t) : m < x)
  BY <1>1, NoneInDoubt DEF TopicInv, FlowInv, BrokerInv
<1> HIDE DEF x
<1>5. x \notin Over(t) /\ Over(t) \subseteq Nat
  BY <1>1, <1>4, KafkaTopicTypes
<1>6. \A i \in DOMAIN topicLog[t] : topicLog[t][i] <= x
  <2>1. \A m \in Arrived(t) : m \in Nat /\ m < x
    BY <1>4, <1>5
  <2>2. \A i \in DOMAIN topicLog[t] : topicLog[t][i] \in Arrived(t)
    BY DEF Arrived
  <2> QED
    BY <1>1, <2>1, <2>2
<1>7. /\ topicLog'[t] \in Seq(Nat)
      /\ Arrived(t)' = Arrived(t) \cup (IF n = 0 THEN {} ELSE {x})
      /\ InOrder(t)'
  <2> DEFINE c == topicLog[t]
             d == c \o [i \in 1..n |-> x]
  <2>1. c \in Seq(Nat) /\ (\A i \in DOMAIN c : c[i] <= x)
        /\ \A i, j \in DOMAIN c : i < j => c[i] <= c[j]
    BY <1>1, <1>6 DEF TopicInv, FlowInv, InOrder
  <2>2. Arrived(t) = {c[i] : i \in DOMAIN c} /\ Arrived(t)' = {d[i] : i \in DOMAIN d}
    BY <1>3 DEF Arrived
  <2>3. topicLog'[t] = d
    BY <1>3
  <2> HIDE DEF c
  <2>4. /\ d \in Seq(Nat)
        /\ {d[i] : i \in DOMAIN d} = {c[i] : i \in DOMAIN c} \cup (IF n = 0 THEN {} ELSE {x})
        /\ \A i, j \in DOMAIN d : i < j => d[i] <= d[j]
    <3>1. x \in Nat /\ n \in Nat /\ c \in Seq(Nat)
      BY <1>1, <2>1
    <3>2. /\ d \in Seq(Nat)
          /\ {d[i] : i \in DOMAIN d} = {c[i] : i \in DOMAIN c} \cup (IF n = 0 THEN {} ELSE {x})
          /\ (\A i, j \in DOMAIN c : i < j => c[i] <= c[j]) /\ (\A i \in DOMAIN c : c[i] <= x)
             => \A i, j \in DOMAIN d : i < j => d[i] <= d[j]
      BY ONLY <3>1, CopiesHold
    <3> QED
      BY <2>1, <3>2
  <2> HIDE DEF d
  <2> QED
    BY <2>2, <2>3, <2>4 DEF InOrder
<1> QED
  BY <1>1, <1>2, <1>3, <1>5, <1>7 DEF x

\* A message that is over, one way or the other, is the greatest that is.
LEMMA WriteKeeps ==
  ASSUME KafkaInv, Alive, NEW t \in Topic, WriteSucceeds(t) \/ WriteFails(t)
  PROVE  KafkaInv'
<1> DEFINE x == writing[t]
<1>0. /\ UNCHANGED <<bootFlag, closing, broker, offered, inbox, sender, turnedAway,
                     checker, submitted, management>>
      /\ x # 0 /\ writing' = [writing EXCEPT ![t] = 0]
  BY DEF WriteSucceeds, WriteFails, checkVars
<1>1. KafkaTypeOK /\ TopicInv(t) /\ x \in Nat /\ offered[t] \in Nat
  BY DEF KafkaInv, KafkaTypeOK
<1>2. PICK n \in 0..2 : Arrives(t, n)
                        /\ ((WriteSucceeds(t) /\ n # 0) \/ WriteFails(t))
  BY DEF WriteSucceeds, WriteFails
<1>3. \/ n # 0 /\ acked' = [acked EXCEPT ![t] = @ \cup {x}] /\ failed' = failed
      \/ failed' = [failed EXCEPT ![t] = @ \cup {x}] /\ acked' = acked
  BY <1>2 DEF WriteSucceeds, WriteFails
<1>4. /\ acked' \in [Topic -> SUBSET Nat] /\ failed' \in [Topic -> SUBSET Nat]
      /\ \/ n # 0 /\ acked'[t] = acked[t] \cup {x} /\ failed'[t] = failed[t]
         \/ acked'[t] = acked[t] /\ failed'[t] = failed[t] \cup {x}
      /\ \A u \in Topic : u # t => acked'[u] = acked[u] /\ failed'[u] = failed[u]
  <2>1. acked \in [Topic -> SUBSET Nat] /\ failed \in [Topic -> SUBSET Nat]
    BY <1>1 DEF KafkaTypeOK
  <2> HIDE DEF x
  <2>2. acked[t] \cup {x} \in SUBSET Nat /\ failed[t] \cup {x} \in SUBSET Nat
    BY <1>1, <2>1
  <2> QED
    BY <1>3, <2>1, <2>2
<1>5. writing'[t] = 0 /\ writing' \in [Topic -> Nat]
      /\ \A u \in Topic : u # t => writing'[u] = writing[u]
  BY <1>0, <1>1 DEF KafkaTypeOK
<1>6. /\ topicLog' \in [Topic -> Seq(Nat)]
      /\ \A u \in Topic : u # t => topicLog'[u] = topicLog[u]
      /\ Arrived(t)' = Arrived(t) \cup (IF n = 0 THEN {} ELSE {x})
      /\ InOrder(t)'
      /\ x \notin Over(t)
  BY <1>0, <1>2, Arrival
<1>7. \A u \in Topic : InDoubt(u) = {} /\ InDoubt(u)' = {}
  BY <1>0, NoneInDoubt
<1> HIDE DEF x
<1>8. Over(t)' = Over(t) \cup {x}
  BY <1>4 DEF Over
<1>9. KafkaTypeOK'
  BY <1>0, <1>1, <1>4, <1>5, <1>6 DEF KafkaTypeOK
<1>10. PlacesInv(t)'
  <2>1. Queued(t)' = Queued(t) /\ x \notin turnedAway[t] /\ 0 \notin 1..offered[t]
    BY <1>0, <1>1 DEF TopicInv, PlacesInv, Queued, x
  <2>2. x \in 1..offered[t]
    BY <1>0, <1>1 DEF TopicInv, PlacesInv, x
  <2>3. acked'[t] \cap failed'[t] = {}
    BY <1>1, <1>4, <1>6 DEF TopicInv, PlacesInv, Over
  <2>4. 1..offered[t] \subseteq Queued(t) \cup {x} \cup Over(t) \cup turnedAway[t]
    BY <1>1 DEF TopicInv, PlacesInv, x
  <2> QED
    BY <1>0, <1>1, <1>5, <1>8, <2>1, <2>2, <2>3, <2>4 DEF TopicInv, PlacesInv
<1>11. FlowInv(t)'
  <2>1. Queued(t)' = Queued(t)
    BY <1>0 DEF Queued
  <2>2. \A k \in Queued(t) : x < k
    BY <1>0, <1>1 DEF TopicInv, FlowInv, x
  <2>3. \A m \in Over(t)', k \in Queued(t)' : m < k
    BY <1>1, <1>8, <2>1, <2>2 DEF TopicInv, FlowInv
  <2> QED
    BY <1>0, <1>1, <1>5, <1>6, <2>3 DEF TopicInv, FlowInv
<1>12. BrokerInv(t)'
  BY <1>1, <1>4, <1>6, <1>7, <1>8 DEF TopicInv, BrokerInv
<1>13. ASSUME NEW u \in Topic, u # t PROVE TopicInv(u)'
  BY <1>0, <1>4, <1>5, <1>6, <1>7, <1>13, SameTopic DEF KafkaInv
<1> QED
  BY <1>9, <1>10, <1>11, <1>12, <1>13 DEF KafkaInv, TopicInv

\* The message of a write that panics stays where it is, and is in doubt.
LEMMA PanicKeeps ==
  ASSUME KafkaInv, Alive, NEW t \in Topic, WritePanics(t)
  PROVE  KafkaInv'
<1>0. /\ UNCHANGED <<bootFlag, closing, broker, offered, inbox, writing, acked, failed, turnedAway,
                     checker, submitted, management>>
      /\ writing[t] # 0 /\ sender' = [sender EXCEPT ![t] = "panicked"]
  BY DEF WritePanics, checkVars
<1>1. KafkaTypeOK /\ TopicInv(t)
  BY DEF KafkaInv
<1>2. PICK n \in 0..2 : Arrives(t, n)
  BY DEF WritePanics
<1>3. /\ topicLog' \in [Topic -> Seq(Nat)]
      /\ \A u \in Topic : u # t => topicLog'[u] = topicLog[u]
      /\ Arrived(t)' = Arrived(t) \cup (IF n = 0 THEN {} ELSE {writing[t]})
      /\ InOrder(t)'
  BY <1>0, <1>2, Arrival
<1>4. /\ sender' \in [Topic -> {"none", "range", "ended", "panicked"}]
      /\ InDoubt(t)' = {writing[t]} /\ InDoubt(t) = {}
      /\ \A u \in Topic : u # t => InDoubt(u)' = InDoubt(u)
  BY <1>0, <1>1, NoneInDoubt DEF KafkaTypeOK, InDoubt
<1>5. KafkaTypeOK'
  BY <1>0, <1>1, <1>3, <1>4 DEF KafkaTypeOK
<1>6. PlacesInv(t)' /\ FlowInv(t)'
  BY <1>0, <1>1, <1>3 DEF TopicInv, PlacesInv, FlowInv, Queued, Over
<1>7. BrokerInv(t)'
  BY <1>0, <1>1, <1>3, <1>4 DEF TopicInv, BrokerInv, Over
<1>8. ASSUME NEW u \in Topic, u # t PROVE TopicInv(u)'
  BY <1>0, <1>3, <1>4, <1>8, SameTopic DEF KafkaInv
<1> QED
  BY <1>5, <1>6, <1>7, <1>8 DEF KafkaInv, TopicInv

\* Everything else leaves the messages alone.
LEMMA RestKeeps ==
  ASSUME KafkaInv,
         \/ Alive /\ (KafkaBoot \/ CloseStep \/ CheckLoop \/ \E t \in Topic : SenderEnds(t))
         \/ BrokerChanges \/ UNCHANGED kafkaVars
  PROVE  KafkaInv'
<1>1. UNCHANGED <<offered, inbox, writing, topicLog, acked, failed, turnedAway>>
  BY DEF KafkaBoot, CloseStep, CheckLoop, CheckBegins, PropertiesSucceed, PropertiesFail,
         PingSucceeds, PingFails, PingPanics, CheckUnchanged, BrokerChanges, SenderEnds,
         kafkaVars, sendVars, checkVars
<1>2. KafkaTypeOK
  BY DEF KafkaInv
<1>3. sender' \in [Topic -> {"none", "range", "ended", "panicked"}]
  <2>1. ASSUME NEW t \in Topic, SenderEnds(t)
        PROVE  sender' \in [Topic -> {"none", "range", "ended", "panicked"}]
    BY <1>2, <2>1 DEF KafkaTypeOK, SenderEnds
  <2> QED
    BY <1>2, <2>1 DEF KafkaTypeOK, KafkaBoot, CloseStep, CheckLoop, CheckBegins,
         PropertiesSucceed, PropertiesFail, PingSucceeds, PingFails, PingPanics, CheckUnchanged,
         BrokerChanges, kafkaVars, sendVars
<1>4. closing' \in 0..(Len(ClosingOrder) + 1)
  <2>1. Len(ClosingOrder) = 3
    BY DEF ClosingOrder
  <2>2. closing' = closing \/ (closing <= Len(ClosingOrder) /\ closing' = closing + 1)
    BY DEF KafkaBoot, CloseStep, CheckLoop, CheckBegins, PropertiesSucceed, PropertiesFail,
         PingSucceeds, PingFails, PingPanics, CheckUnchanged, BrokerChanges, SenderEnds, kafkaVars
  <2> QED
    BY <1>2, <2>1, <2>2 DEF KafkaTypeOK
<1>5. /\ bootFlag' \in BOOLEAN /\ submitted' \in BOOLEAN /\ broker' \in {"up", "down"}
      /\ checker' \in {"none", "sleep", "properties", "ping"}
      /\ management' \subseteq {"properties", "ping", "stray"}
  BY <1>2 DEF KafkaTypeOK, KafkaBoot, CloseStep, CheckLoop, CheckBegins, PropertiesSucceed,
         PropertiesFail, PingSucceeds, PingFails, PingPanics, CheckUnchanged, BrokerChanges,
         SenderEnds, kafkaVars, sendVars, checkVars
<1>6. KafkaTypeOK'
  BY <1>1, <1>2, <1>3, <1>4, <1>5 DEF KafkaTypeOK
<1>7. \A t \in Topic : InDoubt(t)' = InDoubt(t)
  <2>1. ASSUME NEW t \in Topic, Alive, SenderEnds(t)
        PROVE  \A u \in Topic : InDoubt(u)' = InDoubt(u)
    BY <1>2, <2>1 DEF SenderEnds, InDoubt, Alive, KafkaTypeOK
  <2>2. CASE Alive /\ KafkaBoot
    BY <2>2 DEF KafkaBoot, InDoubt, Alive
  <2>3. CASE (Alive /\ (CloseStep \/ CheckLoop)) \/ BrokerChanges \/ UNCHANGED kafkaVars
    BY <2>3 DEF CloseStep, CheckLoop, CheckBegins, PropertiesSucceed, PropertiesFail, PingSucceeds,
         PingFails, PingPanics, CheckUnchanged, BrokerChanges, InDoubt, kafkaVars, sendVars
  <2> QED
    BY <2>1, <2>2, <2>3
<1>8. \A t \in Topic : TopicInv(t)'
  BY <1>1, <1>7, SameTopic DEF KafkaInv
<1> QED
  BY <1>6, <1>8 DEF KafkaInv

\* Every reachable state has the invariant.
LEMMA KafkaSafe == KafkaSpec => []KafkaInv
<1>1. KafkaInit => KafkaInv
  <2> SUFFICES ASSUME KafkaInit PROVE KafkaInv
    OBVIOUS
  <2>1. ASSUME NEW t \in Topic PROVE TopicInv(t)
    <3>1. /\ offered[t] = 0 /\ writing[t] = 0 /\ inbox[t] = <<>> /\ topicLog[t] = <<>>
          /\ acked[t] = {} /\ failed[t] = {} /\ turnedAway[t] = {}
      BY DEF KafkaInit
    <3>2. Queued(t) = {} /\ Over(t) = {} /\ Arrived(t) = {}
      BY <3>1 DEF Queued, Over, Arrived
    <3> QED
      BY <3>1, <3>2 DEF TopicInv, PlacesInv, FlowInv, BrokerInv, InOrder
  <2> QED
    BY <2>1, KafkaTypes DEF KafkaInv
<1>2. KafkaInv /\ [KafkaNext]_kafkaVars => KafkaInv'
  BY OfferKeeps, ReceiveKeeps, WriteKeeps, PanicKeeps, RestKeeps DEF KafkaNext, SendLoop
<1> QED
  BY <1>1, <1>2, PTL DEF KafkaSpec

\* A loop that ended is done with its channel for good.
LEMMA LoopsEndDrained == KafkaSpec => [](\A t \in Topic : Drained(t))
<1> DEFINE Inv == \A t \in Topic : Drained(t)
<1>1. KafkaInit => Inv
  BY DEF KafkaInit, Drained
<1>2. KafkaInv /\ Inv /\ [KafkaNext]_kafkaVars => Inv'
  <2> SUFFICES ASSUME KafkaTypeOK, Inv, [KafkaNext]_kafkaVars, NEW u \in Topic PROVE Drained(u)'
    BY DEF KafkaInv
  <2>1. ASSUME NEW t \in Topic, Offer(t) PROVE Drained(u)'
    <3>1. sender' = sender /\ writing' = writing /\ closing' = closing
      BY <2>1 DEF Offer
    <3>2. ChannelClosed(u) => inbox'[u] = inbox[u]
      BY <2>1 DEF Offer, KafkaTypeOK
    <3> QED
      BY <3>1, <3>2 DEF Drained, ChannelClosed
  <2>2. ASSUME NEW t \in Topic, Receive(t) PROVE Drained(u)'
    <3>1. /\ sender' = sender /\ closing' = closing /\ sender[t] = "range"
          /\ u # t => inbox'[u] = inbox[u] /\ writing'[u] = writing[u]
      BY <2>2 DEF Receive, KafkaTypeOK
    <3> QED
      BY <3>1 DEF Drained, ChannelClosed
  <2>3. ASSUME NEW t \in Topic, WriteSucceeds(t) \/ WriteFails(t) PROVE Drained(u)'
    <3>1. /\ sender' = sender /\ closing' = closing /\ inbox' = inbox
          /\ writing'[u] \in {0, writing[u]}
      BY <2>3 DEF WriteSucceeds, WriteFails, KafkaTypeOK
    <3> QED
      BY <3>1 DEF Drained, ChannelClosed
  <2>4. ASSUME NEW t \in Topic, WritePanics(t) \/ SenderEnds(t) PROVE Drained(u)'
    <3>1. /\ closing' = closing /\ inbox' = inbox /\ writing' = writing
          /\ u # t => sender'[u] = sender[u]
          /\ sender'[t] = "panicked"
             \/ (writing[t] = 0 /\ inbox[t] = <<>> /\ ChannelClosed(t))
      BY <2>4 DEF WritePanics, SenderEnds, KafkaTypeOK
    <3> QED
      BY <3>1 DEF Drained, ChannelClosed
  <2>5. CASE CloseStep
    <3>1. /\ sender' = sender /\ inbox' = inbox /\ writing' = writing
          /\ closing' = closing + 1 /\ closing \in Nat
      BY <2>5 DEF CloseStep, KafkaTypeOK, sendVars, ClosingOrder
    <3>2. ChannelClosed(u) => ChannelClosed(u)'
      BY <3>1 DEF ChannelClosed
    <3> QED
      BY <3>1, <3>2 DEF Drained
  <2>6. CASE KafkaBoot
    BY <2>6 DEF KafkaBoot, Drained
  <2>7. CASE CheckLoop \/ BrokerChanges \/ UNCHANGED kafkaVars
    <3>1. UNCHANGED <<sender, inbox, writing, closing>>
      BY <2>7 DEF CheckLoop, CheckBegins, PropertiesSucceed, PropertiesFail, PingSucceeds,
           PingFails, PingPanics, CheckUnchanged, BrokerChanges, kafkaVars, sendVars
    <3> QED
      BY <3>1 DEF Drained, ChannelClosed
  <2> QED
    BY <2>1, <2>2, <2>3, <2>4, <2>5, <2>6, <2>7 DEF KafkaNext, SendLoop
<1> QED
  BY <1>1, <1>2, KafkaSafe, PTL DEF KafkaSpec

\* Types are kept.
THEOREM KafkaTypeCorrect == KafkaSpec => []KafkaTypeOK
<1>1. KafkaInv => KafkaTypeOK
  BY DEF KafkaInv
<1> QED
  BY <1>1, KafkaSafe, PTL

\* Every message is in one place; the broker has those that were acknowledged, in the
\* order they were offered, and of the others none but what was given up or was
\* being written when the process ended; and a loop that ended drained its channel,
\* whatever is full, fails, panics or is closed (kafka.go:161-250).
THEOREM NoMessageUnaccounted == KafkaSpec => []KafkaAccounted
<1>1. KafkaInv /\ (\A t \in Topic : Drained(t)) => KafkaAccounted
  <2> SUFFICES ASSUME KafkaInv, NEW t \in Topic
               PROVE  /\ OnePlace(t) /\ InOrder(t)
                      /\ acked[t] \subseteq Arrived(t)
                      /\ Arrived(t) \subseteq acked[t] \cup failed[t] \cup InDoubt(t)
    BY DEF KafkaAccounted, Arrived
  <2> DEFINE hand == {writing[t]} \ {0}
             places == <<Queued(t), hand, acked[t], failed[t], turnedAway[t]>>
  <2>1. TopicInv(t) /\ offered[t] \in Nat /\ writing[t] \in Nat
        /\ Queued(t) \subseteq Nat /\ Over(t) \subseteq Nat
    BY KafkaTopicTypes DEF KafkaInv
  <2>2. UNION {places[i] : i \in 1..5}
          = Queued(t) \cup hand \cup acked[t] \cup failed[t] \cup turnedAway[t]
    <3>1. \A i : i \in 1..5 <=> i \in {1, 2, 3, 4, 5}
      OBVIOUS
    <3> QED
      BY <3>1
  <2>3. Queued(t) \cup hand \cup acked[t] \cup failed[t] \cup turnedAway[t] = 1..offered[t]
    <3>1. hand \subseteq 1..offered[t]
      BY <2>1 DEF TopicInv, PlacesInv
    <3>2. 0 \notin 1..offered[t]
      BY <2>1
    <3> QED
      BY <2>1, <3>1, <3>2 DEF TopicInv, PlacesInv, Over
  <2>4. /\ Queued(t) \cap hand = {} /\ Queued(t) \cap Over(t) = {} /\ hand \cap Over(t) = {}
        /\ \A s \in {Queued(t), hand, acked[t], failed[t]} : s \cap turnedAway[t] = {}
        /\ acked[t] \cap failed[t] = {}
    BY <2>1 DEF TopicInv, PlacesInv, FlowInv, Over
  <2>5. \A i, j \in 1..5 : i # j => places[i] \cap places[j] = {}
    <3>1. \A i : i \in 1..5 <=> i \in {1, 2, 3, 4, 5}
      OBVIOUS
    <3> QED
      BY <2>4, <3>1 DEF Over
  <2>6. OnePlace(t)
    BY <2>2, <2>3, <2>5 DEF OnePlace, Queued
  <2> QED
    BY <2>1, <2>6 DEF TopicInv, FlowInv, BrokerInv, Over
<1> QED
  BY <1>1, KafkaSafe, LoopsEndDrained, PTL
-----------------------------------------------------------------------------
(* MeterRegistry *)

\* the calls of Inc that will count for the successor
Adding(m) == {k \in Pending(m) : inc[k].pc = "add"}

\* No count is ever ahead of the calls: each call that is under way is still to be
\* counted, and what a call read before it writes was no more than that either.
CountInv(m) ==
  /\ IsFiniteSet(Pending(m))
  /\ val[m] + Cardinality(Pending(m)) <= begun[m]
  /\ \A k \in Pending(m) :
       inc[k].pc = "write" => inc[k].old + Cardinality(Pending(m)) <= begun[m]
  /\ successor[m] + Cardinality(Adding(m)) <= begun[m]
  /\ reg[m] = "none" => begun[m] = 0

\* Of a counter that was not raced nothing is lost: before the hand-over it has
\* one call at a time, afterwards all its calls count for the successor.
ExactInv(m) ==
  m \notin raced =>
    /\ added[m] => /\ Adding(m) = Pending(m)
                   /\ successor[m] + Cardinality(Pending(m)) = begun[m]
    /\ ~added[m] => /\ val[m] + Cardinality(Pending(m)) = begun[m]
                    /\ \A k \in Pending(m) :
                         /\ inc[k].pc \in {"read", "write"}
                         /\ inc[k].pc = "write" => inc[k].old = val[m]
                    /\ \A j, k \in Pending(m) : j = k

\* The hand-over carries the count of a counter that nobody is incrementing.
HandInv ==
  /\ collect \in {"handed", "changed"} => batch # <<>>
  /\ collect = "changed" => added[Head(batch)]
  /\ \A m \in meterMap : added[m]
  /\ collect = "handed" =>
       /\ made <= begun[Head(batch)]
       /\ Head(batch) \notin raced => Pending(Head(batch)) = {} /\ made = begun[Head(batch)]

MeterInv == MeterTypeOK /\ HandInv /\ \A m \in Meter : CountInv(m) /\ ExactInv(m)

LEMMA QuietType == Quiet \in [pc : {"idle"}, meter : Meter, old : Nat]
BY MeterAssumption DEF Quiet

LEMMA BatchHead ==
  ASSUME MeterTypeOK, batch # <<>>
  PROVE  Head(batch) \in Meter /\ Tail(batch) \in Seq(Meter)
BY HeadTailProperties DEF MeterTypeOK

LEMMA MeterTypes ==
  ASSUME MeterTypeOK, HandInv, [MeterNext]_meterVars
  PROVE  MeterTypeOK'
<1> DEFINE IncType == [pc : {"idle", "add", "stray", "read", "write"}, meter : Meter, old : Nat]
<1>1. ASSUME NEW m \in Meter, RegisterDirectly(m) \/ NewDefaultCounter(m) \/ ClaimAppend(m)
      PROVE  MeterTypeOK'
  <2>1. reg' \in [Meter -> {"none", "default", "claimed", "loaded", "registered"}]
    BY <1>1 DEF RegisterDirectly, NewDefaultCounter, ClaimAppend, MeterTypeOK
  <2>2. locker' \in Nat /\ overlapping' \subseteq Meter
    BY <1>1 DEF RegisterDirectly, NewDefaultCounter, ClaimAppend, MeterTypeOK, listVars, Appending
  <2>3. added' \in [Meter -> BOOLEAN] /\ meterMap' \subseteq Meter
    BY <1>1 DEF RegisterDirectly, NewDefaultCounter, ClaimAppend, MeterTypeOK, countVars
  <2> QED
    BY <1>1, <2>1, <2>2, <2>3
    DEF RegisterDirectly, NewDefaultCounter, ClaimAppend, MeterTypeOK, listVars, countVars
<1>2. ASSUME NEW m \in Meter, LoadRegisters(m) \/ StoreRegisters(m) PROVE MeterTypeOK'
  <2>1. reg' \in [Meter -> {"none", "default", "claimed", "loaded", "registered"}]
    BY <1>2 DEF LoadRegisters, StoreRegisters, MeterTypeOK
  <2>2. registers' \in Seq(Meter) /\ copied' \in [Meter -> Seq(Meter)]
    <3>1. copied \in [Meter -> Seq(Meter)] /\ registers \in Seq(Meter) /\ <<>> \in Seq(Meter)
      BY DEF MeterTypeOK
    <3>2. copied[m] \in Seq(Meter) /\ Append(copied[m], m) \in Seq(Meter)
      BY <3>1, AppendProperties
    <3>3. CASE LoadRegisters(m)
      BY <3>1, <3>3 DEF LoadRegisters
    <3>4. CASE StoreRegisters(m)
      BY <3>1, <3>2, <3>4 DEF StoreRegisters
    <3> QED
      BY <1>2, <3>3, <3>4
  <2> QED
    BY <1>2, <2>1, <2>2 DEF LoadRegisters, StoreRegisters, MeterTypeOK, listVars, countVars
<1>3. ASSUME NEW k \in Caller, IncStep(k) \/ \E m \in Meter : IncBegins(k, m)
      PROVE  MeterTypeOK'
  <2>1. inc \in [Caller -> IncType] /\ inc[k] \in IncType
    BY DEF MeterTypeOK
  <2>2. inc' \in [Caller -> IncType]
    <3>1. ASSUME NEW m \in Meter, IncBegins(k, m) PROVE inc' \in [Caller -> IncType]
      BY <2>1, <3>1 DEF IncBegins
    <3>2. CASE IncReads(k)
      <4>1. val[inc[k].meter] \in Nat
        BY <2>1 DEF MeterTypeOK
      <4> QED
        BY <2>1, <3>2, <4>1 DEF IncReads
    <3>3. CASE IncAdds(k) \/ IncWrites(k)
      BY <2>1, <3>3, QuietType DEF IncAdds, IncWrites
    <3> QED
      BY <1>3, <3>1, <3>2, <3>3 DEF IncStep
  <2>3. begun' \in [Meter -> Nat] /\ raced' \subseteq Meter
    <3>1. begun \in [Meter -> Nat] /\ raced \subseteq Meter
      BY DEF MeterTypeOK
    <3>2. ASSUME NEW m \in Meter, IncBegins(k, m)
          PROVE  begun' \in [Meter -> Nat] /\ raced' \subseteq Meter
      BY <3>1, <3>2 DEF IncBegins
    <3>3. CASE IncStep(k)
      BY <3>1, <3>3 DEF IncStep, IncReads, IncAdds, IncWrites, countVars
    <3> QED
      BY <1>3, <3>2, <3>3
  <2>4. val' \in [Meter -> Nat] /\ successor' \in [Meter -> Nat]
    <3>1. val \in [Meter -> Nat] /\ successor \in [Meter -> Nat]
      BY DEF MeterTypeOK
    <3>2. CASE IncWrites(k)
      BY <2>1, <3>1, <3>2 DEF IncWrites
    <3>3. CASE IncAdds(k)
      BY <2>1, <3>1, <3>3 DEF IncAdds
    <3>4. IncReads(k) \/ (\E m \in Meter : IncBegins(k, m)) => UNCHANGED <<val, successor>>
      BY DEF IncReads, IncBegins, countVars
    <3> QED
      BY <1>3, <3>1, <3>2, <3>3, <3>4 DEF IncStep
  <2>5. UNCHANGED <<operatorSet, listVars, reg, collect, batch, made, added, meterMap, shown>>
    <3>1. CASE IncStep(k)
      BY <3>1 DEF IncStep, IncReads, IncAdds, IncWrites, countVars
    <3>2. CASE \E m \in Meter : IncBegins(k, m)
      BY <3>2 DEF IncBegins
    <3> QED
      BY <1>3, <3>1, <3>2
  <2> QED
    BY <2>2, <2>3, <2>4, <2>5 DEF MeterTypeOK, IncType, listVars
<1>4. CASE SetOperator \/ StartCollect \/ Obtain \/ TakeRegisters \/ ResetRegisters
  <2>1. locker' \in Nat /\ overlapping' \subseteq Meter
    BY <1>4 DEF SetOperator, StartCollect, Obtain, TakeRegisters, ResetRegisters, MeterTypeOK,
                Appending, listVars
  <2>2. registers' \in {registers, <<>>} /\ registers \in Seq(Meter)
    BY <1>4 DEF SetOperator, StartCollect, Obtain, TakeRegisters, ResetRegisters, MeterTypeOK,
                listVars
  <2>3. registers' \in Seq(Meter)
    <3>1. <<>> \in Seq(Meter)
      OBVIOUS
    <3> QED
      BY <2>2, <3>1
  <2> QED
    BY <1>4, <2>1, <2>3 DEF SetOperator, StartCollect, Obtain, TakeRegisters, ResetRegisters,
                      MeterTypeOK, listVars, countVars
<1>5. CASE NewSuccessor
  <2>1. Head(batch) \in Meter
    BY <1>5, BatchHead DEF NewSuccessor
  <2>2. made' \in Nat /\ raced' \subseteq Meter
    BY <1>5, <2>1 DEF NewSuccessor, MeterTypeOK
  <2> QED
    BY <1>5, <2>2 DEF NewSuccessor, MeterTypeOK, listVars
<1>6. CASE ChangeFunctions
  <2>1. Head(batch) \in Meter
    BY <1>6, BatchHead DEF ChangeFunctions, HandInv
  <2>2. added' \in [Meter -> BOOLEAN] /\ successor' \in [Meter -> Nat]
    BY <1>6, <2>1 DEF ChangeFunctions, MeterTypeOK
  <2>3. inc \in [Caller -> IncType]
    BY DEF MeterTypeOK
  <2>4. inc' \in [Caller -> IncType]
    BY <1>6, <2>3 DEF ChangeFunctions
  <2> QED
    BY <1>6, <2>2, <2>4 DEF ChangeFunctions, MeterTypeOK, listVars
<1>7. CASE RegisterMetrics
  <2>1. Head(batch) \in Meter /\ Tail(batch) \in Seq(Meter)
    BY <1>7, BatchHead DEF RegisterMetrics, HandInv
  <2> QED
    BY <1>7, <2>1 DEF RegisterMetrics, MeterTypeOK, listVars, countVars
<1>8. CASE HandedOver \/ SendMetrics \/ RoundPanics \/ UNCHANGED meterVars
  BY <1>8 DEF HandedOver, SendMetrics, RoundPanics, meterVars, MeterTypeOK, listVars, countVars
<1> QED
  BY <1>1, <1>2, <1>3, <1>4, <1>5, <1>6, <1>7, <1>8
  DEF MeterNext, Registration, CollectStep

\* A step that leaves a counter and its calls alone leaves its counts right; a
\* counter that was registered stays so.
LEMMA SameCounter ==
  ASSUME NEW m \in Meter, CountInv(m), ExactInv(m),
         Pending(m)' = Pending(m), Adding(m)' = Adding(m),
         \A k \in Pending(m) : inc'[k] = inc[k],
         val'[m] = val[m], successor'[m] = successor[m], begun'[m] = begun[m],
         added'[m] = added[m], m \in raced => m \in raced',
         reg'[m] = "none" => reg[m] = "none"
  PROVE  CountInv(m)' /\ ExactInv(m)'
BY DEF CountInv, ExactInv

\* When the call of one goroutine goes on, ends or begins, the others' do not.
LEMMA CallMoves ==
  ASSUME MeterTypeOK, NEW k \in Caller, NEW c, inc' = [inc EXCEPT ![k] = c]
  PROVE  /\ inc'[k] = c
         /\ \A j \in Caller \ {k} : inc'[j] = inc[j]
         /\ \A n \in Meter :
              /\ Pending(n)' = IF c.pc # "idle" /\ c.meter = n THEN Pending(n) \cup {k}
                               ELSE Pending(n) \ {k}
              /\ Adding(n)' = IF c.pc = "add" /\ c.meter = n THEN Adding(n) \cup {k}
                              ELSE Adding(n) \ {k}
<1>1. inc'[k] = c /\ \A j \in Caller \ {k} : inc'[j] = inc[j]
  BY DEF MeterTypeOK
<1> QED
  BY <1>1 DEF Pending, Adding

LEMMA IncBeginsCounts ==
  ASSUME MeterInv, NEW k \in Caller, NEW m \in Meter, IncBegins(k, m)
  PROVE  MeterInv'
<1> DEFINE c == [pc |-> IF added[m] THEN "add" ELSE "read", meter |-> m, old |-> 0]
<1>0. /\ UNCHANGED <<reg, collect, batch, val, successor, made, added, meterMap>>
      /\ inc[k].pc = "idle" /\ reg[m] # "none"
      /\ begun' = [begun EXCEPT ![m] = @ + 1] /\ inc' = [inc EXCEPT ![k] = c]
      /\ raced' = IF \/ \E j \in Pending(m) : ~added[m]
                     \/ collect = "handed" /\ Head(batch) = m
                  THEN raced \cup {m} ELSE raced
  BY DEF IncBegins
<1>1. MeterTypeOK /\ HandInv /\ CountInv(m) /\ ExactInv(m)
  BY DEF MeterInv
<1>2. MeterTypeOK'
  BY <1>1, MeterTypes DEF MeterNext
<1>3. /\ c.pc = (IF added[m] THEN "add" ELSE "read") /\ c.meter = m
      /\ begun'[m] = begun[m] + 1 /\ \A n \in Meter : n # m => begun'[n] = begun[n]
      /\ begun[m] \in Nat /\ val[m] \in Nat /\ successor[m] \in Nat
  BY <1>0, <1>1 DEF MeterTypeOK
<1> HIDE DEF c
<1>4. /\ inc'[k] = c /\ \A j \in Caller \ {k} : inc'[j] = inc[j]
      /\ \A n \in Meter : Pending(n)' = IF n = m THEN Pending(n) \cup {k} ELSE Pending(n) \ {k}
      /\ \A n \in Meter : Adding(n)' = IF n = m /\ added[m] THEN Adding(n) \cup {k}
                                       ELSE Adding(n) \ {k}
  <2>1. /\ inc'[k] = c /\ \A j \in Caller \ {k} : inc'[j] = inc[j]
        /\ \A n \in Meter :
             /\ Pending(n)' = IF c.pc # "idle" /\ c.meter = n THEN Pending(n) \cup {k}
                              ELSE Pending(n) \ {k}
             /\ Adding(n)' = IF c.pc = "add" /\ c.meter = n THEN Adding(n) \cup {k}
                             ELSE Adding(n) \ {k}
    BY <1>0, <1>1, CallMoves
  <2>2. c.pc # "idle" /\ (c.pc = "add" <=> added[m])
    BY <1>3
  <2> QED
    BY <1>3, <2>1, <2>2
<1>5. \A n \in Meter : k \notin Pending(n) /\ Adding(n) \subseteq Pending(n)
  BY <1>0 DEF Pending, Adding
<1>6. /\ IsFiniteSet(Pending(m)) /\ IsFiniteSet(Pending(m)')
      /\ Cardinality(Pending(m)) \in Nat
      /\ Cardinality(Pending(m)') = Cardinality(Pending(m)) + 1
  BY <1>1, <1>4, <1>5, FS_AddElement, FS_CardinalityType DEF CountInv
<1>7. /\ Cardinality(Adding(m)) \in Nat
      /\ Cardinality(Adding(m)') = Cardinality(Adding(m)) + (IF added[m] THEN 1 ELSE 0)
  <2>1. Adding(m) \in SUBSET Pending(m) /\ k \notin Adding(m)
    BY <1>5
  <2>2. IsFiniteSet(Adding(m))
    BY <1>6, <2>1, FS_Subset
  <2>3. Adding(m)' = IF added[m] THEN Adding(m) \cup {k} ELSE Adding(m)
    BY <1>4, <2>1
  <2> QED
    BY <2>1, <2>2, <2>3, FS_AddElement, FS_CardinalityType
<1>8. CountInv(m)'
  <2>1. (val[m] + Cardinality(Pending(m)) <= begun[m])'
    BY <1>0, <1>1, <1>3, <1>6 DEF CountInv
  <2>2. (successor[m] + Cardinality(Adding(m)) <= begun[m])'
    BY <1>0, <1>1, <1>3, <1>7 DEF CountInv
  <2>3. ASSUME NEW j \in Pending(m)', inc'[j].pc = "write"
        PROVE  inc'[j].old + Cardinality(Pending(m)') <= begun'[m]
    <3>1. j # k /\ j \in Pending(m) /\ j \in Caller /\ inc'[j] = inc[j]
      BY <1>3, <1>4, <2>3 DEF Pending
    <3>2. inc[j].old \in Nat /\ inc[j].old + Cardinality(Pending(m)) <= begun[m]
      BY <1>1, <2>3, <3>1 DEF CountInv, MeterTypeOK
    <3> QED
      BY <1>3, <1>6, <3>1, <3>2
  <2> QED
    BY <1>0, <1>6, <2>1, <2>2, <2>3 DEF CountInv
<1>9. ExactInv(m)'
  <2> SUFFICES ASSUME m \notin raced' PROVE ExactInv(m)'
    BY DEF ExactInv
  <2>1. m \notin raced /\ (~added[m] => Pending(m) = {})
    BY <1>0
  <2>2. CASE added[m]
    <3>1. Adding(m) = Pending(m) /\ successor[m] + Cardinality(Pending(m)) = begun[m]
      BY <1>1, <2>1, <2>2 DEF ExactInv
    <3>2. Adding(m)' = Pending(m)'
      BY <1>4, <2>2, <3>1
    <3>3. (successor[m] + Cardinality(Pending(m)) = begun[m])'
      BY <1>0, <1>3, <1>6, <3>1
    <3> QED
      BY <1>0, <2>2, <3>2, <3>3 DEF ExactInv
  <2>3. CASE ~added[m]
    <3>1. Pending(m)' = {k} /\ inc'[k].pc = "read"
      BY <1>3, <1>4, <2>1, <2>3
    <3>2. (val[m] + Cardinality(Pending(m)) = begun[m])'
      BY <1>0, <1>1, <1>3, <1>6, <2>1, <2>3 DEF ExactInv
    <3> QED
      BY <1>0, <2>3, <3>1, <3>2 DEF ExactInv
  <2> QED
    BY <2>2, <2>3
<1>10. ASSUME NEW n \in Meter, n # m PROVE CountInv(n)' /\ ExactInv(n)'
  <2>1. Pending(n)' = Pending(n) /\ Adding(n)' = Adding(n)
    <3>1. Pending(n)' = Pending(n) \ {k} /\ Adding(n)' = Adding(n) \ {k}
      BY <1>4, <1>10
    <3>2. k \notin Pending(n) /\ k \notin Adding(n)
      BY <1>5
    <3> QED
      BY <3>1, <3>2
  <2>2. \A j \in Pending(n) : inc'[j] = inc[j]
    BY <1>4, <1>5 DEF Pending
  <2> QED
    BY <1>0, <1>3, <1>10, <2>1, <2>2, SameCounter DEF MeterInv
<1>11. HandInv'
  <2>1. CASE collect = "handed" /\ Head(batch) = m
    <3>1. m \in raced' /\ made \in Nat /\ made <= begun[m]
      BY <1>0, <1>1, <2>1 DEF HandInv, MeterTypeOK
    <3>2. made <= begun'[m]
      BY <1>3, <3>1
    <3> QED
      BY <1>0, <1>1, <2>1, <3>1, <3>2 DEF HandInv
  <2>2. CASE collect # "handed"
    BY <1>0, <1>1, <2>2 DEF HandInv
  <2>3. CASE collect = "handed" /\ Head(batch) # m
    <3>1. Head(batch) \in Meter
      BY <1>1, <2>3, BatchHead DEF HandInv
    <3>2. Pending(Head(batch)) = {} => (Pending(Head(batch)) = {})'
      BY <1>0, <1>4, <2>3, <3>1
    <3> QED
      BY <1>0, <1>1, <1>3, <2>3, <3>1, <3>2 DEF HandInv
  <2> QED
    BY <2>1, <2>2, <2>3
<1> QED
  BY <1>2, <1>8, <1>9, <1>10, <1>11 DEF MeterInv

\* Only a call that is not to be counted by the successor reads and writes; what
\* it reads is the count of the moment, to which it has yet to add its own.
LEMMA IncReadsCounts ==
  ASSUME MeterInv, NEW k \in Caller, IncReads(k), NEW m \in Meter, inc[k].meter = m
  PROVE  MeterInv'
<1> DEFINE c == [inc[k] EXCEPT !.pc = "write", !.old = val[m]]
<1>0. /\ UNCHANGED <<reg, collect, batch, val, successor, made, added, begun, raced, meterMap>>
      /\ inc[k].pc = "read" /\ inc' = [inc EXCEPT ![k] = c]
  BY DEF IncReads, countVars, MeterInv, MeterTypeOK
<1>1. MeterTypeOK /\ HandInv /\ m \in Meter /\ k \in Pending(m)
  BY <1>0 DEF MeterInv, MeterTypeOK, Pending
<1>2. MeterTypeOK'
  BY <1>1, MeterTypes DEF MeterNext, IncStep
<1>3. c.pc = "write" /\ c.meter = m /\ c.old = val[m]
  BY <1>1 DEF MeterTypeOK
<1>4. CountInv(m) /\ ExactInv(m)
  BY <1>1 DEF MeterInv
<1> HIDE DEF c
<1>5. /\ inc'[k] = c /\ \A j \in Caller \ {k} : inc'[j] = inc[j]
      /\ \A n \in Meter :
           /\ Pending(n)' = IF c.pc # "idle" /\ c.meter = n THEN Pending(n) \cup {k}
                            ELSE Pending(n) \ {k}
           /\ Adding(n)' = IF c.pc = "add" /\ c.meter = n THEN Adding(n) \cup {k}
                           ELSE Adding(n) \ {k}
  BY <1>0, <1>1, CallMoves
<1>6. \A n \in Meter : (k \in Pending(n) <=> n = m) /\ k \notin Adding(n)
  BY <1>0, <1>1 DEF Pending, Adding
<1>7. ASSUME NEW n \in Meter PROVE Pending(n)' = Pending(n) /\ Adding(n)' = Adding(n)
  <2>1. Pending(n)' = (IF n = m THEN Pending(n) \cup {k} ELSE Pending(n) \ {k})
        /\ Adding(n)' = Adding(n) \ {k}
    BY <1>3, <1>5
  <2>2. (k \in Pending(n) <=> n = m) /\ k \notin Adding(n)
    BY <1>6
  <2> QED
    BY <2>1, <2>2
<1>8. CountInv(m)'
  <2>1. ASSUME NEW j \in Pending(m), inc'[j].pc = "write"
        PROVE  inc'[j].old + Cardinality(Pending(m)) <= begun[m]
    BY <1>3, <1>4, <1>5, <2>1 DEF CountInv, Pending
  <2> QED
    BY <1>0, <1>1, <1>4, <1>7, <2>1 DEF CountInv
<1>9. ExactInv(m)'
  BY <1>0, <1>1, <1>3, <1>4, <1>5, <1>7 DEF ExactInv, Pending
<1>10. ASSUME NEW n \in Meter, n # m PROVE CountInv(n)' /\ ExactInv(n)'
  <2>1. \A j \in Pending(n) : inc'[j] = inc[j]
    BY <1>5, <1>6, <1>10 DEF Pending
  <2> QED
    BY <1>0, <1>7, <1>10, <2>1, SameCounter DEF MeterInv
<1>11. HandInv'
  <2>1. collect = "handed" => Head(batch) \in Meter
    BY <1>1, BatchHead DEF HandInv
  <2> QED
    BY <1>0, <1>1, <1>7, <2>1 DEF HandInv
<1> QED
  BY <1>2, <1>8, <1>9, <1>10, <1>11 DEF MeterInv

\* A call ends: with the count it was to add in the successor, in the counter, or
\* in a successor that was replaced under it.
LEMMA IncEndsCounts ==
  ASSUME MeterInv, NEW k \in Caller, IncAdds(k) \/ IncWrites(k),
         NEW m \in Meter, inc[k].meter = m
  PROVE  MeterInv'
<1> DEFINE P == Cardinality(Pending(m))
           A == Cardinality(Adding(m))
<1>0. /\ UNCHANGED <<reg, collect, batch, made, added, begun, raced, meterMap>>
      /\ inc[k].pc \in {"add", "stray", "write"} /\ inc' = [inc EXCEPT ![k] = Quiet]
  BY DEF IncAdds, IncWrites
<1>1. MeterTypeOK /\ HandInv /\ m \in Meter /\ k \in Pending(m)
  BY <1>0 DEF MeterInv, MeterTypeOK, Pending
<1>2. MeterTypeOK'
  BY <1>1, MeterTypes DEF MeterNext, IncStep
<1>3. CountInv(m) /\ ExactInv(m)
  BY <1>1 DEF MeterInv
<1>4. /\ begun[m] \in Nat /\ val[m] \in Nat /\ successor[m] \in Nat /\ inc[k].old \in Nat
      /\ Quiet.pc = "idle"
  BY <1>1, QuietType DEF MeterTypeOK
<1>5. /\ \A j \in Caller \ {k} : inc'[j] = inc[j]
      /\ \A n \in Meter : Pending(n)' = Pending(n) \ {k} /\ Adding(n)' = Adding(n) \ {k}
  BY <1>0, <1>1, <1>4, CallMoves
<1>6. /\ \A n \in Meter : k \in Pending(n) <=> n = m
      /\ \A n \in Meter : k \in Adding(n) <=> n = m /\ inc[k].pc = "add"
      /\ \A n \in Meter : Adding(n) \in SUBSET Pending(n)
  BY <1>0, <1>1 DEF Pending, Adding
<1>7. /\ val' = (IF inc[k].pc = "write" THEN [val EXCEPT ![m] = inc[k].old + 1] ELSE val)
      /\ successor' = (IF inc[k].pc = "add" THEN [successor EXCEPT ![m] = @ + 1] ELSE successor)
  BY DEF IncAdds, IncWrites
<1>8. /\ val'[m] = (IF inc[k].pc = "write" THEN inc[k].old + 1 ELSE val[m])
      /\ successor'[m] = (IF inc[k].pc = "add" THEN successor[m] + 1 ELSE successor[m])
      /\ \A n \in Meter : n # m => val'[n] = val[n] /\ successor'[n] = successor[n]
  BY <1>1, <1>7 DEF MeterTypeOK
<1>9. /\ IsFiniteSet(Pending(m)) /\ IsFiniteSet(Pending(m)') /\ P \in Nat /\ P > 0
      /\ Cardinality(Pending(m)') = P - 1
  <2>1. IsFiniteSet(Pending(m))
    BY <1>3 DEF CountInv
  <2>2. P \in Nat /\ P # 0
    BY <1>1, <2>1, FS_CardinalityType, FS_EmptySet
  <2> QED
    BY <1>1, <1>5, <2>1, <2>2, FS_RemoveElement
<1>10. /\ A \in Nat
       /\ Cardinality(Adding(m)') = IF inc[k].pc = "add" THEN A - 1 ELSE A
  <2>1. IsFiniteSet(Adding(m))
    BY <1>1, <1>6, <1>9, FS_Subset
  <2>2. Adding(m)' = Adding(m) \ {k} /\ (k \in Adding(m) <=> inc[k].pc = "add")
    BY <1>1, <1>5, <1>6
  <2>3. A \in Nat
    BY <2>1, FS_CardinalityType
  <2>4. Cardinality(Adding(m) \ {k}) = IF k \in Adding(m) THEN A - 1 ELSE A
    BY ONLY <2>1, FS_RemoveElement
  <2> QED
    BY <2>2, <2>3, <2>4
<1> HIDE DEF P, A
<1>11. CountInv(m)'
  <2>1. (val[m] + Cardinality(Pending(m)) <= begun[m])'
    BY <1>0, <1>1, <1>3, <1>4, <1>8, <1>9 DEF CountInv, P
  <2>2. (successor[m] + Cardinality(Adding(m)) <= begun[m])'
    BY <1>0, <1>1, <1>3, <1>4, <1>8, <1>10 DEF CountInv, A
  <2>3. ASSUME NEW j \in Pending(m)', inc'[j].pc = "write"
        PROVE  inc'[j].old + Cardinality(Pending(m)') <= begun'[m]
    <3>1. j # k /\ j \in Pending(m) /\ j \in Caller /\ inc'[j] = inc[j]
      BY <1>1, <1>5, <2>3 DEF Pending
    <3>2. inc[j].old \in Nat /\ inc[j].old + P <= begun[m]
      BY <1>1, <1>3, <2>3, <3>1 DEF CountInv, MeterTypeOK, P
    <3> QED
      BY <1>0, <1>4, <1>9, <3>1, <3>2
  <2> QED
    BY <1>0, <1>3, <1>9, <2>1, <2>2, <2>3 DEF CountInv
<1>12. ExactInv(m)'
  <2> SUFFICES ASSUME m \notin raced PROVE ExactInv(m)'
    BY <1>0 DEF ExactInv
  <2>1. CASE added[m]
    <3>1. Adding(m) = Pending(m) /\ successor[m] + P = begun[m]
      BY <1>3, <2>1 DEF ExactInv, P
    <3>2. inc[k].pc = "add"
      BY <1>1, <1>6, <3>1
    <3>3. Adding(m)' = Pending(m)'
      BY <1>1, <1>5, <3>1
    <3>4. (successor[m] + Cardinality(Pending(m)) = begun[m])'
      BY <1>0, <1>4, <1>8, <1>9, <3>1, <3>2 DEF P
    <3> QED
      BY <1>0, <2>1, <3>3, <3>4 DEF ExactInv
  <2>2. CASE ~added[m]
    <3>1. /\ val[m] + P = begun[m] /\ inc[k].pc = "write" /\ inc[k].old = val[m]
          /\ \A j \in Pending(m) : j = k
      BY <1>0, <1>1, <1>3, <2>2 DEF ExactInv, P
    <3>2. Pending(m)' = {}
      BY <1>1, <1>5, <3>1
    <3>3. (val[m] + Cardinality(Pending(m)) = begun[m])'
      BY <1>0, <1>4, <1>8, <1>9, <3>1 DEF P
    <3> QED
      BY <1>0, <2>2, <3>2, <3>3 DEF ExactInv
  <2> QED
    BY <2>1, <2>2
<1>13. ASSUME NEW n \in Meter, n # m PROVE CountInv(n)' /\ ExactInv(n)'
  <2>1. Pending(n)' = Pending(n) /\ Adding(n)' = Adding(n)
    <3>1. Pending(n)' = Pending(n) \ {k} /\ Adding(n)' = Adding(n) \ {k}
      BY <1>5
    <3>2. k \notin Pending(n) /\ k \notin Adding(n)
      BY <1>6, <1>13
    <3> QED
      BY <3>1, <3>2
  <2>2. \A j \in Pending(n) : inc'[j] = inc[j]
    BY <1>5, <1>6, <1>13 DEF Pending
  <2> QED
    BY <1>0, <1>8, <1>13, <2>1, <2>2, SameCounter DEF MeterInv
<1>14. HandInv'
  <2>1. collect = "handed" => Head(batch) \in Meter
    BY <1>1, BatchHead DEF HandInv
  <2>2. collect = "handed" /\ Pending(Head(batch)) = {} => (Pending(Head(batch)) = {})'
    BY <1>0, <1>5, <2>1
  <2> QED
    BY <1>0, <1>1, <2>1, <2>2 DEF HandInv
<1> QED
  BY <1>2, <1>11, <1>12, <1>13, <1>14 DEF MeterInv

\* The successor that is made has the count of a counter that nobody is
\* incrementing, or the counter was raced.
LEMMA NewSuccessorCounts ==
  ASSUME MeterInv, NewSuccessor, NEW m \in Meter, Head(batch) = m
  PROVE  MeterInv'
<1>0. /\ UNCHANGED <<reg, batch, val, successor, added, begun, meterMap, inc>>
      /\ batch # <<>> /\ collect' = "handed"
      /\ made' = (IF added[m] THEN successor[m] ELSE val[m])
      /\ raced' = (IF Pending(m) # {} THEN raced \cup {m} ELSE raced)
  BY DEF NewSuccessor
<1>1. MeterTypeOK /\ HandInv /\ CountInv(m) /\ ExactInv(m)
  BY DEF MeterInv
<1>2. MeterTypeOK'
  BY <1>1, MeterTypes DEF MeterNext, CollectStep
<1>3. \A n \in Meter : Pending(n)' = Pending(n) /\ Adding(n)' = Adding(n)
  BY <1>0 DEF Pending, Adding
<1>4. \A n \in Meter : CountInv(n)' /\ ExactInv(n)'
  BY <1>0, <1>3, SameCounter DEF MeterInv
<1>5. /\ IsFiniteSet(Pending(m)) /\ Cardinality(Pending(m)) \in Nat
      /\ Cardinality(Adding(m)) \in Nat
      /\ begun[m] \in Nat /\ val[m] \in Nat /\ successor[m] \in Nat
  <2>1. IsFiniteSet(Pending(m)) /\ Adding(m) \in SUBSET Pending(m)
    BY <1>1 DEF CountInv, Adding
  <2> QED
    BY <1>1, <2>1, FS_Subset, FS_CardinalityType DEF MeterTypeOK
<1>6. made' <= begun[m]
  BY <1>0, <1>1, <1>5 DEF CountInv
<1>7. m \notin raced' => Pending(m) = {} /\ made' = begun[m]
  <2> SUFFICES ASSUME m \notin raced' PROVE Pending(m) = {} /\ made' = begun[m]
    OBVIOUS
  <2>1. m \notin raced /\ Pending(m) = {}
    BY <1>0
  <2>2. Cardinality(Pending(m)) = 0
    BY <2>1, FS_EmptySet
  <2> QED
    BY <1>0, <1>1, <1>5, <2>1, <2>2 DEF ExactInv
<1>8. HandInv'
  BY <1>0, <1>1, <1>3, <1>6, <1>7 DEF HandInv
<1> QED
  BY <1>2, <1>4, <1>8 DEF MeterInv

\* The functions are exchanged: the successor goes on from the count that was
\* handed over, and calls that had found the one before count for nothing.
LEMMA ChangeFunctionsCounts ==
  ASSUME MeterInv, ChangeFunctions, NEW m \in Meter, Head(batch) = m
  PROVE  MeterInv'
<1>0. /\ UNCHANGED <<reg, batch, val, begun, raced, meterMap>>
      /\ collect = "handed" /\ collect' = "changed"
      /\ added' = [added EXCEPT ![m] = TRUE] /\ successor' = [successor EXCEPT ![m] = made]
      /\ inc' = [k \in Caller |-> IF k \in Pending(m) /\ inc[k].pc = "add"
                                  THEN [inc[k] EXCEPT !.pc = "stray"] ELSE inc[k]]
  BY DEF ChangeFunctions
<1>1. MeterTypeOK /\ HandInv /\ CountInv(m) /\ ExactInv(m)
  BY DEF MeterInv
<1>2. MeterTypeOK'
  BY <1>1, MeterTypes DEF MeterNext, CollectStep
<1>3. /\ made \in Nat /\ made <= begun[m] /\ begun[m] \in Nat
      /\ m \notin raced => Pending(m) = {} /\ made = begun[m]
  BY <1>0, <1>1 DEF HandInv, MeterTypeOK
<1>4. ASSUME NEW k \in Caller
      PROVE  /\ inc'[k].meter = inc[k].meter /\ inc'[k].old = inc[k].old
             /\ inc'[k].pc = (IF k \in Pending(m) /\ inc[k].pc = "add" THEN "stray" ELSE inc[k].pc)
             /\ k \notin Pending(m) => inc'[k] = inc[k]
  BY <1>0, <1>1 DEF MeterTypeOK
<1>5. /\ \A n \in Meter : Pending(n)' = Pending(n)
      /\ Adding(m)' = {}
      /\ \A n \in Meter : n # m => Adding(n)' = Adding(n)
  <2>1. \A n \in Meter : Pending(n)' = Pending(n)
    BY <1>4 DEF Pending
  <2>2. Adding(m)' = {}
    BY <1>4, <2>1 DEF Adding, Pending
  <2>3. ASSUME NEW n \in Meter, n # m PROVE Adding(n)' = Adding(n)
    <3>1. \A k \in Pending(n) : k \in Caller /\ k \notin Pending(m)
      BY <2>3 DEF Pending
    <3> QED
      BY <1>4, <2>1, <3>1 DEF Adding
  <2> QED
    BY <2>1, <2>2, <2>3
<1>6. successor'[m] = made /\ added'[m] = TRUE
      /\ \A n \in Meter : n # m => successor'[n] = successor[n] /\ added'[n] = added[n]
  BY <1>0, <1>1 DEF MeterTypeOK
<1>7. CountInv(m)'
  <2>1. (successor[m] + Cardinality(Adding(m)) <= begun[m])'
    BY <1>0, <1>3, <1>5, <1>6, FS_EmptySet
  <2>2. ASSUME NEW k \in Pending(m), inc'[k].pc = "write"
        PROVE  inc'[k].old + Cardinality(Pending(m)) <= begun[m]
    BY <1>1, <1>4, <2>2 DEF CountInv, Pending
  <2> QED
    BY <1>0, <1>1, <1>5, <2>1, <2>2 DEF CountInv
<1>8. ExactInv(m)'
  <2> SUFFICES ASSUME m \notin raced' PROVE ExactInv(m)'
    BY DEF ExactInv
  <2>1. Pending(m)' = {} /\ made = begun[m]
    BY <1>0, <1>3, <1>5
  <2>2. Cardinality(Pending(m)') = 0
    BY <2>1, FS_EmptySet
  <2>3. (successor[m] + Cardinality(Pending(m)) = begun[m])'
    BY <1>0, <1>3, <1>6, <2>1, <2>2
  <2> QED
    BY <1>5, <1>6, <2>1, <2>3 DEF ExactInv
<1>9. ASSUME NEW n \in Meter, n # m PROVE CountInv(n)' /\ ExactInv(n)'
  <2>1. \A k \in Pending(n) : inc'[k] = inc[k]
    BY <1>4, <1>9 DEF Pending
  <2> QED
    BY <1>0, <1>5, <1>6, <1>9, <2>1, SameCounter DEF MeterInv
<1>10. HandInv'
  BY <1>0, <1>1, <1>6 DEF HandInv, MeterTypeOK
<1> QED
  BY <1>2, <1>7, <1>8, <1>9, <1>10 DEF MeterInv

\* The registration, and the collect goroutine outside the hand-over of a counter
LEMMA RegistersCounts ==
  ASSUME MeterInv, NEW m \in Meter, RegisterDirectly(m)
  PROVE  MeterInv'
<1>0. /\ UNCHANGED <<collect, batch, val, successor, made, begun, raced, inc>>
      /\ reg[m] = "none" /\ reg' = [reg EXCEPT ![m] = "registered"]
      /\ added' = [added EXCEPT ![m] = TRUE] /\ meterMap' = meterMap \cup {m}
  BY DEF RegisterDirectly
<1>1. MeterTypeOK /\ HandInv /\ CountInv(m) /\ ExactInv(m)
  BY DEF MeterInv
<1>2. MeterTypeOK'
  BY <1>1, MeterTypes DEF MeterNext
<1>3. \A n \in Meter : Pending(n)' = Pending(n) /\ Adding(n)' = Adding(n)
  BY <1>0 DEF Pending, Adding
<1>4. /\ Pending(m) = {} /\ Adding(m) = {} /\ Cardinality(Pending(m)) = 0
      /\ successor[m] = 0 /\ begun[m] = 0
  <2>1. IsFiniteSet(Pending(m)) /\ Adding(m) \in SUBSET Pending(m)
    BY <1>1 DEF CountInv, Adding
  <2>2. /\ Cardinality(Pending(m)) \in Nat /\ Cardinality(Adding(m)) \in Nat
        /\ val[m] \in Nat /\ successor[m] \in Nat
    BY <1>1, <2>1, FS_Subset, FS_CardinalityType DEF MeterTypeOK
  <2>3. begun[m] = 0 /\ successor[m] = 0 /\ Cardinality(Pending(m)) = 0
    BY <1>0, <1>1, <2>2 DEF CountInv
  <2> QED
    BY <2>1, <2>3, FS_EmptySet
<1>5. /\ added'[m] = TRUE /\ \A n \in Meter : n # m => added'[n] = added[n]
      /\ reg'[m] = "registered" /\ \A n \in Meter : n # m => reg'[n] = reg[n]
      /\ \A n \in Meter : added[n] => added'[n]
  BY <1>0, <1>1 DEF MeterTypeOK
<1>6. CountInv(m)' /\ ExactInv(m)'
  BY <1>0, <1>1, <1>3, <1>4, <1>5 DEF CountInv, ExactInv
<1>7. ASSUME NEW n \in Meter, n # m PROVE CountInv(n)' /\ ExactInv(n)'
  BY <1>0, <1>3, <1>5, <1>7, SameCounter DEF MeterInv
<1>8. HandInv'
  <2>1. collect \in {"handed", "changed"} => Head(batch) \in Meter
    BY <1>1, BatchHead DEF HandInv
  <2>2. \A n \in meterMap' : added'[n]
    BY <1>0, <1>1, <1>5 DEF HandInv, MeterTypeOK
  <2> QED
    BY <1>0, <1>1, <1>3, <1>5, <2>1, <2>2 DEF HandInv
<1> QED
  BY <1>2, <1>6, <1>7, <1>8 DEF MeterInv

LEMMA MeterRestCounts ==
  ASSUME MeterInv,
         \/ SetOperator \/ StartCollect \/ Obtain \/ TakeRegisters \/ ResetRegisters
         \/ RegisterMetrics \/ HandedOver \/ SendMetrics \/ RoundPanics \/ UNCHANGED meterVars
         \/ \E m \in Meter : NewDefaultCounter(m) \/ Registration(m)
  PROVE  MeterInv'
<1>1. MeterTypeOK /\ HandInv
  BY DEF MeterInv
<1>2. MeterTypeOK'
  BY <1>1, MeterTypes DEF MeterNext, CollectStep
<1>3. UNCHANGED <<val, successor, made, added, begun, raced, inc>>
  BY DEF SetOperator, StartCollect, Obtain, TakeRegisters, ResetRegisters, RegisterMetrics,
         HandedOver, SendMetrics, RoundPanics, meterVars, NewDefaultCounter, Registration,
         ClaimAppend, LoadRegisters, StoreRegisters, countVars
<1>4. \A n \in Meter : reg'[n] = "none" => reg[n] = "none"
  <2>1. ASSUME NEW m \in Meter, NewDefaultCounter(m) \/ Registration(m)
        PROVE  \A n \in Meter : reg'[n] = "none" => reg[n] = "none"
    <3>1. reg[m] \in {"none", "default", "claimed", "loaded"}
          /\ \E r \in {"default", "claimed", "loaded", "registered"} : reg' = [reg EXCEPT ![m] = r]
      BY <2>1 DEF NewDefaultCounter, Registration, ClaimAppend, LoadRegisters, StoreRegisters
    <3> QED
      BY <1>1, <3>1 DEF MeterTypeOK
  <2>2. (\E m \in Meter : NewDefaultCounter(m) \/ Registration(m)) \/ UNCHANGED reg
    BY DEF SetOperator, StartCollect, Obtain, TakeRegisters, ResetRegisters, RegisterMetrics,
           HandedOver, SendMetrics, RoundPanics, meterVars
  <2> QED
    BY <2>1, <2>2
<1>5. \A n \in Meter : Pending(n)' = Pending(n) /\ Adding(n)' = Adding(n)
  BY <1>3 DEF Pending, Adding
<1>6. \A n \in Meter : CountInv(n)' /\ ExactInv(n)'
  BY <1>3, <1>4, <1>5, SameCounter DEF MeterInv
<1>7. HandInv'
  <2>1. CASE RegisterMetrics
    BY <1>1, <1>3, <2>1 DEF HandInv, RegisterMetrics
  <2>2. CASE UNCHANGED <<collect, batch, meterMap>>
    <3>1. collect \in {"handed", "changed"} => Head(batch) \in Meter
      BY <1>1, BatchHead DEF HandInv
    <3> QED
      BY <1>1, <1>3, <1>5, <2>2, <3>1 DEF HandInv
  <2>3. CASE collect' \notin {"handed", "changed"} /\ UNCHANGED meterMap
    BY <1>1, <1>3, <2>3 DEF HandInv
  <2>4. RegisterMetrics \/ UNCHANGED <<collect, batch, meterMap>>
        \/ (collect' \notin {"handed", "changed"} /\ UNCHANGED meterMap)
    BY DEF SetOperator, StartCollect, Obtain, TakeRegisters, ResetRegisters, HandedOver,
           SendMetrics, RoundPanics, meterVars, NewDefaultCounter, Registration, ClaimAppend,
           LoadRegisters, StoreRegisters
  <2> QED
    BY <2>1, <2>2, <2>3, <2>4
<1> QED
  BY <1>2, <1>6, <1>7 DEF MeterInv

LEMMA MeterSafe == MeterSpec => []MeterInv
<1>1. MeterInit => MeterInv
  <2> SUFFICES ASSUME MeterInit PROVE MeterInv
    OBVIOUS
  <2>1. \A m \in Meter : Pending(m) = {} /\ Adding(m) = {}
    BY DEF MeterInit, Pending, Adding, Quiet
  <2>2. ASSUME NEW m \in Meter PROVE CountInv(m) /\ ExactInv(m)
    <3>1. val[m] = 0 /\ successor[m] = 0 /\ begun[m] = 0 /\ added[m] = FALSE
      BY DEF MeterInit
    <3>2. /\ Pending(m) = {} /\ Adding(m) = {} /\ IsFiniteSet(Pending(m))
          /\ Cardinality(Pending(m)) = 0 /\ Cardinality(Adding(m)) = 0
      BY <2>1, FS_EmptySet
    <3> QED
      BY <3>1, <3>2 DEF CountInv, ExactInv
  <2>3. MeterTypeOK
    <3>1. <<>> \in Seq(Meter)
      OBVIOUS
    <3>2. inc \in [Caller -> [pc : {"idle", "add", "stray", "read", "write"}, meter : Meter,
                              old : Nat]]
      BY QuietType DEF MeterInit
    <3> QED
      BY <3>1, <3>2 DEF MeterInit, MeterTypeOK
  <2> QED
    BY <2>2, <2>3 DEF MeterInv, HandInv, MeterInit
<1>2. MeterInv /\ [MeterNext]_meterVars => MeterInv'
  <2> SUFFICES ASSUME MeterInv, [MeterNext]_meterVars PROVE MeterInv'
    OBVIOUS
  <2>1. MeterTypeOK /\ HandInv
    BY DEF MeterInv
  <2>2. ASSUME NEW k \in Caller, IncStep(k) PROVE MeterInv'
    <3>1. inc[k].meter \in Meter
      BY <2>1 DEF MeterTypeOK
    <3> QED
      BY <2>2, <3>1, IncReadsCounts, IncEndsCounts DEF IncStep
  <2>3. ASSUME NewSuccessor \/ ChangeFunctions PROVE MeterInv'
    <3>1. Head(batch) \in Meter
      BY <2>1, <2>3, BatchHead DEF HandInv, NewSuccessor, ChangeFunctions
    <3> QED
      BY <2>3, <3>1, NewSuccessorCounts, ChangeFunctionsCounts
  <2> QED
    BY <2>2, <2>3, IncBeginsCounts, RegistersCounts, MeterRestCounts DEF MeterNext, CollectStep
<1> QED
  BY <1>1, <1>2, PTL DEF MeterSpec

\* Types are kept.
THEOREM MeterTypeCorrect == MeterSpec => []MeterTypeOK
<1>1. MeterInv => MeterTypeOK
  BY DEF MeterInv
<1> QED
  BY <1>1, MeterSafe, PTL

\* A counter of the registry never has an increment too many, and has every one
\* that overlapped no other before the hand-over, nor the hand-over.
THEOREM NoIncrementLost == MeterSpec => []CountsAreExact
<1>1. MeterInv => CountsAreExact
  <2> SUFFICES ASSUME MeterInv, NEW m \in meterMap
               PROVE  /\ successor[m] <= begun[m]
                      /\ m \notin raced /\ Pending(m) = {} => successor[m] = begun[m]
    BY DEF CountsAreExact
  <2>1. /\ m \in Meter /\ added[m] /\ successor[m] \in Nat /\ begun[m] \in Nat
        /\ CountInv(m) /\ ExactInv(m)
    BY DEF MeterInv, HandInv, MeterTypeOK
  <2>2. Cardinality(Adding(m)) \in Nat
    <3>1. IsFiniteSet(Pending(m)) /\ Adding(m) \in SUBSET Pending(m)
      BY <2>1 DEF CountInv, Adding
    <3> QED
      BY <3>1, FS_Subset, FS_CardinalityType
  <2> QED
    BY <2>1, <2>2, FS_EmptySet DEF CountInv, ExactInv
<1> QED
  BY <1>1, MeterSafe, PTL
=============================================================================

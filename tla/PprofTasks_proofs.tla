--------------------------- MODULE PprofTasks_proofs ---------------------------
(***************************************************************************)
(* For any tasks, commands in any order and timers that fire in any order: *)
(* one CPU task at a time, and no sampling rate outlives the tasks.        *)
(***************************************************************************)
EXTENDS PprofTasks, FiniteSetTheorems, TLAPS

Busy(t) == Event[t] = "cpu" /\ stage[t] \in {"claimed", "sampling", "stopped"}
Samples(t) == stage[t] \in {"sampling", "stopped"}

\* A task was commanded once, at a time that is past; the one that starts is
\* the one the command loop is at.
CommandInv ==
  /\ \A t \in Task : stage[t] # "none" => CreateTime[t] <= last
  /\ \A t \in Task : stage[t] \in {"starting", "claimed"} <=> loop = t

\* OneCpuTask, without the set
CpuInv ==
  /\ flag <=> \E t \in Task : Busy(t)
  /\ \A t, u \in Task : Busy(t) /\ Busy(u) => t = u
  /\ \A t \in Task : (Event[t] = "cpu" /\ stage[t] = "sampling") <=> cpu = t

\* Two tasks of an event that sample at one time are in overlapped.
RateInv ==
  /\ \A t, u \in Task : Samples(t) /\ Samples(u) /\ Event[t] = Event[u] /\ t # u
                          => t \in overlapped
  /\ \A e \in Rated : (\A t \in Task : Event[t] = e => ~Samples(t)) => rate[e] = 0
  /\ \A t \in Task : Event[t] \in Rated /\ Samples(t) /\ t \notin overlapped
                       => rate[Event[t]] = DumpPeriod[t]

PInv == PprofTypeOK /\ CommandInv /\ CpuInv /\ RateInv

LEMMA PprofInitInv == PprofInit => PInv
<1> SUFFICES ASSUME PprofInit PROVE PInv
  OBVIOUS
<1> USE PprofAssumption DEF PprofInit
<1>1. PprofTypeOK
  <2>1. sendCh \in Seq(Task) /\ Len(sendCh) <= SendCap
    OBVIOUS
  <2> QED
    BY <2>1 DEF PprofTypeOK
<1>2. CommandInv /\ CpuInv /\ RateInv
  BY DEF CommandInv, CpuInv, RateInv, Busy, Samples, Free
<1> QED
  BY <1>1, <1>2 DEF PInv

LEMMA ReportType ==
  ASSUME PprofTypeOK, NEW t \in Task, Report(t)
  PROVE  /\ sendCh' \in Seq(Task) /\ Len(sendCh') <= SendCap
         /\ dropped' \in [Task -> Nat]
<1>1. /\ sendCh \in Seq(Task) /\ Len(sendCh) <= SendCap
      /\ dropped \in [Task -> Nat] /\ SendCap \in Nat
  BY PprofAssumption DEF PprofTypeOK
<1>2. CASE Len(sendCh) < SendCap
  <2>1. sendCh' = Append(sendCh, t) /\ dropped' = dropped
    BY <1>2 DEF Report
  <2> QED
    BY <1>1, <1>2, <2>1
<1>3. CASE ~(Len(sendCh) < SendCap)
  <2>1. sendCh' = sendCh /\ dropped' = [dropped EXCEPT ![t] = dropped[t] + 1]
    BY <1>3 DEF Report
  <2>2. dropped[t] + 1 \in Nat
    BY <1>1
  <2> QED
    BY <1>1, <2>1, <2>2
<1> QED
  BY <1>2, <1>3

\* What leaves the variables of the invariants alone leaves them alone.
LEMMA PprofFrames ==
  /\ CommandInv /\ UNCHANGED <<last, loop, stage>> => CommandInv'
  /\ CpuInv /\ UNCHANGED <<flag, cpu, stage>> => CpuInv'
  /\ RateInv /\ UNCHANGED <<rate, overlapped, stage>> => RateInv'
BY DEF CommandInv, CpuInv, RateInv, Busy, Samples

LEMMA HandleCommandStep ==
  ASSUME PInv, NEW t \in Task, HandleCommand(t)
  PROVE  PInv'
<1>0. /\ NoTask \notin Task /\ CreateTime[t] \in Nat /\ DOMAIN stage = Task /\ last \in Nat
      /\ \A u \in Task : CreateTime[u] \in Nat
      /\ PprofTypeOK /\ CommandInv /\ CpuInv /\ RateInv
  BY PprofAssumption DEF PInv, PprofTypeOK
<1>1. /\ loop = NoTask /\ CreateTime[t] > last /\ last' = CreateTime[t]
      /\ UNCHANGED <<link, flag, cpu, rate, overlapped, sendCh, dropped, upload, reached>>
  BY DEF HandleCommand, IsNew, resultVars, uploadVars
<1>2. stage[t] = "none"
  BY <1>0, <1>1 DEF CommandInv
<1>3. \/ loop' = t /\ stage' = [stage EXCEPT ![t] = "starting"]
      \/ loop' = loop /\ stage' = [stage EXCEPT ![t] = "rejected"]
  BY DEF HandleCommand
<1>4. PprofTypeOK'
  BY <1>0, <1>1, <1>3 DEF PprofTypeOK
<1>5. CommandInv'
  <2>1. \A u \in Task \ {t} : stage'[u] = stage[u]
    BY <1>0, <1>3
  <2>2. \A u \in Task : stage[u] \notin {"starting", "claimed"}
    BY <1>0, <1>1 DEF CommandInv
  <2>3. \A u \in Task : stage[u] # "none" => CreateTime[u] <= last'
    BY <1>0, <1>1 DEF CommandInv
  <2>4. \A u \in Task : stage'[u] # "none" => CreateTime[u] <= last'
    BY <1>0, <1>1, <2>1, <2>3
  <2>5. \A u \in Task : stage'[u] \in {"starting", "claimed"} <=> loop' = u
    BY <1>0, <1>1, <1>3, <2>1, <2>2
  <2> QED
    BY <2>4, <2>5 DEF CommandInv
<1>6. \A u \in Task : /\ Busy(u)' <=> Busy(u)
                      /\ Samples(u)' <=> Samples(u)
                      /\ stage'[u] = "sampling" <=> stage[u] = "sampling"
  BY <1>0, <1>2, <1>3 DEF Busy, Samples
<1>7. CpuInv' /\ RateInv'
  BY <1>0, <1>1, <1>6 DEF CpuInv, RateInv
<1> QED
  BY <1>4, <1>5, <1>7 DEF PInv

\* What a step that moves one task t does to the other tasks' stages
LEMMA OneStage ==
  ASSUME PInv, NEW t \in Task, NEW s, stage' = [stage EXCEPT ![t] = s]
  PROVE  /\ stage'[t] = s
         /\ \A u \in Task : u # t =>
              /\ stage'[u] = stage[u]
              /\ Busy(u)' <=> Busy(u)
              /\ Samples(u)' <=> Samples(u)
         /\ Busy(t)' <=> Event[t] = "cpu" /\ s \in {"claimed", "sampling", "stopped"}
         /\ Samples(t)' <=> s \in {"sampling", "stopped"}
<1>1. DOMAIN stage = Task
  BY DEF PInv, PprofTypeOK
<1> QED
  BY <1>1 DEF Busy, Samples

\* the part of the invariants that is about commands, for a step of the loop
\* or of a timer
LEMMA CommandKept ==
  ASSUME PInv, NEW t \in Task, NEW s, stage' = [stage EXCEPT ![t] = s],
         stage[t] # "none", last' = last,
         \/ s \in {"starting", "claimed"} /\ loop = t /\ loop' = loop
         \/ s \notin {"starting", "claimed"} /\ loop = t /\ loop' = NoTask
         \/ s \notin {"starting", "claimed"} /\ loop # t /\ loop' = loop
  PROVE  CommandInv'
<1>1. CommandInv /\ NoTask \notin Task
  BY PprofAssumption DEF PInv
<1>2. stage'[t] = s /\ \A u \in Task : u # t => stage'[u] = stage[u]
  BY OneStage
<1> QED
  BY <1>1, <1>2 DEF CommandInv

LEMMA ClaimCpuStep ==
  ASSUME PInv, NEW t \in Task, ClaimCpu(t)
  PROVE  PInv'
<1>0. /\ PprofTypeOK /\ CommandInv /\ CpuInv /\ RateInv
      /\ loop = t /\ stage[t] = "starting" /\ Event[t] = "cpu"
      /\ UNCHANGED <<link, last, cpu, rate, overlapped, upload, reached>>
  BY DEF ClaimCpu, PInv, uploadVars
<1>1. CASE flag
  <2>1. /\ stage' = [stage EXCEPT ![t] = "done"] /\ loop' = NoTask /\ flag' = flag
        /\ Report(t)
    BY <1>1 DEF ClaimCpu, Started
  <2>2. PprofTypeOK'
    BY <1>0, <2>1, ReportType DEF PprofTypeOK
  <2>3. CommandInv'
    BY <1>0, <2>1, CommandKept
  <2>4. CpuInv' /\ RateInv'
    BY <1>0, <2>1, OneStage DEF CpuInv, RateInv, Busy, Samples
  <2> QED
    BY <2>2, <2>3, <2>4 DEF PInv
<1>2. CASE ~flag
  <2>1. /\ stage' = [stage EXCEPT ![t] = "claimed"] /\ flag' = TRUE
        /\ UNCHANGED <<loop, sendCh, dropped>>
    BY <1>2 DEF ClaimCpu, resultVars
  <2>2. PprofTypeOK'
    BY <1>0, <2>1 DEF PprofTypeOK
  <2>3. CommandInv'
    BY <1>0, <2>1, CommandKept
  <2>4. CpuInv'
    <3>1. \A u \in Task : ~Busy(u)
      BY <1>0, <1>2 DEF CpuInv
    <3>2. Busy(t)' /\ \A u \in Task : Busy(u)' => u = t
      BY <1>0, <2>1, <3>1, OneStage
    <3>3. \A u \in Task : stage'[u] = "sampling" <=> stage[u] = "sampling"
      BY <1>0, <2>1, OneStage
    <3> QED
      BY <1>0, <2>1, <3>2, <3>3 DEF CpuInv
  <2>5. RateInv'
    <3>1. \A u \in Task : Samples(u)' <=> Samples(u)
      BY <1>0, <2>1, OneStage DEF Samples
    <3> QED
      BY <1>0, <3>1 DEF RateInv
  <2> QED
    BY <2>2, <2>3, <2>4, <2>5 DEF PInv
<1> QED
  BY <1>1, <1>2

\* StartFails, SampleDirectly: the task goes from its start to its result.
LEMMA StartFailsStep ==
  ASSUME PInv, NEW t \in Task, StartFails(t)
  PROVE  PInv'
<1>0. /\ PprofTypeOK /\ CommandInv /\ CpuInv /\ RateInv
      /\ loop = t /\ stage[t] = (IF Event[t] = "cpu" THEN "claimed" ELSE "starting")
      /\ stage' = [stage EXCEPT ![t] = "done"] /\ loop' = NoTask /\ Report(t)
      /\ flag' = (IF Event[t] = "cpu" THEN FALSE ELSE flag)
      /\ UNCHANGED <<link, last, cpu, rate, overlapped, upload, reached>>
  BY DEF StartFails, MayBegin, Started, PInv, uploadVars
<1>1. PprofTypeOK'
  BY <1>0, ReportType DEF PprofTypeOK
<1>2. CommandInv'
  BY <1>0, CommandKept
<1>3. ~Busy(t)' /\ stage'[t] # "sampling"
  BY <1>0, OneStage
<1>4. \A u \in Task : (Busy(u)' <=> Busy(u) /\ u # t)
                     /\ (stage'[u] = "sampling" <=> stage[u] = "sampling")
  BY <1>0, <1>3, OneStage
<1>5. CpuInv'
  <2>1. CASE Event[t] = "cpu"
    <3>1. Busy(t)
      BY <1>0, <2>1 DEF Busy
    <3>2. \A u \in Task : ~Busy(u)'
      BY <1>0, <1>4, <3>1 DEF CpuInv
    <3> QED
      BY <1>0, <1>4, <2>1, <3>2 DEF CpuInv
  <2>2. CASE Event[t] # "cpu"
    <3>1. \A u \in Task : Busy(u)' <=> Busy(u)
      BY <1>4, <2>2 DEF Busy
    <3> QED
      BY <1>0, <1>4, <2>2, <3>1 DEF CpuInv
  <2> QED
    BY <2>1, <2>2
<1>6. RateInv'
  <2>1. \A u \in Task : Samples(u)' <=> Samples(u)
    BY <1>0, OneStage DEF Samples
  <2> QED
    BY <1>0, <2>1 DEF RateInv
<1> QED
  BY <1>1, <1>2, <1>5, <1>6 DEF PInv

LEMMA SampleDirectlyStep ==
  ASSUME PInv, NEW t \in Task, SampleDirectly(t)
  PROVE  PInv'
<1>0. /\ PprofTypeOK /\ CommandInv /\ CpuInv /\ RateInv
      /\ loop = t /\ stage[t] = "starting" /\ Event[t] = "direct"
      /\ stage' = [stage EXCEPT ![t] = "done"] /\ loop' = NoTask /\ Report(t)
      /\ UNCHANGED <<link, last, flag, cpu, rate, overlapped, upload, reached>>
  BY DEF SampleDirectly, MayBegin, Started, PInv, uploadVars
<1>1. PprofTypeOK'
  BY <1>0, ReportType DEF PprofTypeOK
<1>2. CommandInv'
  BY <1>0, CommandKept
<1>3. \A u \in Task : /\ Busy(u)' <=> Busy(u)
                      /\ Samples(u)' <=> Samples(u)
                      /\ stage'[u] = "sampling" <=> stage[u] = "sampling"
  BY <1>0, OneStage DEF Busy, Samples
<1>4. CpuInv' /\ RateInv'
  BY <1>0, <1>3 DEF CpuInv, RateInv
<1> QED
  BY <1>1, <1>2, <1>4 DEF PInv

LEMMA StartCpuStep ==
  ASSUME PInv, NEW t \in Task, StartCpu(t)
  PROVE  PInv'
<1>0. /\ PprofTypeOK /\ CommandInv /\ CpuInv /\ RateInv
      /\ loop = t /\ stage[t] = "claimed" /\ Event[t] = "cpu" /\ cpu = Free /\ cpu' = t
      /\ stage' = [stage EXCEPT ![t] = "sampling"] /\ loop' = NoTask
      /\ UNCHANGED <<link, last, flag, rate, overlapped, sendCh, dropped, upload, reached>>
      /\ Free \notin Task
  BY PprofAssumption DEF StartCpu, MayBegin, Started, PInv, uploadVars, resultVars
<1>1. PprofTypeOK'
  BY <1>0 DEF PprofTypeOK
<1>2. CommandInv'
  BY <1>0, CommandKept
<1>3. CpuInv'
  <2>1. \A u \in Task : Busy(u)' <=> Busy(u)
    BY <1>0, OneStage DEF Busy
  <2>2. \A u \in Task : ~(Event[u] = "cpu" /\ stage[u] = "sampling")
    BY <1>0 DEF CpuInv
  <2>3. \A u \in Task : (Event[u] = "cpu" /\ stage'[u] = "sampling") <=> u = t
    BY <1>0, <2>2, OneStage
  <2> QED
    BY <1>0, <2>1, <2>3 DEF CpuInv
<1>4. RateInv'
  <2>1. \A u, v \in Task : Samples(u)' /\ Samples(v)' /\ Event[u] = Event[v] /\ u # v
                             => u \in overlapped
    <3> SUFFICES ASSUME NEW u \in Task, NEW v \in Task, Samples(u)', Samples(v)',
                        Event[u] = Event[v], u # v
                 PROVE  u \in overlapped
      OBVIOUS
    <3>1. CASE u # t /\ v # t
      BY <1>0, <3>1, OneStage DEF RateInv
    <3>2. \A w \in Task : w # t /\ Samples(w) => ~Busy(w) \/ w = t
      BY <1>0 DEF CpuInv, Busy
    <3>3. CASE u = t \/ v = t
      <4>1. PICK w \in {u, v} : w # t
        BY <3>3
      <4>2. Samples(w) /\ Event[w] = "cpu"
        BY <1>0, <3>3, <4>1, OneStage
      <4>3. Busy(w)
        BY <4>2 DEF Busy, Samples
      <4> QED
        BY <3>2, <4>1, <4>2, <4>3
    <3> QED
      BY <3>1, <3>3
  <2>2. \A u \in Task : Event[u] \in Rated => (Samples(u)' <=> Samples(u)) /\ u # t
    BY <1>0, OneStage DEF Rated
  <2> QED
    BY <1>0, <2>1, <2>2 DEF RateInv
<1> QED
  BY <1>1, <1>2, <1>3, <1>4 DEF PInv

LEMMA StartRatedStep ==
  ASSUME PInv, NEW t \in Task, StartRated(t)
  PROVE  PInv'
<1>0. /\ PprofTypeOK /\ CommandInv /\ CpuInv /\ RateInv
      /\ loop = t /\ stage[t] = "starting" /\ Event[t] \in Rated /\ Event[t] # "cpu"
      /\ rate' = [rate EXCEPT ![Event[t]] = DumpPeriod[t]]
      /\ overlapped' = (IF Sampling(Event[t]) = {} THEN overlapped
                        ELSE overlapped \cup Sampling(Event[t]) \cup {t})
      /\ stage' = [stage EXCEPT ![t] = "sampling"] /\ loop' = NoTask
      /\ UNCHANGED <<link, last, flag, cpu, sendCh, dropped, upload, reached>>
      /\ DumpPeriod[t] \in Nat
  BY PprofAssumption DEF StartRated, MayBegin, Started, PInv, uploadVars, resultVars, Rated
<1>1. PprofTypeOK'
  <2>1. Sampling(Event[t]) \subseteq Task
    BY DEF Sampling
  <2>2. overlapped' \subseteq Task
    BY <1>0, <2>1 DEF PprofTypeOK
  <2>3. rate' \in [Rated -> Nat]
    BY <1>0 DEF PprofTypeOK
  <2> QED
    BY <1>0, <2>2, <2>3 DEF PprofTypeOK
<1>2. CommandInv'
  BY <1>0, CommandKept
<1>3. CpuInv'
  <2>1. \A u \in Task : Busy(u)' <=> Busy(u)
    BY <1>0, OneStage DEF Busy
  <2>2. \A u \in Task : (Event[u] = "cpu" /\ stage'[u] = "sampling")
                         <=> (Event[u] = "cpu" /\ stage[u] = "sampling")
    BY <1>0, OneStage
  <2> QED
    BY <1>0, <2>1, <2>2 DEF CpuInv
<1>4. Sampling(Event[t]) = {u \in Task : Event[u] = Event[t] /\ Samples(u)}
  BY DEF Sampling, Samples
<1>5. Samples(t)' /\ ~Samples(t) /\ \A u \in Task : u # t => (Samples(u)' <=> Samples(u))
  BY <1>0, OneStage DEF Samples
<1>6. RateInv'
  <2>1. \A u, v \in Task : Samples(u)' /\ Samples(v)' /\ Event[u] = Event[v] /\ u # v
                             => u \in overlapped'
    <3> SUFFICES ASSUME NEW u \in Task, NEW v \in Task, Samples(u)', Samples(v)',
                        Event[u] = Event[v], u # v
                 PROVE  u \in overlapped'
      OBVIOUS
    <3>1. CASE u # t /\ v # t
      BY <1>0, <1>5, <3>1 DEF RateInv
    <3>2. CASE u = t
      <4>1. v \in Sampling(Event[t])
        BY <1>4, <1>5, <3>2
      <4> QED
        BY <1>0, <3>2, <4>1
    <3>3. CASE v = t
      <4>1. u \in Sampling(Event[t])
        BY <1>4, <1>5, <3>3
      <4> QED
        BY <1>0, <4>1
    <3> QED
      BY <3>1, <3>2, <3>3
  <2>2. \A e \in Rated : e # Event[t] => rate'[e] = rate[e]
    BY <1>0 DEF PprofTypeOK
  <2>3. rate'[Event[t]] = DumpPeriod[t]
    BY <1>0 DEF PprofTypeOK
  <2>4. ASSUME NEW e \in Rated, \A u \in Task : Event[u] = e => ~Samples(u)'
        PROVE  rate'[e] = 0
    <3>1. e # Event[t]
      BY <1>5, <2>4
    <3>2. \A u \in Task : Event[u] = e => ~Samples(u)
      BY <1>5, <2>4, <3>1
    <3> QED
      BY <1>0, <2>2, <3>1, <3>2 DEF RateInv
  <2>5. ASSUME NEW u \in Task, Event[u] \in Rated, Samples(u)', u \notin overlapped'
        PROVE  rate'[Event[u]] = DumpPeriod[u]
    <3>1. CASE u = t
      BY <2>3, <3>1
    <3>2. CASE u # t
      <4>1. Samples(u) /\ u \notin overlapped
        BY <1>0, <1>5, <2>5, <3>2
      <4>2. Event[u] # Event[t]
        BY <1>0, <1>4, <2>5, <4>1
      <4> QED
        BY <1>0, <2>2, <2>5, <4>1, <4>2 DEF RateInv
    <3> QED
      BY <3>1, <3>2
  <2> QED
    BY <2>1, <2>4, <2>5 DEF RateInv
<1> QED
  BY <1>1, <1>2, <1>3, <1>6 DEF PInv

LEMMA StopSamplingStep ==
  ASSUME PInv, NEW t \in Task, StopSampling(t)
  PROVE  PInv'
<1>0. /\ PprofTypeOK /\ CommandInv /\ CpuInv /\ RateInv
      /\ stage[t] = "sampling" /\ stage' = [stage EXCEPT ![t] = "stopped"]
      /\ cpu' = (IF Event[t] = "cpu" THEN Free ELSE cpu)
      /\ UNCHANGED <<link, last, loop, flag, rate, overlapped, sendCh, dropped, upload, reached>>
      /\ Free \notin Task
  BY PprofAssumption DEF StopSampling, PInv, uploadVars, resultVars
<1>1. loop # t
  BY <1>0 DEF CommandInv
<1>2. PprofTypeOK'
  BY <1>0 DEF PprofTypeOK
<1>3. CommandInv'
  BY <1>0, <1>1, CommandKept
<1>4. CpuInv'
  <2>1. \A u \in Task : Busy(u)' <=> Busy(u)
    BY <1>0, OneStage DEF Busy
  <2>2. \A u \in Task : stage'[u] = "sampling" <=> stage[u] = "sampling" /\ u # t
    BY <1>0, OneStage
  <2>3. \A u \in Task : (Event[u] = "cpu" /\ stage'[u] = "sampling") <=> cpu' = u
    <3>1. CASE Event[t] = "cpu"
      BY <1>0, <2>2, <3>1 DEF CpuInv
    <3>2. CASE Event[t] # "cpu"
      BY <1>0, <2>2, <3>2 DEF CpuInv
    <3> QED
      BY <3>1, <3>2
  <2> QED
    BY <1>0, <2>1, <2>3 DEF CpuInv
<1>5. \A u \in Task : Samples(u)' <=> Samples(u)
  BY <1>0, OneStage DEF Samples
<1>6. RateInv'
  BY <1>0, <1>5 DEF RateInv
<1> QED
  BY <1>2, <1>3, <1>4, <1>6 DEF PInv

LEMMA ResetSharedStep ==
  ASSUME PInv, NEW t \in Task, ResetShared(t)
  PROVE  PInv'
<1>0. /\ PprofTypeOK /\ CommandInv /\ CpuInv /\ RateInv
      /\ stage[t] = "stopped" /\ stage' = [stage EXCEPT ![t] = "reset"]
      /\ flag' = (IF Event[t] = "cpu" THEN FALSE ELSE flag)
      /\ rate' = (IF Event[t] \in Rated THEN [rate EXCEPT ![Event[t]] = 0] ELSE rate)
      /\ UNCHANGED <<link, last, loop, cpu, overlapped, sendCh, dropped, upload, reached>>
  BY DEF ResetShared, PInv, uploadVars, resultVars
<1>1. loop # t
  BY <1>0 DEF CommandInv
<1>2. PprofTypeOK'
  <2>1. rate' \in [Rated -> Nat]
    BY <1>0 DEF PprofTypeOK
  <2> QED
    BY <1>0, <2>1 DEF PprofTypeOK
<1>3. CommandInv'
  BY <1>0, <1>1, CommandKept
<1>4. CpuInv'
  <2>1. \A u \in Task : (Busy(u)' <=> Busy(u) /\ u # t)
                        /\ (stage'[u] = "sampling" <=> stage[u] = "sampling")
    BY <1>0, OneStage
  <2>2. CASE Event[t] = "cpu"
    <3>1. Busy(t)
      BY <1>0, <2>2 DEF Busy
    <3>2. \A u \in Task : ~Busy(u)'
      BY <1>0, <2>1, <3>1 DEF CpuInv
    <3> QED
      BY <1>0, <2>1, <2>2, <3>2 DEF CpuInv
  <2>3. CASE Event[t] # "cpu"
    <3>1. \A u \in Task : Busy(u)' <=> Busy(u)
      BY <2>1, <2>3 DEF Busy
    <3> QED
      BY <1>0, <2>1, <2>3, <3>1 DEF CpuInv
  <2> QED
    BY <2>2, <2>3
<1>5. Samples(t) /\ \A u \in Task : Samples(u)' <=> Samples(u) /\ u # t
  <2>1. Samples(t)
    BY <1>0 DEF Samples
  <2>2. ~Samples(t)' /\ \A u \in Task : u # t => (Samples(u)' <=> Samples(u))
    BY <1>0, OneStage
  <2> QED
    BY <2>1, <2>2
<1>6. \A e \in Rated : rate'[e] = IF e = Event[t] THEN 0 ELSE rate[e]
  BY <1>0 DEF PprofTypeOK
<1>7. RateInv'
  <2>1. \A u, v \in Task : Samples(u)' /\ Samples(v)' /\ Event[u] = Event[v] /\ u # v
                             => u \in overlapped'
    BY <1>0, <1>5 DEF RateInv
  <2>2. ASSUME NEW e \in Rated, \A u \in Task : Event[u] = e => ~Samples(u)'
        PROVE  rate'[e] = 0
    <3>1. CASE e = Event[t]
      BY <1>6, <3>1
    <3>2. CASE e # Event[t]
      <4>1. \A u \in Task : Event[u] = e => ~Samples(u)
        BY <1>5, <2>2, <3>2
      <4> QED
        BY <1>0, <1>6, <3>2, <4>1 DEF RateInv
    <3> QED
      BY <3>1, <3>2
  <2>3. ASSUME NEW u \in Task, Event[u] \in Rated, Samples(u)', u \notin overlapped'
        PROVE  rate'[Event[u]] = DumpPeriod[u]
    <3>1. Samples(u) /\ u # t /\ u \notin overlapped
      BY <1>0, <1>5, <2>3
    <3>2. Event[u] # Event[t]
      BY <1>0, <1>5, <3>1 DEF RateInv
    <3> QED
      BY <1>0, <1>6, <2>3, <3>1, <3>2 DEF RateInv
  <2> QED
    BY <2>1, <2>2, <2>3 DEF RateInv
<1> QED
  BY <1>2, <1>3, <1>4, <1>7 DEF PInv

LEMMA ReportResultStep ==
  ASSUME PInv, NEW t \in Task, ReportResult(t)
  PROVE  PInv'
<1>0. /\ PprofTypeOK /\ CommandInv /\ CpuInv /\ RateInv
      /\ stage[t] = "reset" /\ stage' = [stage EXCEPT ![t] = "done"] /\ Report(t)
      /\ UNCHANGED <<link, last, loop, flag, cpu, rate, overlapped, upload, reached>>
  BY DEF ReportResult, PInv, uploadVars
<1>1. loop # t
  BY <1>0 DEF CommandInv
<1>2. PprofTypeOK'
  BY <1>0, ReportType DEF PprofTypeOK
<1>3. CommandInv'
  BY <1>0, <1>1, CommandKept
<1>4. \A u \in Task : /\ Busy(u)' <=> Busy(u)
                      /\ Samples(u)' <=> Samples(u)
                      /\ stage'[u] = "sampling" <=> stage[u] = "sampling"
  BY <1>0, OneStage DEF Busy, Samples
<1>5. CpuInv' /\ RateInv'
  BY <1>0, <1>4 DEF CpuInv, RateInv
<1> QED
  BY <1>2, <1>3, <1>5 DEF PInv

LEMMA CountedUp ==
  ASSUME NEW f \in [Task -> Nat], NEW x
  PROVE  [f EXCEPT ![x] = f[x] + 1] \in [Task -> Nat]
<1>1. CASE x \in Task
  <2>1. f[x] + 1 \in Nat
    BY <1>1
  <2> QED
    BY <2>1
<1>2. CASE x \notin Task
  BY <1>2
<1> QED
  BY <1>1, <1>2

LEMMA UploadStepKeeps ==
  ASSUME PInv, UploadStep
  PROVE  PInv'
<1>0. /\ PprofTypeOK /\ CommandInv /\ CpuInv /\ RateInv
      /\ UNCHANGED <<link, last, loop, flag, cpu, rate, stage, overlapped>>
  BY DEF UploadStep, UploadBegins, UploadTakes, UploadSucceeds, UploadFails, PInv, sampleVars
<1>1. CommandInv' /\ CpuInv' /\ RateInv'
  BY <1>0, PprofFrames
<1>2. /\ sendCh \in Seq(Task) /\ Len(sendCh) <= SendCap
      /\ upload \in [pc : {"check", "range", "upload", Ended}, task : Task \cup {NoTask}]
      /\ reached \in [Task -> Nat] /\ dropped \in [Task -> Nat] /\ SendCap \in Nat
  BY <1>0, PprofAssumption DEF PprofTypeOK
<1>3. ASSUME /\ sendCh' \in Seq(Task) /\ Len(sendCh') <= SendCap
             /\ upload' \in [pc : {"check", "range", "upload", Ended}, task : Task \cup {NoTask}]
             /\ reached' \in [Task -> Nat] /\ dropped' \in [Task -> Nat]
      PROVE  PprofTypeOK'
  BY <1>0, <1>3 DEF PprofTypeOK
<1>4. CASE UploadBegins
  <2>1. /\ UNCHANGED <<sendCh, reached, dropped>>
        /\ upload' = [upload EXCEPT !.pc = IF link = "shutdown" THEN Ended ELSE "range"]
    BY <1>4 DEF UploadBegins, resultVars
  <2> QED
    BY <1>1, <1>2, <1>3, <2>1 DEF PInv
<1>5. CASE UploadTakes
  <2>1. /\ sendCh # <<>> /\ sendCh' = Tail(sendCh) /\ UNCHANGED <<reached, dropped>>
        /\ upload' = [pc |-> "upload", task |-> Head(sendCh)]
    BY <1>5 DEF UploadTakes
  <2>2. /\ Tail(sendCh) \in Seq(Task) /\ Len(Tail(sendCh)) = Len(sendCh) - 1
        /\ Head(sendCh) \in Task
    BY <1>2, <2>1
  <2>3. Len(sendCh') <= SendCap
    BY <1>2, <2>1, <2>2
  <2> QED
    BY <1>1, <1>2, <1>3, <2>1, <2>2, <2>3 DEF PInv
<1>6. CASE UploadSucceeds \/ UploadFails
  <2>1. upload.pc = "upload" /\ sendCh' = sendCh /\ upload' = [pc |-> "range", task |-> NoTask]
    BY <1>6 DEF UploadSucceeds, UploadFails, resultVars
  <2>2. /\ reached' = reached \/ reached' = [reached EXCEPT ![upload.task] = reached[upload.task] + 1]
        /\ dropped' = dropped \/ dropped' = [dropped EXCEPT ![upload.task] = dropped[upload.task] + 1]
    BY <1>6 DEF UploadSucceeds, UploadFails, resultVars
  <2>3. reached' \in [Task -> Nat] /\ dropped' \in [Task -> Nat]
    <3>1. /\ [reached EXCEPT ![upload.task] = reached[upload.task] + 1] \in [Task -> Nat]
          /\ [dropped EXCEPT ![upload.task] = dropped[upload.task] + 1] \in [Task -> Nat]
      BY <1>2, CountedUp
    <3> QED
      BY <1>2, <2>2, <3>1
  <2> QED
    BY <1>1, <1>2, <1>3, <2>1, <2>3 DEF PInv
<1> QED
  BY <1>4, <1>5, <1>6 DEF UploadStep

LEMMA PprofStepInv == PInv /\ [PprofNext]_pprofVars => PInv'
<1> SUFFICES ASSUME PInv, [PprofNext]_pprofVars PROVE PInv'
  OBVIOUS
<1>1. ASSUME NEW t \in Task, LoopStep(t) PROVE PInv'
  BY <1>1, HandleCommandStep, ClaimCpuStep, StartFailsStep, StartCpuStep, StartRatedStep,
     SampleDirectlyStep DEF LoopStep
<1>2. ASSUME NEW t \in Task, TimerStep(t) PROVE PInv'
  BY <1>2, StopSamplingStep, ResetSharedStep, ReportResultStep DEF TimerStep
<1>3. CASE LoopEnds
  <2>1. /\ PprofTypeOK /\ CommandInv /\ CpuInv /\ RateInv
        /\ loop = NoTask /\ loop' = Ended
        /\ UNCHANGED <<link, last, flag, cpu, rate, stage, overlapped, sendCh, dropped,
                       upload, reached>>
    BY <1>3 DEF LoopEnds, PInv, sampleVars, resultVars, uploadVars
  <2>2. CommandInv'
    BY <2>1, PprofAssumption DEF CommandInv
  <2>3. PprofTypeOK'
    BY <2>1 DEF PprofTypeOK
  <2> QED
    BY <2>1, <2>2, <2>3, PprofFrames DEF PInv
<1>4. CASE UploadStep
  BY <1>4, UploadStepKeeps
<1>5. CASE OthersProfile
  <2>1. /\ PprofTypeOK /\ CommandInv /\ CpuInv /\ RateInv
        /\ cpu \in {Free, Other} /\ cpu' \in {Free, Other}
        /\ UNCHANGED <<link, last, loop, flag, rate, stage, overlapped, sendCh, dropped,
                       upload, reached>>
    BY <1>5 DEF OthersProfile, PInv, resultVars, uploadVars
  <2>2. CpuInv'
    <3>1. \A t \in Task : Busy(t)' <=> Busy(t)
      BY <2>1 DEF Busy
    <3>2. \A t \in Task : cpu # t /\ cpu' # t
      BY <2>1, PprofAssumption
    <3> QED
      BY <2>1, <3>1, <3>2 DEF CpuInv
  <2>3. PprofTypeOK'
    BY <2>1 DEF PprofTypeOK
  <2> QED
    BY <2>1, <2>2, <2>3, PprofFrames DEF PInv
<1>6. CASE LinkChanges
  <2>1. /\ PprofTypeOK /\ CommandInv /\ CpuInv /\ RateInv
        /\ link' \in {"connected", "disconnect", "shutdown"}
        /\ UNCHANGED <<last, loop, flag, cpu, rate, stage, overlapped, sendCh, dropped,
                       upload, reached>>
    BY <1>6 DEF LinkChanges, PInv, sampleVars, resultVars, uploadVars
  <2>2. PprofTypeOK'
    BY <2>1 DEF PprofTypeOK
  <2> QED
    BY <2>1, <2>2, PprofFrames DEF PInv
<1>7. CASE UNCHANGED pprofVars
  <2>1. /\ PprofTypeOK /\ CommandInv /\ CpuInv /\ RateInv
        /\ UNCHANGED <<link, last, loop, flag, cpu, rate, stage, overlapped, sendCh, dropped,
                       upload, reached>>
    BY <1>7 DEF pprofVars, PInv, sampleVars, resultVars, uploadVars
  <2>2. PprofTypeOK'
    BY <2>1 DEF PprofTypeOK
  <2> QED
    BY <2>1, <2>2, PprofFrames DEF PInv
<1> QED
  BY <1>1, <1>2, <1>3, <1>4, <1>5, <1>6, <1>7 DEF PprofNext

LEMMA PprofSafe == PprofSpec => []PInv
BY PprofInitInv, PprofStepInv, PTL DEF PprofSpec

LEMMA CpuIsOne == PInv => OneCpuTask
BY DEF PInv, CpuInv, OneCpuTask, Busy

LEMMA RatesFollow == PInv => RatesFollowTasks
<1> SUFFICES ASSUME PInv PROVE RatesFollowTasks
  OBVIOUS
<1>1. RateInv
  BY DEF PInv
<1>2. \A e \in Rated : Sampling(e) = {t \in Task : Event[t] = e /\ Samples(t)}
  BY DEF Sampling, Samples
<1> QED
  BY <1>1, <1>2 DEF RateInv, RatesFollowTasks

\* Every variable keeps its type; the queue of results its bound.
THEOREM PprofTypeCorrect == PprofSpec => []PprofTypeOK
<1>1. PInv => PprofTypeOK
  BY DEF PInv
<1> QED
  BY PprofSafe, <1>1, PTL

\* One CPU profile at a time, started and stopped by the task that claimed it
\* (pprof.go:152-185): the flag is never lost, nor left set by a failed start.
THEOREM PprofOneCpuTask == PprofSpec => []OneCpuTask
BY PprofSafe, CpuIsOne, PTL

\* No sampling rate of the process outlives the tasks that set it, and a task
\* alone of its event keeps its own to the end (pprof.go:153-210).
THEOREM PprofRatesFollowTasks == PprofSpec => []RatesFollowTasks
BY PprofSafe, RatesFollow, PTL
-----------------------------------------------------------------------------
(* One result for each command *)

Hits(s, t) == {i \in DOMAIN s : s[i] = t}
One(b) == IF b THEN 1 ELSE 0

LEMMA HitsFinite ==
  ASSUME NEW s \in Seq(Task), NEW t
  PROVE  IsFiniteSet(Hits(s, t)) /\ Cardinality(Hits(s, t)) \in Nat
<1>1. DOMAIN s = 1..Len(s) /\ Len(s) \in Nat
  OBVIOUS
<1>2. IsFiniteSet(1..Len(s))
  BY <1>1, FS_Interval
<1>3. IsFiniteSet(Hits(s, t))
  BY <1>1, <1>2, FS_Subset DEF Hits
<1> QED
  BY <1>3, FS_CardinalityType

LEMMA HitsAppend ==
  ASSUME NEW s \in Seq(Task), NEW u \in Task, NEW t
  PROVE  Cardinality(Hits(Append(s, u), t)) = Cardinality(Hits(s, t)) + One(u = t)
<1>1. /\ DOMAIN s = 1..Len(s) /\ Len(s) \in Nat /\ Len(s) + 1 \notin Hits(s, t)
      /\ DOMAIN Append(s, u) = 1..(Len(s) + 1)
      /\ Append(s, u)[Len(s) + 1] = u
      /\ \A i \in 1..Len(s) : Append(s, u)[i] = s[i]
  BY DEF Hits
<1>2. Hits(Append(s, u), t) = Hits(s, t) \cup (IF u = t THEN {Len(s) + 1} ELSE {})
  <2>1. ASSUME NEW i
        PROVE  i \in Hits(Append(s, u), t)
               <=> i \in Hits(s, t) \cup (IF u = t THEN {Len(s) + 1} ELSE {})
    <3>1. i \in 1..(Len(s) + 1) <=> i \in 1..Len(s) \/ i = Len(s) + 1
      BY <1>1
    <3>2. CASE i = Len(s) + 1
      BY <1>1, <3>1, <3>2 DEF Hits
    <3>3. CASE i # Len(s) + 1
      BY <1>1, <3>1, <3>3 DEF Hits
    <3> QED
      BY <3>2, <3>3
  <2> QED
    BY <2>1
<1>3. IsFiniteSet(Hits(s, t)) /\ Cardinality(Hits(s, t)) \in Nat
  BY HitsFinite
<1>4. CASE u = t
  <2>1. Hits(Append(s, u), t) = Hits(s, t) \cup {Len(s) + 1}
    BY <1>2, <1>4
  <2>2. Cardinality(Hits(s, t) \cup {Len(s) + 1}) = Cardinality(Hits(s, t)) + 1
    BY <1>1, <1>3, FS_AddElement
  <2> QED
    BY <1>4, <2>1, <2>2 DEF One
<1>5. CASE u # t
  <2>1. Hits(Append(s, u), t) = Hits(s, t)
    BY <1>2, <1>5
  <2> QED
    BY <1>3, <1>5, <2>1 DEF One
<1> QED
  BY <1>4, <1>5

LEMMA HitsTail ==
  ASSUME NEW s \in Seq(Task), s # <<>>, NEW t
  PROVE  Cardinality(Hits(s, t)) = Cardinality(Hits(Tail(s), t)) + One(Head(s) = t)
<1>1. /\ DOMAIN s = 1..Len(s) /\ Len(s) \in Nat \ {0} /\ Head(s) = s[1]
      /\ Tail(s) \in Seq(Task) /\ DOMAIN Tail(s) = 1..(Len(s) - 1)
      /\ \A i \in 1..(Len(s) - 1) : Tail(s)[i] = s[i + 1]
  OBVIOUS
<1> DEFINE T == Hits(Tail(s), t)
           R == Hits(s, t) \ {1}
           f == [i \in T |-> i + 1]
<1>2. T \subseteq 1..(Len(s) - 1) /\ R \subseteq 2..Len(s)
  BY <1>1 DEF Hits
<1>3. f \in [T -> R]
  <2>1. \A i \in T : i + 1 \in R
    BY <1>1, <1>2 DEF Hits
  <2> QED
    BY <2>1
<1>4. \A i, j \in T : f[i] = f[j] => i = j
  BY <1>2
<1>5. \A k \in R : \E i \in T : f[i] = k
  <2> SUFFICES ASSUME NEW k \in R PROVE \E i \in T : f[i] = k
    OBVIOUS
  <2>1. k - 1 \in 1..(Len(s) - 1) /\ s[k] = t /\ (k - 1) + 1 = k
    BY <1>1, <1>2 DEF Hits
  <2>2. Tail(s)[k - 1] = s[(k - 1) + 1]
    BY <1>1, <2>1
  <2>3. k - 1 \in T
    BY <1>1, <2>1, <2>2 DEF Hits
  <2>4. f[k - 1] = k
    BY <2>1, <2>3
  <2> QED
    BY <2>3, <2>4
<1>6. f \in Bijection(T, R)
  BY <1>3, <1>4, <1>5 DEF Bijection, Injection, Surjection, IsInjective
<1>7. ExistsBijection(T, R)
  BY <1>6 DEF ExistsBijection
<1>8. IsFiniteSet(T) /\ IsFiniteSet(Hits(s, t)) /\ Cardinality(T) \in Nat
      /\ Cardinality(Hits(s, t)) \in Nat
  BY <1>1, HitsFinite
<1>9. Cardinality(R) = Cardinality(T)
  BY <1>7, <1>8, FS_Bijection
<1>10. Cardinality(R) = IF 1 \in Hits(s, t) THEN Cardinality(Hits(s, t)) - 1
                        ELSE Cardinality(Hits(s, t))
  BY <1>8, FS_RemoveElement
<1>11. 1 \in Hits(s, t) <=> Head(s) = t
  BY <1>1 DEF Hits
<1> QED
  BY <1>8, <1>9, <1>10, <1>11 DEF One

\* The results of a task, wherever they are
Results(t) == InQueue(t) + One(upload.task = t) + reached[t] + dropped[t]

ResultInv ==
  /\ upload.pc = "upload" <=> upload.task # NoTask
  /\ \A t \in Task : Results(t) = One(stage[t] = "done")

LEMMA QueueCounts ==
  ASSUME PprofTypeOK
  PROVE  /\ \A t : InQueue(t) = Cardinality(Hits(sendCh, t)) /\ InQueue(t) \in Nat
         /\ \A t \in Task : reached[t] \in Nat /\ dropped[t] \in Nat
<1>1. sendCh \in Seq(Task) /\ reached \in [Task -> Nat] /\ dropped \in [Task -> Nat]
  BY DEF PprofTypeOK
<1>2. \A t : InQueue(t) = Cardinality(Hits(sendCh, t))
  BY DEF InQueue, Hits
<1>3. \A t : Cardinality(Hits(sendCh, t)) \in Nat
  BY <1>1, HitsFinite
<1> QED
  BY <1>1, <1>2, <1>3

LEMMA ReportAdds ==
  ASSUME PprofTypeOK, NEW t \in Task, Report(t), NEW u \in Task
  PROVE  InQueue(u)' + dropped'[u] = InQueue(u) + dropped[u] + One(u = t)
<1>1. /\ sendCh \in Seq(Task) /\ dropped \in [Task -> Nat] /\ dropped[u] \in Nat
      /\ InQueue(u) \in Nat /\ InQueue(u) = Cardinality(Hits(sendCh, u))
      /\ InQueue(u)' = Cardinality(Hits(sendCh', u))
  BY QueueCounts DEF PprofTypeOK, InQueue, Hits
<1>2. CASE Len(sendCh) < SendCap
  <2>1. sendCh' = Append(sendCh, t) /\ dropped' = dropped
    BY <1>2 DEF Report
  <2>2. Cardinality(Hits(Append(sendCh, t), u)) = Cardinality(Hits(sendCh, u)) + One(t = u)
    BY <1>1, HitsAppend
  <2> QED
    BY <1>1, <2>1, <2>2 DEF One
<1>3. CASE ~(Len(sendCh) < SendCap)
  <2>1. sendCh' = sendCh /\ dropped' = [dropped EXCEPT ![t] = dropped[t] + 1]
    BY <1>3 DEF Report
  <2>2. dropped'[u] = dropped[u] + One(u = t)
    BY <1>1, <2>1 DEF One
  <2>3. InQueue(u)' = InQueue(u)
    BY <1>1, <2>1
  <2> QED
    BY <1>1, <2>2, <2>3 DEF One
<1> QED
  BY <1>2, <1>3

\* A step that sends a result finishes its task.
LEMMA DoneOnce ==
  ASSUME PprofTypeOK, ResultInv, NEW t \in Task, Report(t), stage[t] # "done",
         stage' = [stage EXCEPT ![t] = "done"], UNCHANGED <<upload, reached>>
  PROVE  ResultInv'
<1>1. stage'[t] = "done" /\ \A u \in Task : u # t => stage'[u] = stage[u]
  BY DEF PprofTypeOK
<1>2. ASSUME NEW u \in Task PROVE Results(u)' = One(stage'[u] = "done")
  <2>1. Results(u) = One(stage[u] = "done")
    BY DEF ResultInv
  <2>2. InQueue(u)' + dropped'[u] = InQueue(u) + dropped[u] + One(u = t)
    BY ReportAdds
  <2>3. /\ InQueue(u) \in Nat /\ reached[u] \in Nat /\ dropped[u] \in Nat
        /\ InQueue(u)' \in Nat /\ dropped'[u] \in Nat
    <3>1. dropped'[u] \in Nat /\ sendCh' \in Seq(Task)
      BY ReportType
    <3>2. Cardinality(Hits(sendCh', u)) \in Nat
      BY <3>1, HitsFinite
    <3> QED
      BY <3>1, <3>2, QueueCounts DEF InQueue, Hits
  <2>4. One(stage'[u] = "done") = One(stage[u] = "done") + One(u = t)
    BY <1>1 DEF One
  <2>5. One(upload.task = u) \in Nat /\ One(u = t) \in Nat
    BY DEF One
  <2>6. Results(u)' = InQueue(u)' + One(upload.task = u) + reached[u] + dropped'[u]
    BY DEF Results
  <2>7. Results(u)' = Results(u) + One(u = t)
    BY <2>2, <2>3, <2>5, <2>6 DEF Results
  <2> QED
    BY <2>1, <2>4, <2>7
<1> QED
  BY <1>2 DEF ResultInv

LEMMA ResultsKept ==
  ASSUME ResultInv, UNCHANGED <<sendCh, upload, reached, dropped>>,
         \A u \in Task : stage'[u] = "done" <=> stage[u] = "done"
  PROVE  ResultInv'
<1>1. \A u \in Task : Results(u)' = Results(u)
  BY DEF Results, InQueue
<1>2. \A u \in Task : One(stage'[u] = "done") = One(stage[u] = "done")
  BY DEF One
<1> QED
  BY <1>1, <1>2 DEF ResultInv

LEMMA UploadResults ==
  ASSUME PprofTypeOK, ResultInv, UploadStep
  PROVE  ResultInv'
<1>1. /\ sendCh \in Seq(Task) /\ NoTask \notin Task
      /\ upload \in [pc : {"check", "range", "upload", Ended}, task : Task \cup {NoTask}]
      /\ reached \in [Task -> Nat] /\ dropped \in [Task -> Nat]
      /\ upload.pc = "upload" <=> upload.task # NoTask
      /\ \A t \in Task : Results(t) = One(stage[t] = "done")
  BY PprofAssumption DEF PprofTypeOK, ResultInv
<1>2. stage' = stage
  BY DEF UploadStep, UploadBegins, UploadTakes, UploadSucceeds, UploadFails, sampleVars
<1>3. CASE UploadBegins
  <2>1. /\ UNCHANGED <<sendCh, reached, dropped>> /\ upload.pc = "check"
        /\ upload' = [upload EXCEPT !.pc = IF link = "shutdown" THEN Ended ELSE "range"]
    BY <1>3 DEF UploadBegins, resultVars
  <2>2. upload'.task = upload.task /\ upload.task = NoTask /\ upload'.pc \in {Ended, "range"}
    BY <1>1, <2>1
  <2>3. \A t \in Task : Results(t)' = Results(t)
    BY <2>1, <2>2 DEF Results, InQueue
  <2>4. upload'.pc # "upload"
    BY <2>2 DEF Ended
  <2> QED
    BY <1>1, <1>2, <2>2, <2>3, <2>4 DEF ResultInv
<1>4. CASE UploadTakes
  <2>1. /\ sendCh # <<>> /\ sendCh' = Tail(sendCh) /\ UNCHANGED <<reached, dropped>>
        /\ upload.pc = "range" /\ upload'.pc = "upload" /\ upload'.task = Head(sendCh)
    BY <1>4 DEF UploadTakes
  <2>2. upload.task = NoTask /\ Head(sendCh) \in Task
    BY <1>1, <2>1
  <2>3. ASSUME NEW t \in Task PROVE Results(t)' = Results(t)
    <3>1. Cardinality(Hits(sendCh, t)) = Cardinality(Hits(Tail(sendCh), t)) + One(Head(sendCh) = t)
      BY <1>1, <2>1, HitsTail
    <3>2. /\ InQueue(t) = Cardinality(Hits(sendCh, t))
          /\ InQueue(t)' = Cardinality(Hits(Tail(sendCh), t))
      BY <2>1 DEF InQueue, Hits
    <3>3. Cardinality(Hits(sendCh, t)) \in Nat /\ Cardinality(Hits(Tail(sendCh), t)) \in Nat
      <4>1. sendCh \in Seq(Task) /\ Tail(sendCh) \in Seq(Task)
        BY <1>1, <2>1
      <4>2. Cardinality(Hits(sendCh, t)) \in Nat
        BY <4>1, HitsFinite
      <4>3. Cardinality(Hits(Tail(sendCh), t)) \in Nat
        BY <4>1, HitsFinite
      <4> QED
        BY <4>2, <4>3
    <3>4. One(upload.task = t) = 0 /\ One(upload'.task = t) = One(Head(sendCh) = t)
          /\ One(Head(sendCh) = t) \in Nat
      BY <1>1, <2>1, <2>2 DEF One
    <3>5. reached[t] \in Nat /\ dropped[t] \in Nat
      BY <1>1
    <3>6. Results(t)' = InQueue(t)' + One(upload'.task = t) + reached[t] + dropped[t]
      BY <2>1 DEF Results
    <3> QED
      BY <3>1, <3>2, <3>3, <3>4, <3>5, <3>6 DEF Results
  <2> QED
    BY <1>1, <1>2, <2>1, <2>2, <2>3 DEF ResultInv
<1>5. CASE UploadSucceeds \/ UploadFails
  <2>1. /\ upload.pc = "upload" /\ sendCh' = sendCh
        /\ upload'.pc = "range" /\ upload'.task = NoTask
        /\ \/ /\ reached' = [reached EXCEPT ![upload.task] = reached[upload.task] + 1]
              /\ dropped' = dropped
           \/ /\ dropped' = [dropped EXCEPT ![upload.task] = dropped[upload.task] + 1]
              /\ reached' = reached
    BY <1>5 DEF UploadSucceeds, UploadFails, resultVars
  <2>2. upload.task \in Task
    BY <1>1, <2>1
  <2>3. ASSUME NEW t \in Task PROVE Results(t)' = Results(t)
    <3>1. reached[t] \in Nat /\ dropped[t] \in Nat
      BY <1>1
    <3>2. reached'[t] + dropped'[t] = reached[t] + dropped[t] + One(upload.task = t)
          /\ reached'[t] \in Nat /\ dropped'[t] \in Nat
      BY <1>1, <2>1, <2>2, <3>1 DEF One
    <3>3. InQueue(t)' = InQueue(t) /\ InQueue(t) \in Nat
      BY <2>1, QueueCounts DEF InQueue
    <3>4. One(upload'.task = t) = 0 /\ One(upload.task = t) \in Nat
      BY <1>1, <2>1 DEF One
    <3>5. Results(t)' = InQueue(t)' + One(upload'.task = t) + reached'[t] + dropped'[t]
      BY DEF Results
    <3> QED
      BY <3>1, <3>2, <3>3, <3>4, <3>5 DEF Results
  <2> QED
    BY <1>1, <1>2, <2>1, <2>3 DEF ResultInv
<1> QED
  BY <1>3, <1>4, <1>5 DEF UploadStep

LEMMA LoopResults ==
  ASSUME PInv, ResultInv, NEW t \in Task, LoopStep(t) \/ TimerStep(t)
  PROVE  ResultInv'
<1>1. PprofTypeOK /\ CommandInv /\ DOMAIN stage = Task /\ NoTask \notin Task
      /\ CreateTime[t] \in Nat
  BY PprofAssumption DEF PInv, PprofTypeOK
<1>2. CASE HandleCommand(t)
  <2>1. CreateTime[t] > last /\ last \in Nat
    BY <1>1, <1>2 DEF HandleCommand, IsNew, PprofTypeOK
  <2>2. stage[t] = "none"
    BY <1>1, <2>1 DEF CommandInv
  <2>3. /\ UNCHANGED <<sendCh, upload, reached, dropped>>
        /\ \/ stage' = [stage EXCEPT ![t] = "starting"]
           \/ stage' = [stage EXCEPT ![t] = "rejected"]
    BY <1>2 DEF HandleCommand, resultVars, uploadVars
  <2>4. \A u \in Task : stage'[u] = "done" <=> stage[u] = "done"
    BY <1>1, <2>2, <2>3
  <2> QED
    BY <2>3, <2>4, ResultsKept
<1>3. CASE \/ ClaimCpu(t) /\ ~flag
           \/ StartCpu(t) \/ StartRated(t) \/ StopSampling(t) \/ ResetShared(t)
  <2>1. /\ UNCHANGED <<sendCh, upload, reached, dropped>> /\ stage[t] # "done"
        /\ \E s \in {"claimed", "sampling", "stopped", "reset"} :
             stage' = [stage EXCEPT ![t] = s]
    BY <1>3 DEF ClaimCpu, StartCpu, StartRated, StopSampling, ResetShared, MayBegin, Started,
                resultVars, uploadVars
  <2>2. \A u \in Task : stage'[u] = "done" <=> stage[u] = "done"
    BY <1>1, <2>1
  <2> QED
    BY <2>1, <2>2, ResultsKept
<1>4. CASE \/ ClaimCpu(t) /\ flag
           \/ StartFails(t) \/ SampleDirectly(t) \/ ReportResult(t)
  <2>1. /\ Report(t) /\ stage[t] # "done" /\ UNCHANGED <<upload, reached>>
        /\ stage' = [stage EXCEPT ![t] = "done"]
    BY <1>4 DEF ClaimCpu, StartFails, SampleDirectly, ReportResult, MayBegin, Started, uploadVars
  <2> QED
    BY <1>1, <2>1, DoneOnce
<1> QED
  BY <1>2, <1>3, <1>4 DEF LoopStep, TimerStep

LEMMA ResultSafe == PprofSpec => []ResultInv
<1>1. PprofInit => ResultInv
  <2> SUFFICES ASSUME PprofInit PROVE ResultInv
    OBVIOUS
  <2>1. /\ sendCh = <<>> /\ upload = [pc |-> "check", task |-> NoTask] /\ NoTask \notin Task
        /\ \A t \in Task : reached[t] = 0 /\ dropped[t] = 0 /\ stage[t] = "none"
    BY PprofAssumption DEF PprofInit
  <2>2. \A t : InQueue(t) = 0
    <3>1. \A t : {i \in DOMAIN sendCh : sendCh[i] = t} = {}
      BY <2>1
    <3> QED
      BY <3>1, FS_EmptySet DEF InQueue
  <2>3. \A t \in Task : Results(t) = 0 /\ One(stage[t] = "done") = 0
    BY <2>1, <2>2 DEF Results, One
  <2> QED
    BY <2>1, <2>3 DEF ResultInv
<1>2. PInv /\ ResultInv /\ [PprofNext]_pprofVars => ResultInv'
  <2> SUFFICES ASSUME PInv, ResultInv, [PprofNext]_pprofVars PROVE ResultInv'
    OBVIOUS
  <2>1. CASE \E t \in Task : LoopStep(t) \/ TimerStep(t)
    BY <2>1, LoopResults
  <2>2. CASE UploadStep
    BY <2>2, UploadResults DEF PInv
  <2>3. CASE LoopEnds \/ OthersProfile \/ LinkChanges \/ UNCHANGED pprofVars
    <3>1. UNCHANGED <<stage, sendCh, upload, reached, dropped>>
      BY <2>3 DEF LoopEnds, OthersProfile, LinkChanges, pprofVars, sampleVars, resultVars, uploadVars
    <3> QED
      BY <3>1, ResultsKept
  <2> QED
    BY <2>1, <2>2, <2>3 DEF PprofNext
<1> QED
  BY <1>1, <1>2, PprofSafe, PTL DEF PprofSpec

\* A task that is done has one result and one that is not has none, whatever
\* commands are repeated and whatever fails (pprof_manager.go:139-151).
THEOREM PprofOneResult == PprofSpec => []OneResult
<1>1. ResultInv => OneResult
  BY DEF ResultInv, Results, One, OneResult
<1> QED
  BY ResultSafe, <1>1, PTL
=============================================================================

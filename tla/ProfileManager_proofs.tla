------------------------ MODULE ProfileManager_proofs ------------------------
(***************************************************************************)
(* For any tasks, start times, channel sizes and clock: a profile that     *)
(* runs has the profiler and the current task to itself, and no chunk is   *)
(* ever sent as the data of another task.                                  *)
(***************************************************************************)
EXTENDS ProfileManager, SequenceTheorems, TLAPS

Active(t) == monitor[t] \in {"waiting", "stopped", "cleared"}

\* A task that was never queued has no timer, and one whose timer has not
\* fired no monitor: a profile is started at most once.
TimerInv ==
  \A t \in Task :
    /\ timer[t] # "none" => t \in queue
    /\ timer[t] # "fired" => monitor[t] = "none"

\* The profile in progress, if any, is that of the current task.
SlotInv ==
  /\ curExist <=> currentTask # NoTask
  /\ \A t \in Task : Active(t) => currentTask = t
  /\ \A t \in Task : monitor[t] = "waiting" <=> cpu = t
  /\ \A t \in Task : monitor[t] \in {"waiting", "stopped"} => profiling
  /\ \A t \in Task : monitor[t] = "cleared" => ~profiling

\* Everything on its way to the report goroutine is the current task's, and
\* a last chunk is the end of it.
DataInv ==
  /\ buf # {} \/ rawCh # <<>> \/ report.pc # "recv" => currentTask # NoTask
  /\ buf \subseteq {currentTask}
  /\ \A i \in 1..Len(rawCh) : rawCh[i].of \subseteq {currentTask}
  /\ report.pc # "recv" => report.raw.of \subseteq {currentTask}
  /\ report.pc \in {"put", "finish"} => report.task = currentTask
  /\ buf # {} => Active(currentTask)

LastInv ==
  /\ report.pc = "finish" => report.raw.last
  /\ \A i \in 1..Len(rawCh) : rawCh[i].last =>
       i = Len(rawCh) /\ ~Active(currentTask) /\ buf = {}
  /\ report.pc # "recv" /\ report.raw.last =>
       rawCh = <<>> /\ ~Active(currentTask) /\ buf = {}

\* What has been attributed is attributed right.
Right(r) == r.of \subseteq {r.id}
SentInv ==
  /\ \A i \in 1..Len(final) : Right(final[i])
  /\ sender.pc # "recv" => Right(sender.msg) /\ sender.msg \in Result
  /\ \A i \in 1..Len(received) : Right(received[i])

IInv == TypeOK /\ TimerInv /\ SlotInv /\ DataInv /\ LastInv /\ SentInv

LEMMA InitIInv == Init => IInv
<1> SUFFICES ASSUME Init PROVE IInv
  OBVIOUS
<1>1. TypeOK
  <2>1. report \in [pc : {"recv", "look", "put", "finish"}, raw : Raw, task : Task \cup {NoTask}]
    BY DEF Init, Raw, NoRaw
  <2>2. sender \in [pc : {"recv", "send", "finish", "dead"}, msg : Result \cup {NoResult}]
    BY DEF Init
  <2>3. rawCh \in Seq(Raw) /\ final \in Seq(Result) /\ received \in Seq(Result)
    BY DEF Init
  <2> QED
    BY <2>1, <2>2, <2>3 DEF Init, TypeOK
<1>2. TimerInv /\ SlotInv
  BY ProfileAssumption DEF Init, TimerInv, SlotInv, Active, Free, Other
<1>3. DataInv /\ LastInv /\ SentInv
  BY DEF Init, DataInv, LastInv, SentInv
<1> QED
  BY <1>1, <1>2, <1>3 DEF IInv

\* What leaves the variables of an invariant alone leaves the invariant alone.
LEMMA Frames ==
  /\ TimerInv /\ UNCHANGED <<queue, timer, monitor>> => TimerInv'
  /\ SlotInv /\ UNCHANGED <<currentTask, curExist, profiling, cpu, monitor>> => SlotInv'
  /\ DataInv /\ LastInv /\ UNCHANGED <<currentTask, monitor, buf, rawCh, report>>
       => DataInv' /\ LastInv'
  /\ SentInv /\ UNCHANGED <<final, sender, received>> => SentInv'
BY DEF TimerInv, SlotInv, DataInv, LastInv, SentInv, Active, Right

LEMMA AddStep ==
  ASSUME IInv, NEW t \in Task, AddProfileTask(t)
  PROVE  IInv'
<1>1. t \notin queue
  <2>1. Start[t] \in Nat /\ Duration \in Nat \ {0}
    BY ProfileAssumption
  <2>2. Start[t] + Duration > Start[t]
    BY <2>1
  <2> QED
    BY <2>2 DEF AddProfileTask, EndTime
<1>2. TypeOK'
  BY DEF AddProfileTask, IInv, TypeOK, slotVars, runVars, dataVars, sendVars
<1>3. TimerInv'
  BY <1>1 DEF AddProfileTask, IInv, TypeOK, TimerInv, runVars
<1> QED
  BY <1>2, <1>3, Frames DEF IInv, AddProfileTask, slotVars, runVars, dataVars, sendVars

LEMMA FireStep ==
  ASSUME IInv, NEW t \in Task, TimerFires(t)
  PROVE  IInv'
<1> USE ProfileAssumption DEF IInv
<1>0. UNCHANGED <<now, fetch, queue, buf, chunks, rawCh, report, final, sender, received>>
  BY DEF TimerFires, dataVars, sendVars
<1>1. timer[t] = "armed" /\ timer' = [timer EXCEPT ![t] = "fired"] /\ t \in queue
      /\ monitor[t] = "none"
  BY DEF TimerFires, TimerInv
<1>2. CASE UNCHANGED <<status, currentTask, curExist, runVars>>
  <2>1. traceTask' \in Task \cup {NoTask}
    BY DEF TimerFires, TypeOK, slotVars
  <2>2. TypeOK'
    BY <1>0, <1>1, <1>2, <2>1 DEF TypeOK, runVars
  <2>3. TimerInv'
    BY <1>0, <1>1, <1>2 DEF TimerInv, TypeOK, runVars
  <2> QED
    BY <1>0, <1>2, <2>2, <2>3, Frames DEF runVars
<1>3. CASE /\ ~profiling /\ ~curExist
           /\ traceTask' = t /\ currentTask' = t /\ curExist' = TRUE
           /\ TryStartCPUProfiling(t)
  <2>1. currentTask = NoTask /\ buf = {} /\ rawCh = <<>> /\ report.pc = "recv"
    BY <1>3 DEF SlotInv, DataInv
  <2>2. \A u \in Task : ~Active(u)
    BY <1>3, <2>1 DEF SlotInv
  <2>3. CASE cpu = Free
    <3>1. /\ cpu' = t /\ profiling' = TRUE
          /\ status' = [status EXCEPT ![t] = "Running"]
          /\ monitor' = [monitor EXCEPT ![t] = "waiting"]
          /\ deadline' = now + Duration
      BY <1>3, <2>3 DEF TryStartCPUProfiling
    <3>2. TypeOK'
      BY <1>0, <1>1, <1>3, <3>1 DEF TypeOK
    <3>3. TimerInv'
      BY <1>0, <1>1, <3>1 DEF TimerInv, TypeOK
    <3>4. SlotInv'
      BY <1>3, <2>2, <3>1 DEF SlotInv, TypeOK, Active
    <3>5. DataInv' /\ LastInv'
      BY <1>0, <2>1 DEF DataInv, LastInv
    <3> QED
      BY <1>0, <3>2, <3>3, <3>4, <3>5, Frames
  <2>4. CASE cpu # Free
    <3>1. UNCHANGED <<status, profiling, cpu, monitor, deadline>>
      BY <1>3, <2>4 DEF TryStartCPUProfiling, runVars
    <3>2. TypeOK'
      BY <1>0, <1>1, <1>3, <3>1 DEF TypeOK
    <3>3. TimerInv'
      BY <1>0, <1>1, <3>1 DEF TimerInv, TypeOK
    <3>4. SlotInv'
      BY <1>3, <2>2, <3>1 DEF SlotInv, TypeOK, Active
    <3>5. DataInv' /\ LastInv'
      BY <1>0, <2>1 DEF DataInv, LastInv
    <3> QED
      BY <1>0, <3>2, <3>3, <3>4, <3>5, Frames
  <2> QED
    BY <2>3, <2>4
<1> QED
  BY <1>2, <1>3 DEF TimerFires, CouldSetCurTask, slotVars

LEMMA WriteStep ==
  ASSUME IInv, NEW t \in Task, Write(t)
  PROVE  IInv'
<1> USE DEF IInv
<1>0. UNCHANGED <<now, fetch, queue, timer, traceTask, status, currentTask, curExist, profiling, cpu,
                  monitor, deadline, report, final, sender, received>>
  BY DEF Write, slotVars, runVars, sendVars
<1>1. currentTask = t /\ Active(t) /\ buf \subseteq {t} /\ t # NoTask
  BY ProfileAssumption DEF Write, SlotInv, DataInv, Active
<1>2. \A i \in 1..Len(rawCh) : ~rawCh[i].last /\ rawCh[i].of \subseteq {t}
  BY <1>1 DEF LastInv, DataInv
<1>3. report.pc # "recv" => ~report.raw.last
  BY <1>1 DEF LastInv
<1>4. CASE buf' = buf \cup {t} /\ UNCHANGED <<chunks, rawCh>>
  <2>1. TypeOK'
    BY <1>0, <1>4 DEF TypeOK
  <2>2. DataInv'
    BY <1>0, <1>1, <1>4 DEF DataInv, Active
  <2>3. LastInv'
    BY <1>0, <1>2, <1>3, <1>4 DEF LastInv
  <2> QED
    BY <1>0, <2>1, <2>2, <2>3, Frames
<1>5. CASE /\ rawCh' = Append(rawCh, [of |-> buf \cup {t}, last |-> FALSE])
           /\ chunks' = [chunks EXCEPT ![t] = @ + 1]
           /\ buf' \in {{}, {t}}
  <2> DEFINE r == [of |-> buf \cup {t}, last |-> FALSE]
  <2>1. r \in Raw /\ r.of \subseteq {t} /\ ~r.last
    BY <1>1 DEF Raw
  <2>2. rawCh \in Seq(Raw) /\ rawCh' = Append(rawCh, r)
    BY <1>5 DEF TypeOK
  <2> HIDE DEF r
  <2>3. /\ rawCh' \in Seq(Raw) /\ Len(rawCh') = Len(rawCh) + 1
        /\ \A i \in 1..Len(rawCh') : rawCh'[i] = r \/ (i \in 1..Len(rawCh) /\ rawCh'[i] = rawCh[i])
    BY <2>1, <2>2
  <2>4. TypeOK'
    BY <1>0, <1>5, <2>3 DEF TypeOK
  <2>5. DataInv'
    BY <1>0, <1>1, <1>2, <1>5, <2>1, <2>3 DEF DataInv, Active
  <2>6. LastInv'
    BY <1>0, <1>2, <1>3, <2>1, <2>3 DEF LastInv
  <2> QED
    BY <1>0, <2>4, <2>5, <2>6, Frames
<1> QED
  BY <1>4, <1>5 DEF Write

\* The monitor of t, and whoever else has the profiler: the data stays where it
\* is, unless it is flushed.
LEMMA MonitorStep ==
  ASSUME IInv, NEW t \in Task, MonitorStops(t) \/ MonitorClears(t)
  PROVE  IInv'
<1> USE DEF IInv
<1>0. UNCHANGED <<now, fetch, queue, timer, traceTask, status, currentTask, curExist, deadline,
                  buf, chunks, rawCh, report, final, sender, received>>
  BY DEF MonitorStops, MonitorClears, slotVars, dataVars, sendVars
<1>1. Active(t) /\ \A u \in Task : u # t => ~Active(u)
  BY DEF MonitorStops, MonitorClears, SlotInv, Active
<1>2. timer[t] = "fired"
  BY <1>1 DEF TimerInv, Active
<1>3. /\ TypeOK'
      /\ Active(t)'
      /\ \A u \in Task : u # t => monitor'[u] = monitor[u]
  <2>1. TypeOK
    OBVIOUS
  <2>2. \E m \in {"stopped", "cleared"} : monitor' = [monitor EXCEPT ![t] = m]
    BY DEF MonitorStops, MonitorClears
  <2>3. cpu' \in {cpu, Free} /\ profiling' \in {profiling, FALSE}
    BY DEF MonitorStops, MonitorClears
  <2>4. curExist' = curExist
    BY DEF MonitorStops, MonitorClears, slotVars
  <2> HIDE DEF IInv
  <2>5. /\ monitor' \in [Task -> {"none", "waiting", "stopped", "cleared", "done"}]
        /\ monitor'[t] \in {"stopped", "cleared"}
        /\ \A u \in Task : u # t => monitor'[u] = monitor[u]
    BY <2>1, <2>2 DEF TypeOK
  <2>6. cpu' \in Task \cup {Free, Other} /\ profiling' \in BOOLEAN /\ curExist' \in BOOLEAN
    BY <2>1, <2>3, <2>4 DEF TypeOK
  <2>7. TypeOK'
    BY <1>0, <2>1, <2>5, <2>6 DEF TypeOK
  <2> QED
    BY <2>5, <2>7 DEF Active
<1>4. TimerInv'
  BY <1>0, <1>2, <1>3 DEF TimerInv
<1>5. \A u \in Task : Active(u)' <=> Active(u)
  BY <1>1, <1>3 DEF Active
<1>6. DataInv' /\ LastInv'
  <2>1. currentTask = t
    BY <1>1 DEF SlotInv
  <2> QED
    BY <1>0, <1>5, <2>1 DEF DataInv, LastInv
<1>7. CASE MonitorStops(t)
  <2>1. SlotInv'
    BY <1>0, <1>1, <1>5, <1>7, ProfileAssumption DEF MonitorStops, SlotInv, TypeOK, Active
  <2> QED
    BY <1>0, <1>3, <1>4, <1>6, <2>1, Frames
<1>8. CASE MonitorClears(t)
  <2>1. SlotInv'
    BY <1>0, <1>1, <1>5, <1>8 DEF MonitorClears, SlotInv, TypeOK, Active
  <2> QED
    BY <1>0, <1>3, <1>4, <1>6, <2>1, Frames
<1> QED
  BY <1>7, <1>8

LEMMA OtherStep ==
  ASSUME IInv, OtherStarts \/ OtherStops
  PROVE  IInv'
<1> USE DEF IInv
<1>0. UNCHANGED <<now, fetch, queue, timer, traceTask, status, currentTask, curExist, profiling, monitor,
                  deadline, buf, chunks, rawCh, report, final, sender, received>>
  BY DEF OtherStarts, OtherStops, slotVars, dataVars, sendVars
<1>1. cpu \in {Free, Other} /\ cpu' \in {Free, Other}
  BY DEF OtherStarts, OtherStops
<1>2. TypeOK'
  BY <1>0, <1>1 DEF TypeOK
<1>3. SlotInv'
  BY <1>0, <1>1, ProfileAssumption DEF SlotInv, Active
<1> QED
  BY <1>0, <1>2, <1>3, Frames

LEMMA FlushStep ==
  ASSUME IInv, NEW t \in Task, Flush(t)
  PROVE  IInv'
<1> USE DEF IInv
<1> DEFINE r == [of |-> buf, last |-> TRUE]
<1>0. UNCHANGED <<now, fetch, queue, timer, traceTask, status, currentTask, curExist, profiling, cpu,
                  deadline, chunks, report, final, sender, received>>
  BY DEF Flush, slotVars, sendVars
<1>1. /\ monitor[t] = "cleared" /\ monitor' = [monitor EXCEPT ![t] = "done"]
      /\ rawCh' = Append(rawCh, r) /\ buf' = {}
  BY DEF Flush
<1>2. currentTask = t /\ Active(t) /\ buf \subseteq {t} /\ t # NoTask
  BY <1>1, ProfileAssumption DEF SlotInv, DataInv, Active
<1>3. \A i \in 1..Len(rawCh) : ~rawCh[i].last /\ rawCh[i].of \subseteq {t}
  BY <1>2 DEF LastInv, DataInv
<1>4. report.pc # "recv" => ~report.raw.last
  BY <1>2 DEF LastInv
<1>5. r \in Raw /\ r.of \subseteq {t} /\ rawCh \in Seq(Raw)
  BY <1>2 DEF Raw, TypeOK
<1> HIDE DEF r
<1>6. /\ rawCh' \in Seq(Raw) /\ Len(rawCh') = Len(rawCh) + 1 /\ Len(rawCh) \in Nat
      /\ \A i \in 1..Len(rawCh') :
           (i = Len(rawCh') /\ rawCh'[i] = r) \/ (i \in 1..Len(rawCh) /\ rawCh'[i] = rawCh[i])
  BY <1>1, <1>5
<1>7. TypeOK'
  BY <1>0, <1>1, <1>6 DEF TypeOK
<1>8. monitor'[t] = "done" /\ \A u \in Task : u # t => monitor'[u] = monitor[u]
  BY <1>1 DEF TypeOK
<1>9. TimerInv'
  BY <1>0, <1>1, <1>8 DEF TimerInv
<1>10. SlotInv'
  BY <1>0, <1>1, <1>2, <1>8 DEF SlotInv, Active
<1>11. DataInv'
  BY <1>0, <1>1, <1>2, <1>3, <1>5, <1>6 DEF DataInv
<1>12. LastInv'
  BY <1>0, <1>1, <1>2, <1>3, <1>4, <1>6, <1>8 DEF LastInv, Active
<1> QED
  BY <1>0, <1>7, <1>9, <1>10, <1>11, <1>12, Frames

\* Taking the head of a channel
LEMMA HeadTail ==
  ASSUME NEW S, NEW s \in Seq(S), s # <<>>
  PROVE  /\ Head(s) = s[1] /\ Head(s) \in S /\ 1 \in 1..Len(s)
         /\ Tail(s) \in Seq(S) /\ Len(Tail(s)) = Len(s) - 1 /\ Len(s) \in Nat \ {0}
         /\ \A i \in 1..Len(Tail(s)) : i + 1 \in 1..Len(s) /\ Tail(s)[i] = s[i + 1]
BY HeadTailProperties

LEMMA ReceivesStep ==
  ASSUME IInv, ReportReceives
  PROVE  IInv'
<1> USE DEF IInv
<1>0. UNCHANGED <<now, fetch, queue, timer, traceTask, status, currentTask, curExist, profiling, cpu,
                  monitor, deadline, buf, chunks, final, sender, received>>
  BY DEF ReportReceives, slotVars, runVars, sendVars
<1>1. /\ rawCh \in Seq(Raw) /\ rawCh # <<>> /\ report.pc = "recv"
      /\ rawCh' = Tail(rawCh)
      /\ report' = [report EXCEPT !.pc = "look", !.raw = Head(rawCh)]
  BY DEF ReportReceives, TypeOK
<1>2. /\ Head(rawCh) = rawCh[1] /\ Head(rawCh) \in Raw /\ 1 \in 1..Len(rawCh)
      /\ rawCh' \in Seq(Raw) /\ Len(rawCh') = Len(rawCh) - 1 /\ Len(rawCh) \in Nat \ {0}
      /\ \A i \in 1..Len(rawCh') : i + 1 \in 1..Len(rawCh) /\ rawCh'[i] = rawCh[i + 1]
  BY <1>1, HeadTail
<1>3. report'.pc = "look" /\ report'.raw = rawCh[1] /\ report' \in
        [pc : {"recv", "look", "put", "finish"}, raw : Raw, task : Task \cup {NoTask}]
  BY <1>1, <1>2 DEF TypeOK
<1>4. TypeOK'
  BY <1>0, <1>2, <1>3 DEF TypeOK
<1>5. DataInv'
  BY <1>0, <1>1, <1>2, <1>3 DEF DataInv, Active
<1>6. LastInv'
  <2>1. rawCh[1].last => Len(rawCh) = 1 /\ ~Active(currentTask) /\ buf = {}
    BY <1>2 DEF LastInv
  <2>2. Len(rawCh) = 1 => rawCh' = <<>>
    BY <1>2, EmptySeq
  <2>3. \A i \in 1..Len(rawCh') : rawCh'[i].last =>
          i = Len(rawCh') /\ ~Active(currentTask) /\ buf = {}
    BY <1>2 DEF LastInv
  <2> QED
    BY <1>0, <1>3, <2>1, <2>2, <2>3 DEF LastInv, Active
<1> QED
  BY <1>0, <1>4, <1>5, <1>6, Frames

LEMMA LooksStep ==
  ASSUME IInv, ReportLooks
  PROVE  IInv'
<1> USE DEF IInv
<1>0. UNCHANGED <<now, fetch, queue, timer, traceTask, status, currentTask, curExist, profiling, cpu,
                  monitor, deadline, buf, chunks, rawCh, final, sender, received>>
  BY DEF ReportLooks, slotVars, runVars, dataVars, sendVars
<1>1. currentTask \in Task /\ currentTask # NoTask /\ report.pc = "look"
  BY DEF ReportLooks, DataInv, TypeOK
<1>2. report' = [report EXCEPT !.pc = "put", !.task = currentTask]
  BY <1>1 DEF ReportLooks
<1>3. /\ report'.pc = "put" /\ report'.raw = report.raw /\ report'.task = currentTask
      /\ report' \in [pc : {"recv", "look", "put", "finish"}, raw : Raw,
                       task : Task \cup {NoTask}]
  BY <1>1, <1>2 DEF TypeOK
<1>4. TypeOK'
  BY <1>0, <1>3 DEF TypeOK
<1>5. DataInv' /\ LastInv'
  BY <1>0, <1>1, <1>3 DEF DataInv, LastInv, Active
<1> QED
  BY <1>0, <1>4, <1>5, Frames

\* The chunk gets the task that was read a step before, still the current one.
LEMMA PutsStep ==
  ASSUME IInv, ReportPuts
  PROVE  IInv'
<1> USE DEF IInv
<1> DEFINE r == [id |-> report.task, of |-> report.raw.of, last |-> report.raw.last]
<1>0. UNCHANGED <<now, fetch, queue, timer, traceTask, status, currentTask, curExist, profiling, cpu,
                  monitor, deadline, buf, chunks, rawCh, sender, received>>
  BY DEF ReportPuts, slotVars, runVars, dataVars, sendVars
<1>1. /\ report.pc = "put" /\ final' = Append(final, r)
      /\ report' = [report EXCEPT !.pc = IF report.raw.last THEN "finish" ELSE "recv"]
  BY DEF ReportPuts
<1>2. report.task = currentTask /\ currentTask \in Task /\ report.raw.of \subseteq {currentTask}
  BY <1>1 DEF DataInv, TypeOK
<1>3. r \in Result /\ Right(r)
  BY <1>2 DEF TypeOK, Result, Raw, Right
<1> HIDE DEF r
<1>4. /\ final' \in Seq(Result)
      /\ \A i \in 1..Len(final') : final'[i] = r \/ (i \in 1..Len(final) /\ final'[i] = final[i])
  BY <1>1, <1>3 DEF TypeOK
<1>5. /\ report'.pc = IF report.raw.last THEN "finish" ELSE "recv"
      /\ report'.raw = report.raw /\ report'.task = report.task
      /\ report' \in [pc : {"recv", "look", "put", "finish"}, raw : Raw,
                       task : Task \cup {NoTask}]
  BY <1>1 DEF TypeOK
<1>6. TypeOK'
  BY <1>0, <1>4, <1>5 DEF TypeOK
<1>7. DataInv' /\ LastInv'
  BY <1>0, <1>1, <1>2, <1>5 DEF DataInv, LastInv, Active
<1>8. SentInv'
  BY <1>0, <1>3, <1>4 DEF SentInv, Right
<1> QED
  BY <1>0, <1>6, <1>7, <1>8, Frames

\* The slot is given up when nothing of the profile is left anywhere.
LEMMA FinishesStep ==
  ASSUME IInv, ReportFinishes
  PROVE  IInv'
<1> USE DEF IInv
<1>0. UNCHANGED <<now, fetch, queue, timer, traceTask, profiling, cpu, monitor, deadline, buf, chunks,
                  rawCh, final, sender, received>>
  BY DEF ReportFinishes, runVars, dataVars, sendVars
<1>1. /\ report.pc = "finish" /\ currentTask' = NoTask /\ curExist' = FALSE
      /\ report' = [report EXCEPT !.pc = "recv"]
  BY DEF ReportFinishes
<1>2. rawCh = <<>> /\ buf = {} /\ ~Active(currentTask)
  BY <1>1 DEF LastInv
<1>3. status' \in [Task -> {"Pending", "Running", "Finished", "Reported"}]
  BY DEF ReportFinishes, TypeOK
<1>4. report'.pc = "recv" /\ report' \in
        [pc : {"recv", "look", "put", "finish"}, raw : Raw, task : Task \cup {NoTask}]
  BY <1>1 DEF TypeOK
<1>5. TypeOK'
  BY <1>0, <1>1, <1>3, <1>4 DEF TypeOK
<1>6. \A u \in Task : ~Active(u)
  BY <1>2 DEF SlotInv
<1>7. SlotInv'
  BY <1>0, <1>1, <1>6 DEF SlotInv, Active
<1>8. DataInv' /\ LastInv'
  BY <1>0, <1>2, <1>4 DEF DataInv, LastInv
<1> QED
  BY <1>0, <1>5, <1>7, <1>8, Frames

LEMMA SendStep ==
  ASSUME IInv, Send
  PROVE  IInv'
<1> USE DEF IInv
<1>0. UNCHANGED <<now, fetch, queue, timer, traceTask, currentTask, curExist, profiling, cpu,
                  monitor, deadline, buf, chunks, rawCh, report>>
  BY DEF Send, SendTakes, SendSucceeds, SendFails, ProfileFinish, slotVars, runVars, dataVars
<1> SUFFICES TypeOK' /\ SentInv'
  BY <1>0, Frames
<1>1. CASE SendTakes
  <2>1. /\ final \in Seq(Result) /\ final # <<>> /\ final' = Tail(final)
        /\ sender' = [pc |-> "send", msg |-> Head(final)]
        /\ UNCHANGED <<status, received>>
    BY <1>1 DEF SendTakes, TypeOK, slotVars
  <2>2. /\ Head(final) = final[1] /\ Head(final) \in Result /\ 1 \in 1..Len(final)
        /\ final' \in Seq(Result)
        /\ \A i \in 1..Len(final') : i + 1 \in 1..Len(final) /\ final'[i] = final[i + 1]
    BY <2>1, HeadTail
  <2>3. TypeOK'
    BY <1>0, <2>1, <2>2 DEF TypeOK
  <2>4. SentInv'
    BY <2>1, <2>2 DEF SentInv, Right
  <2> QED
    BY <2>3, <2>4
<1>2. CASE SendSucceeds
  <2>1. /\ sender.pc = "send" /\ sender.msg \in Result /\ Right(sender.msg)
        /\ received \in Seq(Result) /\ received' = Append(received, sender.msg)
        /\ sender' = [sender EXCEPT !.pc = IF sender.msg.last THEN "finish" ELSE "recv"]
        /\ UNCHANGED <<status, final>>
    BY <1>2 DEF SendSucceeds, SentInv, TypeOK, slotVars
  <2>2. /\ received' \in Seq(Result)
        /\ \A i \in 1..Len(received') :
             received'[i] = sender.msg \/ (i \in 1..Len(received) /\ received'[i] = received[i])
    BY <2>1
  <2>3. sender' \in [pc : {"recv", "send", "finish", "dead"}, msg : Result \cup {NoResult}]
        /\ sender'.msg = sender.msg
    BY <2>1 DEF TypeOK
  <2>4. TypeOK'
    BY <1>0, <2>1, <2>2, <2>3 DEF TypeOK
  <2>5. SentInv'
    BY <2>1, <2>2, <2>3 DEF SentInv, Right
  <2> QED
    BY <2>4, <2>5
<1>3. CASE SendFails \/ ProfileFinish
  <2>1. /\ sender.pc # "recv" /\ sender'.msg = sender.msg
        /\ sender' \in [pc : {"recv", "send", "finish", "dead"}, msg : Result \cup {NoResult}]
    BY <1>3 DEF SendFails, ProfileFinish, TypeOK
  <2>2. /\ status' \in [Task -> {"Pending", "Running", "Finished", "Reported"}]
        /\ UNCHANGED <<final, received>>
    BY <1>3 DEF SendFails, ProfileFinish, TypeOK, slotVars
  <2>3. TypeOK'
    BY <1>0, <2>1, <2>2 DEF TypeOK
  <2>4. SentInv'
    BY <2>1, <2>2 DEF SentInv, Right
  <2> QED
    BY <2>3, <2>4
<1> QED
  BY <1>1, <1>2, <1>3 DEF Send

LEMMA RestStep ==
  ASSUME IInv, FetchAnswered \/ FetchPanics \/ RemoveProfileTask \/ Tick \/ UNCHANGED vars
  PROVE  IInv'
<1> USE DEF IInv
<1>1. UNCHANGED <<queue, timer, status, currentTask, curExist, profiling, cpu, monitor, deadline,
                  buf, chunks, rawCh, report, final, sender, received>>
  BY DEF FetchAnswered, FetchPanics, RemoveProfileTask, Tick, vars, slotVars, runVars, dataVars, sendVars
<1>2. now' \in Nat /\ fetch' \in {"idle", "handling"} /\ traceTask' \in Task \cup {NoTask}
  BY DEF FetchAnswered, FetchPanics, RemoveProfileTask, Tick, vars, slotVars, TypeOK
<1>3. TypeOK'
  BY <1>1, <1>2 DEF TypeOK
<1> QED
  BY <1>1, <1>3, Frames

LEMMA StepIInv == IInv /\ [Next]_vars => IInv'
<1> SUFFICES ASSUME IInv, [Next]_vars PROVE IInv'
  OBVIOUS
<1>1. ASSUME NEW t \in Task, AddProfileTask(t) \/ TimerFires(t) \/ Write(t) \/ Monitor(t)
      PROVE  IInv'
  BY <1>1, AddStep, FireStep, WriteStep, MonitorStep, FlushStep DEF Monitor
<1>2. ASSUME Report PROVE IInv'
  BY <1>2, ReceivesStep, LooksStep, PutsStep, FinishesStep DEF Report
<1> QED
  BY <1>1, <1>2, OtherStep, SendStep, RestStep DEF Next

\* IInv holds in every reachable state: however the timers, the monitor, the report
\* goroutine, the send loop and the other users of the profiler interleave.
THEOREM Invariance == Spec => []IInv
BY InitIInv, StepIInv, PTL DEF Spec

\* Types are kept.
THEOREM TypeCorrect == Spec => []TypeOK
<1>1. IInv => TypeOK
  BY DEF IInv
<1> QED
  BY <1>1, Invariance, PTL

\* A profile that runs has the profiler and the slot to itself.
THEOREM OwnProfiler == Spec => []RunningOwnsProfiler
<1>1. IInv => RunningOwnsProfiler
  BY ProfileAssumption DEF IInv, SlotInv, RunningOwnsProfiler, Active
<1> QED
  BY <1>1, Invariance, PTL

\* No chunk reaches the backend as the data of another task.
THEOREM Attribution == Spec => []ChunksAttributed
<1>1. IInv => ChunksAttributed
  BY DEF IInv, SentInv, Right, ChunksAttributed
<1> QED
  BY <1>1, Invariance, PTL
-----------------------------------------------------------------------------
(* Nothing of a task after its last chunk *)

\* The task was started, and what is left of it is at most to give up the slot.
Past(t) == timer[t] = "fired" /\ (currentTask = t => report.pc = "finish")

\* r may be followed by q.
Before(r, q) == r.last => r.id # q.id

\* A last chunk that was put is the end of its task: whatever is in the channel,
\* at the send loop or at the backend comes in an order that respects it.
EndsInv ==
  /\ currentTask # NoTask => timer[currentTask] = "fired"
  /\ \A i \in 1..Len(received) : received[i].last => Past(received[i].id)
  /\ \A i \in 1..Len(final) : final[i].last => Past(final[i].id)
  /\ sender.pc = "send" /\ sender.msg.last => Past(sender.msg.id)

OrderInv ==
  /\ \A i, j \in 1..Len(received) : i < j => Before(received[i], received[j])
  /\ \A i, j \in 1..Len(final) : i < j => Before(final[i], final[j])
  /\ \A i \in 1..Len(received), j \in 1..Len(final) : Before(received[i], final[j])
  /\ sender.pc = "send" =>
       /\ \A i \in 1..Len(received) : Before(received[i], sender.msg)
       /\ \A j \in 1..Len(final) : Before(sender.msg, final[j])

\* A task that is past stays past: it has no timer left to start it again, and
\* the report goroutine leaves "finish" only by emptying the slot.
LEMMA PastStays ==
  ASSUME IInv, [Next]_vars, NEW t \in Task, Past(t)
  PROVE  Past(t)'
<1> USE DEF Past
<1>1. CASE ReportPuts \/ ReportReceives \/ ReportLooks
  <2>1. UNCHANGED <<timer, currentTask>> /\ report.pc # "finish"
    BY <1>1 DEF ReportPuts, ReportReceives, ReportLooks, slotVars
  <2> QED
    BY <2>1
<1>2. CASE ReportFinishes
  BY <1>2, ProfileAssumption DEF ReportFinishes
<1>3. ASSUME NEW u \in Task, TimerFires(u) PROVE Past(t)'
  <2>1. timer[u] = "armed" /\ timer' = [timer EXCEPT ![u] = "fired"] /\ UNCHANGED report
    BY <1>3 DEF TimerFires
  <2>2. currentTask' \in {currentTask, u}
    BY <1>3 DEF TimerFires, slotVars
  <2> QED
    BY <2>1, <2>2 DEF IInv, TypeOK
<1>4. ASSUME NEW u \in Task, AddProfileTask(u) PROVE Past(t)'
  <2>1. t \in queue /\ EndTime(u) > Start[u] /\ UNCHANGED <<currentTask, report>>
        /\ timer' = [timer EXCEPT ![u] = "armed"]
        /\ \A q \in queue : ~(EndTime(u) > Start[q] /\ Start[u] < EndTime(q))
    BY <1>4, ProfileAssumption DEF AddProfileTask, EndTime, IInv, TimerInv, slotVars
  <2>2. u # t
    BY <2>1
  <2> QED
    BY <2>1, <2>2 DEF IInv, TypeOK
<1>5. CASE UNCHANGED <<timer, currentTask, report>>
  BY <1>5
<1>6. ASSUME NEW u \in Task, Write(u) \/ Monitor(u)
      PROVE  UNCHANGED <<timer, currentTask, report>>
  BY <1>6 DEF Write, Monitor, MonitorStops, MonitorClears, Flush, slotVars
<1>7. \/ FetchAnswered \/ FetchPanics \/ RemoveProfileTask \/ OtherStarts \/ OtherStops
      \/ Send \/ Tick \/ UNCHANGED vars
      => UNCHANGED <<timer, currentTask, report>>
  BY DEF FetchAnswered, FetchPanics, RemoveProfileTask, OtherStarts, OtherStops, Send, SendTakes,
         SendSucceeds, SendFails,
         ProfileFinish, Tick, vars, slotVars
<1> QED
  BY <1>1, <1>2, <1>3, <1>4, <1>5, <1>6, <1>7 DEF Next, Report

\* Only the report goroutine and the send loop move results.
LEMMA ResultsMove ==
  ASSUME [Next]_vars
  PROVE  ReportPuts \/ Send \/ UNCHANGED <<final, sender, received>>
<1>1. ASSUME NEW u \in Task, AddProfileTask(u) \/ TimerFires(u) \/ Write(u) \/ Monitor(u)
      PROVE  UNCHANGED <<final, sender, received>>
  BY <1>1 DEF AddProfileTask, TimerFires, Write, Monitor, MonitorStops, MonitorClears, Flush,
              sendVars
<1>2. FetchAnswered \/ FetchPanics \/ RemoveProfileTask \/ OtherStarts \/ OtherStops \/ Tick \/ UNCHANGED vars
      => UNCHANGED <<final, sender, received>>
  BY DEF FetchAnswered, FetchPanics, RemoveProfileTask, OtherStarts, OtherStops, Tick, vars, sendVars
<1>3. ReportReceives \/ ReportLooks \/ ReportFinishes => UNCHANGED <<final, sender, received>>
  BY DEF ReportReceives, ReportLooks, ReportFinishes, sendVars
<1> QED
  BY <1>1, <1>2, <1>3 DEF Next, Report

LEMMA CurrentFired ==
  ASSUME IInv, [Next]_vars, currentTask # NoTask => timer[currentTask] = "fired"
  PROVE  (currentTask # NoTask => timer[currentTask] = "fired")'
<1>1. CASE currentTask' = currentTask /\ currentTask \in Task
  <2>1. timer[currentTask] = "fired"
    BY <1>1, ProfileAssumption
  <2>2. ASSUME NEW u \in Task, AddProfileTask(u), u = currentTask PROVE FALSE
    <3>1. timer[u] = "fired" /\ u \in queue
      BY <2>1, <2>2 DEF IInv, TimerInv
    <3>2. EndTime(u) > Start[u]
      BY ProfileAssumption DEF EndTime
    <3> QED
      BY <2>2, <3>1, <3>2 DEF AddProfileTask
  <2>3. timer' = timer \/ \E u \in Task : (AddProfileTask(u) \/ TimerFires(u))
    BY DEF Next, Write, Monitor, MonitorStops, MonitorClears, Flush,
           FetchAnswered, FetchPanics, RemoveProfileTask,
           OtherStarts, OtherStops, Report, ReportReceives, ReportLooks, ReportPuts,
           ReportFinishes, Send, SendTakes, SendSucceeds, SendFails, ProfileFinish, Tick, vars
  <2> QED
    BY <1>1, <2>1, <2>2, <2>3 DEF AddProfileTask, TimerFires, IInv, TypeOK
<1>2. CASE currentTask' # currentTask \/ currentTask \notin Task
  <2>1. currentTask' # currentTask =>
          currentTask' = NoTask \/ \E u \in Task : TimerFires(u) /\ currentTask' = u
    BY DEF Next, AddProfileTask, TimerFires, Write, Monitor, MonitorStops, MonitorClears, Flush,
           FetchAnswered, FetchPanics, RemoveProfileTask, OtherStarts, OtherStops,
           Report, ReportReceives, ReportLooks,
           ReportPuts, ReportFinishes, Send, SendTakes, SendSucceeds, SendFails, ProfileFinish,
           Tick, vars, slotVars
  <2>2. currentTask \notin Task => currentTask = NoTask
    BY DEF IInv, TypeOK
  <2> QED
    BY <1>2, <2>1, <2>2 DEF TimerFires, IInv, TypeOK
<1> QED
  BY <1>1, <1>2

\* What is put is of a task that is not past, and a last one makes it so.
LEMMA PutsOrder ==
  ASSUME IInv, EndsInv, OrderInv, ReportPuts
  PROVE  EndsInv' /\ OrderInv'
<1> USE DEF IInv, Past
<1> DEFINE r == [id |-> report.task, of |-> report.raw.of, last |-> report.raw.last]
<1>0. /\ UNCHANGED <<timer, currentTask, sender, received>>
      /\ report.pc = "put" /\ final' = Append(final, r)
      /\ report' = [report EXCEPT !.pc = IF report.raw.last THEN "finish" ELSE "recv"]
  BY DEF ReportPuts, slotVars, sendVars
<1>1. currentTask \in Task /\ report.task = currentTask /\ r.id = currentTask
  BY <1>0 DEF DataInv, TypeOK
<1>2. r \in Result /\ (r.last <=> report.raw.last)
  BY <1>1 DEF TypeOK, Result, Raw
<1> HIDE DEF r
<1>3. final \in Seq(Result) /\ received \in Seq(Result)
  BY DEF TypeOK
<1>4. /\ Len(final') = Len(final) + 1 /\ Len(final) \in Nat
      /\ \A i \in 1..Len(final') : (i = Len(final') /\ final'[i] = r)
                                   \/ (i \in 1..Len(final) /\ final'[i] = final[i])
  BY <1>0, <1>2, <1>3
<1>5. \A t : Past(t) => t # currentTask /\ Past(t)'
  BY <1>0
<1>6. r.last => report'.pc = "finish"
  BY <1>0, <1>2 DEF TypeOK
<1>7. EndsInv'
  <2>1. currentTask # NoTask /\ timer[currentTask] = "fired"
    BY <1>1, ProfileAssumption DEF EndsInv
  <2>2. ASSUME NEW t, t = r.id, r.last PROVE Past(t)'
    BY <1>0, <1>1, <1>6, <2>1, <2>2
  <2>3. (\A i \in 1..Len(final) : final[i].last => Past(final[i].id))'
    <3> SUFFICES ASSUME NEW i \in 1..Len(final'), NEW t, t = final'[i].id, final'[i].last
                 PROVE  Past(t)'
      OBVIOUS
    <3> QED
      BY <1>4, <1>5, <2>2 DEF EndsInv
  <2>4. (\A i \in 1..Len(received) : received[i].last => Past(received[i].id))'
    BY <1>0, <1>5 DEF EndsInv
  <2>5. (sender.pc = "send" /\ sender.msg.last => Past(sender.msg.id))'
    BY <1>0, <1>5 DEF EndsInv
  <2> QED
    BY <1>0, <2>1, <2>3, <2>4, <2>5 DEF EndsInv
<1>8. OrderInv'
  <2> USE DEF Before
  <2>1. \A i \in 1..Len(received) : Before(received[i], r)
    BY <1>1, <1>5 DEF EndsInv
  <2>2. \A i \in 1..Len(final) : Before(final[i], r)
    BY <1>1, <1>5 DEF EndsInv
  <2>3. sender.pc = "send" => Before(sender.msg, r)
    BY <1>1, <1>5 DEF EndsInv
  <2> HIDE DEF Before
  <2>4. \A i, j \in 1..Len(final') : i < j => Before(final'[i], final'[j])
    <3> SUFFICES ASSUME NEW i \in 1..Len(final'), NEW j \in 1..Len(final'), i < j
                 PROVE  Before(final'[i], final'[j])
      OBVIOUS
    <3>1. i \in 1..Len(final) /\ final'[i] = final[i]
      BY <1>4
    <3> QED
      BY <1>4, <2>2, <3>1 DEF OrderInv
  <2>5. \A i \in 1..Len(received), j \in 1..Len(final') : Before(received[i], final'[j])
    BY <1>4, <2>1 DEF OrderInv
  <2>6. sender.pc = "send" => \A j \in 1..Len(final') : Before(sender.msg, final'[j])
    BY <1>4, <2>3 DEF OrderInv
  <2> QED
    BY <1>0, <2>4, <2>5, <2>6 DEF OrderInv, Before
<1> QED
  BY <1>7, <1>8

\* The send loop takes results in turn; one that fails is gone.
LEMMA SendOrder ==
  ASSUME IInv, EndsInv, OrderInv, Send
  PROVE  EndsInv' /\ OrderInv'
<1>0. UNCHANGED <<timer, currentTask, report>>
  BY DEF Send, SendTakes, SendSucceeds, SendFails, ProfileFinish, slotVars
<1>1. final \in Seq(Result) /\ received \in Seq(Result)
  BY DEF IInv, TypeOK
<1>2. CASE SendTakes
  <2>1. /\ final # <<>> /\ final' = Tail(final) /\ received' = received
        /\ sender'.pc = "send" /\ sender'.msg = Head(final)
    BY <1>2 DEF SendTakes
  <2>2. /\ Head(final) = final[1] /\ 1 \in 1..Len(final) /\ Len(final) \in Nat
        /\ Len(final') = Len(final) - 1
        /\ \A i \in 1..Len(final') : i + 1 \in 1..Len(final) /\ final'[i] = final[i + 1]
    BY <1>1, <2>1, HeadTail
  <2>3. EndsInv'
    BY <1>0, <2>1, <2>2 DEF EndsInv, Past
  <2>4. \A i, j \in 1..Len(final') : i < j => Before(final'[i], final'[j])
    BY <2>2 DEF OrderInv
  <2>5. \A j \in 1..Len(final') : Before(final[1], final'[j])
    BY <2>2 DEF OrderInv
  <2>6. /\ \A i \in 1..Len(received) : Before(received[i], final[1])
        /\ \A i \in 1..Len(received), j \in 1..Len(final') : Before(received[i], final'[j])
    BY <2>2 DEF OrderInv
  <2>7. \A i, j \in 1..Len(received) : i < j => Before(received[i], received[j])
    BY DEF OrderInv
  <2>8. OrderInv'
    BY <2>1, <2>2, <2>4, <2>5, <2>6, <2>7 DEF OrderInv, Before
  <2> QED
    BY <2>3, <2>8
<1>3. CASE SendSucceeds
  <2> DEFINE r == sender.msg
  <2>1. /\ sender.pc = "send" /\ received' = Append(received, r) /\ final' = final
        /\ sender'.pc # "send" /\ r \in Result
    BY <1>3 DEF SendSucceeds, IInv, TypeOK, SentInv
  <2> HIDE DEF r
  <2>2. /\ Len(received') = Len(received) + 1 /\ Len(received) \in Nat
        /\ \A i \in 1..Len(received') :
             (i = Len(received') /\ received'[i] = r)
             \/ (i \in 1..Len(received) /\ received'[i] = received[i])
    BY <1>1, <2>1
  <2>3. r.last => Past(r.id)
    BY <2>1 DEF EndsInv, r
  <2>4. EndsInv'
    BY <1>0, <2>1, <2>2, <2>3 DEF EndsInv, Past
  <2>5. /\ \A i \in 1..Len(received) : Before(received[i], r)
        /\ \A j \in 1..Len(final) : Before(r, final[j])
    BY <2>1 DEF OrderInv, r
  <2>6. \A i, j \in 1..Len(received') : i < j => Before(received'[i], received'[j])
    <3> SUFFICES ASSUME NEW i \in 1..Len(received'), NEW j \in 1..Len(received'), i < j
                 PROVE  Before(received'[i], received'[j])
      OBVIOUS
    <3>1. i \in 1..Len(received) /\ received'[i] = received[i]
      BY <2>2
    <3> QED
      BY <2>2, <2>5, <3>1 DEF OrderInv
  <2>7. \A i \in 1..Len(received'), j \in 1..Len(final) : Before(received'[i], final[j])
    BY <2>2, <2>5 DEF OrderInv
  <2>8. \A i, j \in 1..Len(final) : i < j => Before(final[i], final[j])
    BY DEF OrderInv
  <2>9. OrderInv'
    BY <2>1, <2>6, <2>7, <2>8 DEF OrderInv, Before
  <2> QED
    BY <2>4, <2>9
<1>4. CASE SendFails \/ ProfileFinish
  <2>1. sender'.pc # "send" /\ UNCHANGED <<final, received>>
    BY <1>4 DEF SendFails, ProfileFinish, IInv, TypeOK
  <2> QED
    BY <1>0, <2>1 DEF EndsInv, OrderInv, Before, Past
<1> QED
  BY <1>2, <1>3, <1>4 DEF Send

LEMMA OrderStep ==
  ASSUME IInv, EndsInv, OrderInv, [Next]_vars
  PROVE  EndsInv' /\ OrderInv'
<1>1. CASE UNCHANGED <<final, sender, received>>
  <2>0. /\ received \in Seq(Result) /\ final \in Seq(Result)
        /\ \A r \in Result : r.id \in Task
    BY DEF IInv, TypeOK, Result
  <2>1. \A i \in 1..Len(received) : received[i].id \in Task
    BY <2>0, ElementOfSeq
  <2>2. \A i \in 1..Len(final) : final[i].id \in Task
    BY <2>0, ElementOfSeq
  <2>3. sender.pc = "send" => sender.msg.id \in Task
    BY DEF IInv, SentInv, Result
  <2>4. \A t \in Task : Past(t) => Past(t)'
    BY PastStays
  <2>5. /\ (\A i \in 1..Len(received) : received[i].last => Past(received[i].id))'
        /\ (\A i \in 1..Len(final) : final[i].last => Past(final[i].id))'
        /\ (sender.pc = "send" /\ sender.msg.last => Past(sender.msg.id))'
    BY <1>1, <2>1, <2>2, <2>3, <2>4 DEF EndsInv
  <2>6. EndsInv'
    BY <1>1, <2>5, CurrentFired DEF EndsInv
  <2> QED
    BY <1>1, <2>6 DEF OrderInv, Before
<1> QED
  BY <1>1, PutsOrder, SendOrder, ResultsMove

\* The backend never gets anything of a task after its last chunk, whatever the
\* send loop loses and however the tasks follow each other.
THEOREM LastIsLast == Spec => []NothingAfterLast
<1>1. Init => EndsInv /\ OrderInv
  BY DEF Init, EndsInv, OrderInv
<1>2. OrderInv => NothingAfterLast
  BY DEF OrderInv, NothingAfterLast, Before
<1> QED
  BY <1>1, <1>2, OrderStep, Invariance, PTL DEF Spec
=============================================================================

---------------------------- MODULE ProfileManager ----------------------------
(***************************************************************************)
(* Trace profiling (plugins/core/profile.go, profile_writer.go and the     *)
(* profile goroutines of reporter/grpc/grpc.go).  A task fetched from the  *)
(* backend starts, at its start time, the CPU profiler of the process;     *)
(* what the profiler writes goes through three goroutines:                 *)
(*                                                                         *)
(*   profiler/monitor --rawCh--> report goroutine --FinalReportResults-->  *)
(*   send loop --stream--> backend                                         *)
(*                                                                         *)
(* m.mu makes one step of each critical section; everything else           *)
(* interleaves.  Time is a clock that timers compare against: a timer      *)
(* fires at its time or later.                                             *)
(***************************************************************************)
EXTENDS Integers, Sequences, FiniteSets

CONSTANTS Task, NoTask,
          Start,       \* the start time of each task
          Duration,    \* of a profile, the same for all tasks
          TimeOut,     \* "timeOut" (two minutes)
          Cap,         \* capacity of rawCh and of FinalReportResults
          MaxTime,     \* bound: the clock stops here, see Tick
          MaxChunks    \* bound: full chunks a profile fills before its last

Free  == "free"
Other == "other"

ASSUME ProfileAssumption ==
  /\ Task \cap {NoTask, Free, Other} = {}
  /\ Start \in [Task -> Nat]
  /\ Duration \in Nat \ {0} /\ TimeOut \in Nat
  /\ Cap \in Nat \ {0} /\ MaxTime \in Nat /\ MaxChunks \in Nat

VARIABLES
  now,
  fetch,        \* where the fetch loop of the reporter is
  queue,        \* ProfileTaskQueue, from which nothing is ever removed
  timer,        \* the AfterFunc of each queued task
  traceTask,    \* m.TraceProfileTask
  status,       \* the Status of each task
  currentTask,  \* m.currentTask
  curExist,     \* event CurTaskExist
  profiling,    \* event IfProfiling
  cpu,          \* who has the process-wide CPU profiler (runtime/pprof)
  monitor,      \* where the monitor goroutine of each profile is
  deadline,     \* when the monitor that waits will go on
  buf,          \* whose data is in ProfilingWriter.buf
  chunks,       \* full chunks written so far by each profile
  rawCh,
  report,       \* the report goroutine: where it is, its chunk and its task
  final,        \* FinalReportResults
  sender,       \* the profile send loop: where it is and what it sends
  received      \* history: what reached the backend

slotVars == <<traceTask, status, currentTask, curExist>>
runVars  == <<profiling, cpu, monitor, deadline>>
dataVars == <<buf, chunks, rawCh>>
sendVars == <<sender, received>>
vars == <<now, fetch, queue, timer, slotVars, runVars, dataVars, report, final, sendVars>>

EndTime(t) == Start[t] + Duration

Raw      == [of : SUBSET Task, last : BOOLEAN]
Result   == [id : Task, of : SUBSET Task, last : BOOLEAN]
NoRaw    == [of |-> {}, last |-> FALSE]
NoResult == [id |-> NoTask, of |-> {}, last |-> FALSE]

Init ==
  /\ now = 0
  /\ fetch = "idle"
  /\ queue = {}
  /\ timer = [t \in Task |-> "none"]
  /\ traceTask = NoTask
  /\ status = [t \in Task |-> "Pending"]
  /\ currentTask = NoTask
  /\ curExist = FALSE
  /\ profiling = FALSE
  /\ cpu = Free
  /\ monitor = [t \in Task |-> "none"]
  /\ deadline = 0
  /\ buf = {}
  /\ chunks = [t \in Task |-> 0]
  /\ rawCh = <<>>
  /\ report = [pc |-> "recv", raw |-> NoRaw, task |-> NoTask]
  /\ final = <<>>
  /\ sender = [pc |-> "recv", msg |-> NoResult]
  /\ received = <<>>
-----------------------------------------------------------------------------
(* Tasks: fetched, started at their time, removed *)

\* fetchProfileTasksOnce: the answer to GetProfileTaskCommands.  A query that
\* fails ends the round before anything was done, and leaves this state alone.
FetchAnswered ==
  /\ fetch = "idle"
  /\ fetch' = "handling"
  /\ UNCHANGED <<now, queue, timer, slotVars, runVars, dataVars, report, final, sendVars>>

\* A panic while the commands are handled: the round is recovered, and over.
FetchPanics ==
  /\ fetch = "handling"
  /\ fetch' = "idle"
  /\ UNCHANGED <<now, queue, timer, slotVars, runVars, dataVars, report, final, sendVars>>

\* AddProfileTask: a task that overlaps a queued one is dropped (so is the
\* same task, fetched again); the others get a timer.
AddProfileTask(t) ==
  /\ fetch = "handling"
  /\ \A q \in queue : ~(EndTime(t) > Start[q] /\ Start[t] < EndTime(q))
  /\ queue' = queue \cup {t}
  /\ timer' = [timer EXCEPT ![t] = "armed"]
  /\ UNCHANGED <<now, fetch, slotVars, runVars, dataVars, report, final, sendVars>>

\* StartCPUProfile fails when somebody else is profiling; then there is a
\* current task but no profile and no monitor.
TryStartCPUProfiling(t) ==
  IF cpu = Free
  THEN /\ cpu' = t
       /\ profiling' = TRUE
       /\ status' = [status EXCEPT ![t] = "Running"]
       /\ monitor' = [monitor EXCEPT ![t] = "waiting"]
       /\ deadline' = now + Duration
  ELSE UNCHANGED <<status, runVars>>

\* Mutant of CouldSetCurTask: the event is ~IfProfiling alone.
CouldSetAfterProfile == ~profiling

CouldSetCurTask == ~profiling /\ ~curExist

\* The timer's callback, all of it under m.mu
TimerFires(t) ==
  /\ timer[t] = "armed" /\ now >= Start[t]
  /\ timer' = [timer EXCEPT ![t] = "fired"]
  /\ IF traceTask # NoTask
     THEN UNCHANGED <<slotVars, runVars>>
     ELSE /\ traceTask' = t
          /\ IF \/ currentTask # NoTask /\ now < EndTime(currentTask) + TimeOut
                \/ ~CouldSetCurTask
             THEN UNCHANGED <<status, currentTask, curExist, runVars>>
             ELSE /\ currentTask' = t
                  /\ curExist' = TRUE
                  /\ TryStartCPUProfiling(t)
  /\ UNCHANGED <<now, fetch, queue, dataVars, report, final, sendVars>>

\* Mutant of RemoveProfileTask: no timeout, only tasks that were reported.
RemoveReported ==
  /\ fetch = "handling"
  /\ fetch' = "idle"
  /\ traceTask' = IF traceTask # NoTask /\ status[traceTask] = "Reported" THEN NoTask ELSE traceTask
  /\ UNCHANGED <<now, queue, timer, status, currentTask, curExist, runVars, dataVars, report,
                 final, sendVars>>

Removable ==
  /\ traceTask # NoTask
  /\ status[traceTask] = "Reported" \/ now > EndTime(traceTask) + TimeOut

\* At the end of a fetch round that was answered
RemoveProfileTask ==
  /\ fetch = "handling"
  /\ fetch' = "idle"
  /\ traceTask' = IF Removable THEN NoTask ELSE traceTask
  /\ UNCHANGED <<now, queue, timer, status, currentTask, curExist, runVars, dataVars, report,
                 final, sendVars>>
-----------------------------------------------------------------------------
(* A profile: the profiler writes, the monitor stops it *)

\* ProfilingWriter.Write: data is kept, or fills the buffer up to one chunk.
Write(t) ==
  /\ cpu = t
  /\ \/ /\ buf' = buf \cup {t}
        /\ UNCHANGED <<chunks, rawCh>>
     \/ /\ chunks[t] < MaxChunks /\ Len(rawCh) < Cap
        /\ rawCh' = Append(rawCh, [of |-> buf \cup {t}, last |-> FALSE])
        /\ chunks' = [chunks EXCEPT ![t] = @ + 1]
        /\ buf' \in {{}, {t}}
  /\ UNCHANGED <<now, fetch, queue, timer, slotVars, runVars, report, final, sendVars>>

\* StopCPUProfile stops the profile that runs, whoever started it.
MonitorStops(t) ==
  /\ monitor[t] = "waiting" /\ now >= deadline
  /\ cpu' = Free
  /\ monitor' = [monitor EXCEPT ![t] = "stopped"]
  /\ UNCHANGED <<now, fetch, queue, timer, slotVars, profiling, deadline, dataVars, report, final,
                 sendVars>>

MonitorClears(t) ==
  /\ monitor[t] = "stopped"
  /\ profiling' = FALSE
  /\ monitor' = [monitor EXCEPT ![t] = "cleared"]
  /\ UNCHANGED <<now, fetch, queue, timer, slotVars, cpu, deadline, dataVars, report, final, sendVars>>

\* Mutant of Flush: nothing is sent for an empty buffer.
FlushNonEmpty(t) ==
  /\ monitor[t] = "cleared" /\ Len(rawCh) < Cap
  /\ rawCh' = IF buf = {} THEN rawCh ELSE Append(rawCh, [of |-> buf, last |-> TRUE])
  /\ buf' = {}
  /\ monitor' = [monitor EXCEPT ![t] = "done"]
  /\ UNCHANGED <<now, fetch, queue, timer, slotVars, profiling, cpu, deadline, chunks, report, final,
                 sendVars>>

\* ProfilingWriter.Flush: the rest is the last chunk, even if there is none.
Flush(t) ==
  /\ monitor[t] = "cleared" /\ Len(rawCh) < Cap
  /\ rawCh' = Append(rawCh, [of |-> buf, last |-> TRUE])
  /\ buf' = {}
  /\ monitor' = [monitor EXCEPT ![t] = "done"]
  /\ UNCHANGED <<now, fetch, queue, timer, slotVars, profiling, cpu, deadline, chunks, report, final,
                 sendVars>>

\* A pprof task (pprof.go) or the application has the profiler for a while.
OtherStarts ==
  /\ cpu = Free
  /\ cpu' = Other
  /\ UNCHANGED <<now, fetch, queue, timer, slotVars, profiling, monitor, deadline, dataVars, report,
                 final, sendVars>>

OtherStops ==
  /\ cpu = Other
  /\ cpu' = Free
  /\ UNCHANGED <<now, fetch, queue, timer, slotVars, profiling, monitor, deadline, dataVars, report,
                 final, sendVars>>
-----------------------------------------------------------------------------
(* The report goroutine started by initReportChannel *)

ReportReceives ==
  /\ report.pc = "recv" /\ rawCh # <<>>
  /\ report' = [report EXCEPT !.pc = "look", !.raw = Head(rawCh)]
  /\ rawCh' = Tail(rawCh)
  /\ UNCHANGED <<now, fetch, queue, timer, slotVars, runVars, buf, chunks, final, sendVars>>

\* m.currentTask says whose chunk it is; without one the chunk is dropped.
ReportLooks ==
  /\ report.pc = "look"
  /\ report' = [report EXCEPT !.pc = IF currentTask = NoTask THEN "recv" ELSE "put",
                              !.task = currentTask]
  /\ UNCHANGED <<now, fetch, queue, timer, slotVars, runVars, dataVars, final, sendVars>>

ReportPuts ==
  /\ report.pc = "put" /\ Len(final) < Cap
  /\ final' = Append(final, [id |-> report.task, of |-> report.raw.of, last |-> report.raw.last])
  /\ report' = [report EXCEPT !.pc = IF report.raw.last THEN "finish" ELSE "recv"]
  /\ UNCHANGED <<now, fetch, queue, timer, slotVars, runVars, dataVars, sendVars>>

\* After the last chunk: the task that is m.TraceProfileTask now is Finished.
ReportFinishes ==
  /\ report.pc = "finish"
  /\ IF traceTask = NoTask
     THEN UNCHANGED status
     ELSE status' = [status EXCEPT ![traceTask] = "Finished"]
  /\ currentTask' = NoTask
  /\ curExist' = FALSE
  /\ report' = [report EXCEPT !.pc = "recv"]
  /\ UNCHANGED <<now, fetch, queue, timer, traceTask, runVars, dataVars, final, sendVars>>

Report == ReportReceives \/ ReportLooks \/ ReportPuts \/ ReportFinishes
-----------------------------------------------------------------------------
(* The send loop of the gRPC reporter *)

SendTakes ==
  /\ sender.pc = "recv" /\ final # <<>>
  /\ sender' = [pc |-> "send", msg |-> Head(final)]
  /\ final' = Tail(final)
  /\ UNCHANGED <<now, fetch, queue, timer, slotVars, runVars, dataVars, report, received>>

SendSucceeds ==
  /\ sender.pc = "send"
  /\ received' = Append(received, sender.msg)
  /\ sender' = [sender EXCEPT !.pc = IF sender.msg.last THEN "finish" ELSE "recv"]
  /\ UNCHANGED <<now, fetch, queue, timer, slotVars, runVars, dataVars, report, final>>

\* Mutant of SendFails: the result is put back for the next stream.
SendFailsPutBack ==
  /\ sender.pc = "send" /\ Len(final) < Cap
  /\ final' = Append(final, sender.msg)
  /\ sender' = [sender EXCEPT !.pc = "recv"]
  /\ UNCHANGED <<now, fetch, queue, timer, slotVars, runVars, dataVars, report, received>>

\* Send failed (or panicked): the result is gone, the loop goes on.
SendFails ==
  /\ sender.pc = "send"
  /\ sender' = [sender EXCEPT !.pc = "recv"]
  /\ UNCHANGED <<now, fetch, queue, timer, slotVars, runVars, dataVars, report, final, received>>

\* ProfileFinish dereferences m.TraceProfileTask: without one it panics, and
\* the recover of the goroutine lets the loop end.
ProfileFinish ==
  /\ sender.pc = "finish"
  /\ IF traceTask = NoTask
     THEN sender' = [sender EXCEPT !.pc = "dead"] /\ UNCHANGED status
     ELSE /\ status' = [status EXCEPT ![traceTask] = "Reported"]
          /\ sender' = [sender EXCEPT !.pc = "recv"]
  /\ UNCHANGED <<now, fetch, queue, timer, traceTask, currentTask, curExist, runVars, dataVars, report,
                 final, received>>

Send == SendTakes \/ SendSucceeds \/ SendFails \/ ProfileFinish
-----------------------------------------------------------------------------
\* The clock goes on beyond its bound only for a monitor that waits.
Tick ==
  /\ now < MaxTime \/ \E t \in Task : monitor[t] = "waiting" /\ now < deadline
  /\ now' = now + 1
  /\ UNCHANGED <<fetch, queue, timer, slotVars, runVars, dataVars, report, final, sendVars>>

Monitor(t) == MonitorStops(t) \/ MonitorClears(t) \/ Flush(t)

Next ==
  \/ \E t \in Task : AddProfileTask(t) \/ TimerFires(t) \/ Write(t) \/ Monitor(t)
  \/ FetchAnswered \/ FetchPanics \/ RemoveProfileTask \/ OtherStarts \/ OtherStops
  \/ Report \/ Send \/ Tick

Spec == Init /\ [][Next]_vars

\* Timers fire, the goroutines run and the send loop gets a stream again after it
\* lost one; that a send succeeds, that anything is profiled, or that any fetch
\* is answered, is not assumed.
FairSpec ==
  /\ Spec
  /\ WF_vars(Tick) /\ WF_vars(Report) /\ WF_vars(Send)
  /\ \A t \in Task : WF_vars(TimerFires(t)) /\ WF_vars(Monitor(t))
-----------------------------------------------------------------------------
(* Properties *)

TypeOK ==
  /\ now \in Nat
  /\ fetch \in {"idle", "handling"}
  /\ queue \subseteq Task
  /\ timer \in [Task -> {"none", "armed", "fired"}]
  /\ traceTask \in Task \cup {NoTask}
  /\ status \in [Task -> {"Pending", "Running", "Finished", "Reported"}]
  /\ currentTask \in Task \cup {NoTask}
  /\ curExist \in BOOLEAN /\ profiling \in BOOLEAN
  /\ cpu \in Task \cup {Free, Other}
  /\ monitor \in [Task -> {"none", "waiting", "stopped", "cleared", "done"}]
  /\ deadline \in Nat
  /\ buf \subseteq Task
  /\ chunks \in [Task -> Nat]
  /\ rawCh \in Seq(Raw)
  /\ report \in [pc : {"recv", "look", "put", "finish"}, raw : Raw, task : Task \cup {NoTask}]
  /\ final \in Seq(Result)
  /\ sender \in [pc : {"recv", "send", "finish", "dead"}, msg : Result \cup {NoResult}]
  /\ received \in Seq(Result)

\* While a profile runs it has the CPU profiler, is the current task that
\* spans are labelled for (profile.go:301) and both events say so; so the
\* monitor never stops a profile that is not its own.
RunningOwnsProfiler ==
  \A t \in Task : monitor[t] = "waiting" =>
    cpu = t /\ currentTask = t /\ profiling /\ curExist

\* The report goroutine attributes a chunk by m.currentTask as it is when the
\* chunk comes out of rawCh, long after it was written: still no chunk holds
\* or is sent as the data of another task.
ChunksAttributed ==
  \A i \in 1..Len(received) : received[i].of \subseteq {received[i].id}

\* The backend never gets anything of a task after its last chunk.
NothingAfterLast ==
  \A i, j \in 1..Len(received) :
    i < j /\ received[i].id = received[j].id => ~received[i].last

\* "Remove completed tasks" (grpc.go:608): a task whose last chunk was sent and
\* acknowledged to the manager does not stay in the slot once the report
\* goroutine is through with it; the next fetch that is answered empties it.
Completed(t) ==
  /\ \E i \in 1..Len(received) : received[i].id = t /\ received[i].last
  /\ sender.pc = "recv" /\ currentTask # t
CompletedIsRemovable ==
  traceTask # NoTask /\ Completed(traceTask) => Removable

\* Every task leaves the slot in the end, by being reported or by its timeout, if
\* again and again a fetch is answered and its commands are handled to the end:
\* fetchProfileTasksOnce returns before the clean-up when the query fails
\* (grpc.go:595-598), and a panic skips it.
RoundsComplete == []<><<RemoveProfileTask>>_vars
SlotIsFreed == RoundsComplete => \A t \in Task : traceTask = t ~> traceTask # t

\* A profile that runs ends, and the current task with it, unless the send
\* loop has ended.
ProfileEnds ==
  \A t \in Task : monitor[t] = "waiting" ~> currentTask # t \/ sender.pc = "dead"
=============================================================================

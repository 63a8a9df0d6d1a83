------------------------------ MODULE PprofTasks ------------------------------
(***************************************************************************)
(* pprof tasks (reporter/pprof_manager.go and pprof.go).  One goroutine    *)
(* polls the backend for commands and starts tasks; a task that lasts is   *)
(* stopped by a timer on a goroutine of its own, and its result goes       *)
(* through a bounded queue to the goroutine that uploads.  The tasks share *)
(* what the process has once: the CPU profiler (also with trace profiling, *)
(* see ProfileManager), and the sampling rates of the block and mutex      *)
(* profiles.  How long a task lasts is left open: timers fire in any order.*)
(***************************************************************************)
EXTENDS Naturals, Sequences, FiniteSets

CONSTANTS Task, NoTask,
          Event,        \* "cpu", "block", "mutex", "direct" or "invalid"
          CreateTime,   \* of each task, given by the backend
          TaskDuration, \* in minutes, as deserialized: 0 when absent or not a number
          DumpPeriod,   \* as deserialized
          MaxMinutes,   \* pprofTaskDurationMaxMinute
          SendCap       \* maxPprofSendQueueSize

Free  == "free"
Other == "other"
Ended == "ended"
Rated == {"block", "mutex"}

ASSUME PprofAssumption ==
  /\ Task \cap {NoTask, Free, Other, Ended} = {} /\ NoTask # Ended
  /\ Event \in [Task -> Rated \cup {"cpu", "direct", "invalid"}]
  /\ CreateTime \in [Task -> Nat \ {0}]
  /\ TaskDuration \in [Task -> Nat] /\ DumpPeriod \in [Task -> Nat]
  /\ MaxMinutes \in Nat \ {0} /\ SendCap \in Nat \ {0}

VARIABLES
  link,        \* what GetConnectionStatus says
  last,        \* LastUpdateTime
  loop,        \* the command loop: the task it starts, NoTask, or Ended
  flag,        \* profilingIsRunning
  cpu,         \* who has the CPU profiler of the process
  rate,        \* the block and mutex sampling rates of the process
  stage,       \* how far each task is
  overlapped,  \* history: tasks that sampled while another of their event did
  sendCh,      \* pprofSendCh
  upload,      \* the upload goroutine: where it is and what it sends
  reached,     \* history: results of each task the backend has
  dropped      \* history: results of each task that were given up

sampleVars == <<flag, cpu, rate, stage, overlapped>>
resultVars == <<sendCh, dropped>>
uploadVars == <<upload, reached>>
pprofVars  == <<link, last, loop, sampleVars, resultVars, uploadVars>>

Sampling(e) == {t \in Task : Event[t] = e /\ stage[t] \in {"sampling", "stopped"}}

PprofInit ==
  /\ link = "connected"
  /\ last = 0
  /\ loop = NoTask
  /\ flag = FALSE
  /\ cpu = Free
  /\ rate = [e \in Rated |-> 0]
  /\ stage = [t \in Task |-> "none"]
  /\ overlapped = {}
  /\ sendCh = <<>>
  /\ upload = [pc |-> "check", task |-> NoTask]
  /\ reached = [t \in Task |-> 0]
  /\ dropped = [t \in Task |-> 0]
-----------------------------------------------------------------------------
(* Commands: fetched, checked, started *)

CheckCommand(t) ==
  /\ Event[t] # "invalid"
  /\ Event[t] # "direct" => TaskDuration[t] \in 1..MaxMinutes
  /\ Event[t] \in Rated => DumpPeriod[t] > 0

\* Mutant of IsNew: a command of the same time is new too.
IsNewOrSame(t) == CreateTime[t] >= last

IsNew(t) == CreateTime[t] > last

\* A poll that answers t, which the backend may do in any order and more than
\* once.  The time is kept before the command is checked, and one that does
\* not pass the check is dropped without a word to the backend.
HandleCommand(t) ==
  /\ loop = NoTask /\ link = "connected"
  /\ IsNew(t)
  /\ last' = CreateTime[t]
  /\ IF CheckCommand(t)
     THEN /\ loop' = t
          /\ stage' = [stage EXCEPT ![t] = "starting"]
     ELSE /\ stage' = [stage EXCEPT ![t] = "rejected"]
          /\ UNCHANGED loop
  /\ UNCHANGED <<link, flag, cpu, rate, overlapped, resultVars, uploadVars>>

LoopEnds ==
  /\ loop = NoTask /\ link = "shutdown"
  /\ loop' = Ended
  /\ UNCHANGED <<link, last, sampleVars, resultVars, uploadVars>>

\* ReportPprof and ReportPprofError: a result that finds the queue full is lost.
Report(t) ==
  IF Len(sendCh) < SendCap
  THEN /\ sendCh' = Append(sendCh, t)
       /\ UNCHANGED dropped
  ELSE /\ dropped' = [dropped EXCEPT ![t] = @ + 1]
       /\ UNCHANGED sendCh

\* the end of StartTask, with or without an error, and of the command
Started(t, s) ==
  /\ loop' = NoTask
  /\ stage' = [stage EXCEPT ![t] = s]

\* CompareAndSwap of profilingIsRunning
ClaimCpu(t) ==
  /\ loop = t /\ stage[t] = "starting" /\ Event[t] = "cpu"
  /\ IF flag
     THEN /\ Started(t, "done")
          /\ Report(t)
          /\ UNCHANGED flag
     ELSE /\ flag' = TRUE
          /\ stage' = [stage EXCEPT ![t] = "claimed"]
          /\ UNCHANGED <<loop, resultVars>>
  /\ UNCHANGED <<link, last, cpu, rate, overlapped, uploadVars>>

MayBegin(t) == loop = t /\ stage[t] = (IF Event[t] = "cpu" THEN "claimed" ELSE "starting")

\* Mutant of StartFails: the flag is left set.
StartFailsClaimed(t) ==
  /\ MayBegin(t)
  /\ Started(t, "done")
  /\ Report(t)
  /\ UNCHANGED <<link, last, flag, cpu, rate, overlapped, uploadVars>>

\* getWriter can fail for any task that writes to a file, StartCPUProfile when
\* the profiler is not free.
StartFails(t) ==
  /\ MayBegin(t)
  /\ flag' = IF Event[t] = "cpu" THEN FALSE ELSE flag
  /\ Started(t, "done")
  /\ Report(t)
  /\ UNCHANGED <<link, last, cpu, rate, overlapped, uploadVars>>

StartCpu(t) ==
  /\ MayBegin(t) /\ Event[t] = "cpu" /\ cpu = Free
  /\ cpu' = t
  /\ Started(t, "sampling")
  /\ UNCHANGED <<link, last, flag, rate, overlapped, resultVars, uploadVars>>

\* SetBlockProfileRate, SetMutexProfileFraction
StartRated(t) ==
  /\ MayBegin(t) /\ Event[t] \in Rated
  /\ rate' = [rate EXCEPT ![Event[t]] = DumpPeriod[t]]
  /\ overlapped' = IF Sampling(Event[t]) = {} THEN overlapped
                   ELSE overlapped \cup Sampling(Event[t]) \cup {t}
  /\ Started(t, "sampling")
  /\ UNCHANGED <<link, last, flag, cpu, resultVars, uploadVars>>

\* Heap, allocs, goroutine and threadcreate: StopTask at once, on the loop
SampleDirectly(t) ==
  /\ MayBegin(t) /\ Event[t] = "direct"
  /\ Started(t, "done")
  /\ Report(t)
  /\ UNCHANGED <<link, last, flag, cpu, rate, overlapped, uploadVars>>
-----------------------------------------------------------------------------
(* StopTask, on the goroutine of the task's timer *)

\* the profile is complete: StopCPUProfile stops whatever profile runs, the
\* others are written out
StopSampling(t) ==
  /\ stage[t] = "sampling"
  /\ cpu' = IF Event[t] = "cpu" THEN Free ELSE cpu
  /\ stage' = [stage EXCEPT ![t] = "stopped"]
  /\ UNCHANGED <<link, last, loop, flag, rate, overlapped, resultVars, uploadVars>>

\* Mutant of ResetShared: the mutex fraction is reset with the block rate.
ResetAllRates(t) ==
  /\ stage[t] = "stopped"
  /\ flag' = IF Event[t] = "cpu" THEN FALSE ELSE flag
  /\ rate' = IF Event[t] \in Rated THEN [e \in Rated |-> 0] ELSE rate
  /\ stage' = [stage EXCEPT ![t] = "reset"]
  /\ UNCHANGED <<link, last, loop, cpu, overlapped, resultVars, uploadVars>>

\* The rate goes to 0 also when another task of the same event still samples.
ResetShared(t) ==
  /\ stage[t] = "stopped"
  /\ flag' = IF Event[t] = "cpu" THEN FALSE ELSE flag
  /\ rate' = IF Event[t] \in Rated THEN [rate EXCEPT ![Event[t]] = 0] ELSE rate
  /\ stage' = [stage EXCEPT ![t] = "reset"]
  /\ UNCHANGED <<link, last, loop, cpu, overlapped, resultVars, uploadVars>>

\* readPprofData
ReportResult(t) ==
  /\ stage[t] = "reset"
  /\ stage' = [stage EXCEPT ![t] = "done"]
  /\ Report(t)
  /\ UNCHANGED <<link, last, loop, flag, cpu, rate, overlapped, uploadVars>>
-----------------------------------------------------------------------------
(* initPprofSendPipeline: it waits for the first connection and never looks
   at the status again *)

UploadBegins ==
  /\ upload.pc = "check" /\ link # "disconnect"
  /\ upload' = [upload EXCEPT !.pc = IF link = "shutdown" THEN Ended ELSE "range"]
  /\ UNCHANGED <<link, last, loop, sampleVars, resultVars, reached>>

UploadTakes ==
  /\ upload.pc = "range" /\ sendCh # <<>>
  /\ upload' = [pc |-> "upload", task |-> Head(sendCh)]
  /\ sendCh' = Tail(sendCh)
  /\ UNCHANGED <<link, last, loop, sampleVars, dropped, reached>>

UploadSucceeds ==
  /\ upload.pc = "upload"
  /\ reached' = [reached EXCEPT ![upload.task] = @ + 1]
  /\ upload' = [pc |-> "range", task |-> NoTask]
  /\ UNCHANGED <<link, last, loop, sampleVars, resultVars>>

\* Mutant of UploadFails: an upload that fails ends the goroutine.
UploadFailsForGood ==
  /\ upload.pc = "upload"
  /\ dropped' = [dropped EXCEPT ![upload.task] = @ + 1]
  /\ upload' = [pc |-> Ended, task |-> NoTask]
  /\ UNCHANGED <<link, last, loop, sampleVars, sendCh, reached>>

\* Any step of uploadPprofDataOnce may fail, or the backend refuse the size:
\* the result is not tried again, chunks may have been received already.
UploadFails ==
  /\ upload.pc = "upload"
  /\ dropped' = [dropped EXCEPT ![upload.task] = @ + 1]
  /\ upload' = [pc |-> "range", task |-> NoTask]
  /\ UNCHANGED <<link, last, loop, sampleVars, sendCh, reached>>
-----------------------------------------------------------------------------
(* The rest of the process *)

\* ProfileManager and the program itself use the CPU profiler too; each stops
\* only what it started (ProfileManager, RunningOwnsProfiler).
OthersProfile ==
  /\ \/ cpu = Free /\ cpu' = Other
     \/ cpu = Other /\ cpu' = Free
  /\ UNCHANGED <<link, last, loop, flag, rate, stage, overlapped, resultVars, uploadVars>>

LinkChanges ==
  /\ link # "shutdown"
  /\ link' \in {"connected", "disconnect", "shutdown"} \ {link}
  /\ UNCHANGED <<last, loop, sampleVars, resultVars, uploadVars>>

LoopStep(t)  == HandleCommand(t) \/ ClaimCpu(t) \/ StartFails(t) \/ StartCpu(t)
                \/ StartRated(t) \/ SampleDirectly(t)
TimerStep(t) == StopSampling(t) \/ ResetShared(t) \/ ReportResult(t)
UploadStep   == UploadBegins \/ UploadTakes \/ UploadSucceeds \/ UploadFails

PprofNext ==
  \/ \E t \in Task : LoopStep(t) \/ TimerStep(t)
  \/ LoopEnds \/ UploadStep \/ OthersProfile \/ LinkChanges

PprofSpec == PprofInit /\ [][PprofNext]_pprofVars

\* Goroutines are scheduled and timers fire; an upload ends within a minute,
\* its deadline.  The poll itself need not answer.
PprofFairness ==
  /\ \A t \in Task : WF_pprofVars(loop = t /\ LoopStep(t)) /\ WF_pprofVars(TimerStep(t))
  /\ WF_pprofVars(UploadStep)

FairPprofSpec == PprofSpec /\ PprofFairness
-----------------------------------------------------------------------------
PprofTypeOK ==
  /\ link \in {"connected", "disconnect", "shutdown"}
  /\ last \in Nat
  /\ loop \in Task \cup {NoTask, Ended}
  /\ flag \in BOOLEAN
  /\ cpu \in Task \cup {Free, Other}
  /\ rate \in [Rated -> Nat]
  /\ stage \in [Task -> {"none", "rejected", "starting", "claimed", "sampling",
                         "stopped", "reset", "done"}]
  /\ overlapped \subseteq Task
  /\ sendCh \in Seq(Task) /\ Len(sendCh) <= SendCap
  /\ upload \in [pc : {"check", "range", "upload", Ended}, task : Task \cup {NoTask}]
  /\ reached \in [Task -> Nat] /\ dropped \in [Task -> Nat]

\* "ensure only one CPU profiling task runs at a time" (pprof.go:45): the flag
\* is set exactly while one CPU task is between its claim and its stop, over
\* every way StartTask can fail, and the task that samples has the profiler,
\* so that its StopCPUProfile stops no profile of somebody else.
OneCpuTask ==
  LET busy == {t \in Task : Event[t] = "cpu" /\ stage[t] \in {"claimed", "sampling", "stopped"}}
  IN /\ flag <=> busy # {}
     /\ \A t, u \in busy : t = u
     /\ \A t \in Task : (Event[t] = "cpu" /\ stage[t] = "sampling") <=> cpu = t

\* No block or mutex rate stays on when nothing samples with it, which would
\* slow the program down for good; and a task that overlaps no other of its
\* event samples with its own rate to the end (pprof.go:179-181, 196, 201).
RatesFollowTasks ==
  \A e \in Rated :
    /\ Sampling(e) = {} => rate[e] = 0
    /\ \A t \in Sampling(e) \ overlapped : rate[e] = DumpPeriod[t]

\* A command is carried out once, however often and in whatever order the
\* backend repeats it (LastUpdateTime, pprof_manager.go:143): a task that is
\* done has exactly one result, in the queue, under way, received or given up;
\* one that is not done has none.
InQueue(t) == Cardinality({i \in DOMAIN sendCh : sendCh[i] = t})

OneResult ==
  \A t \in Task :
    InQueue(t) + (IF upload.task = t THEN 1 ELSE 0) + reached[t] + dropped[t]
      = (IF stage[t] = "done" THEN 1 ELSE 0)

\* With a backend that stays connected every task that was accepted is in the
\* end answered or its result given up: neither a failed start nor a failed
\* upload leaves the queue or a goroutine stuck (pprof_manager.go:152-170,
\* 292-318).
Settled ==
  \A t \in Task : stage[t] \notin {"none", "rejected"} => reached[t] + dropped[t] > 0

AcceptedIsSettled == <>[](link = "connected") => <>[]Settled
=============================================================================

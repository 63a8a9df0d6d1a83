# TLA+ models of the skywalking-go agent core

SkyWalking Go is a tracing agent that is compiled into the program it observes: `go build
-toolexec` inserts calls of an agent core (`plugins/core`) into frameworks, database drivers and
the Go runtime.  The core keeps the spans of every goroutine, gathers them into trace segments
and sends them, with metrics, logs and profiles, to a backend.  This directory holds TLA+ models
of the concurrent parts of that core, TLC configurations that check them on small instances, and
proofs for the TLA+ proof system of what they promise on instances of any size.

Paths are relative to the repository; `core/` is `plugins/core/`.

## 1. Inventory: the parts of the system

| Part | Code | State | Operations | Modelled in |
|---|---|---|---|---|
| Trace segments | `core/span_tracing.go` | per root: `refNum`, `spanIDGenerator`, the channels `notify`, `doneCh`, `collectorDone`, the collector goroutine and its slice | `NewSegmentSpan`, `segmentRegister`, `end0`, the collector loop | `SegmentReport` (what), `SegmentCollector` (how) |
| Spans and tracing context | `core/span_default.go`, `tracing.go`, `context.go`, `span.go` | active span per goroutine; per span `Parent`, `EndTime`, `ended`, `reuseCount`, async flags | Create (entry, exit, local), `End`, `PrepareAsync`, `AsyncFinish`, capture, continue, clean, the snapshot of a `go` statement | `TracingContext` |
| Connection manager | `core/reporter/conn_manager.go` | map of managed connections with reference count and status; one status goroutine per entry | `GetConnection`, `ReleaseConnection`, `GetConnectionStatus`, `checkConnectionStatus` | `ConnectionManager` |
| gRPC reporter | `core/reporter/grpc/grpc.go` | bounded send channels, a loop and a stream per channel | construction, `Boot`, `SendTracing`, `SendMetrics`, `SendLog`, the loops, `Close` | `ReporterPipeline` (over `ConnectionManager`) |
| Trace profiling | `core/profile*.go`, `core/profile_event_manager.go`, `core/trace_profiling_event_manager.go`, profile goroutines of `grpc.go` | queue of tasks, the task in the slot, current task, events, writer buffer, two channels | fetch, timer, start, write, monitor, report, send, finish, remove | `ProfileManager` |
| Multi-backend dialling | `core/reporter/backend_addresses.go`, `static_backend_resolver.go` | none | address parsing, resolver, dial deadline | one `Dial` step |
| Dynamic configuration (CDS) | `core/reporter/cds_manager.go`, `config_discovery.go` | UUID, watchers | fetch loop, `HandleCommand` | `DynamicConfig` |
| Samplers | `core/sampler.go`, `tracer_ignore.go` | rate and threshold | `IsSampled`, `Notify` | `DynamicConfig`; as a free decision in `NoopSpans` |
| Noop spans | `core/span_noop.go`, `createNoop` in `tracing.go` | stack count | enter, `End`, snapshot | `NoopSpans` |
| Propagation, correlation | `core/propagating.go`, `correlation.go` | locked map | header encoding and decoding | not modelled; a valid upstream context is an input of `NoopSpans` |
| pprof tasks | `core/pprof.go`, `reporter/pprof_manager.go` | `LastUpdateTime`, `profilingIsRunning`, process-wide rates, send queue | poll, check, start, stop, upload | `PprofTasks` |
| Metrics | `core/metrics.go`, `core/metrics/`, list in `tools/go-agent/instrument/runtime` | registry, meters that wait for the tracer | register, take over, count, report | `MeterRegistry` |
| Kafka reporter | `core/reporter/kafka/` | bounded channels, one writer, instance properties | `Boot`, `SendX`, loops, `check`, `Close` | `KafkaReporter` |
| Identifiers | `core/id.go` | time, sequence, random | trace and segment ids | not modelled |
| Log reporting, self-observability, discard reporter, start-up, toolkit, plugins, compile-time instrumentation, protocols | see `PROJECT.json` | none that steps of two actors share | formatting, wiring, source rewriting | not modelled |

How they interact:

```
 plugin interceptors --Create/End/Async--> TracingContext --register, freeze--> SegmentCollector
                                                                                     | SendTracing
 metrics goroutine --SendMetrics-+                                                   v
 logger            --SendLog-----+---> bounded channels --> StreamLoops (ReporterPipeline)
                                                                | streams        | status, release
 ProfileManager --FinalReportResults--> profile send loop ------+-------> ConnectionManager <-- CDS,
       ^ CPU profiler of the process, shared with pprof tasks and the application     pprof managers

 first Create on a goroutine --> tracer state, ignored names, sampler --> noop or TracingContext   (NoopSpans)
 backend --configuration--> DynamicConfig --rate--> samplers
 backend --commands--> PprofTasks --results--> backend
 counters before Init --list in the runtime--> MeterRegistry --SendMetrics--> reporter (gRPC or KafkaReporter)
```

What is hard in it: every part has goroutines of its own that interleave with those of the
application.  Registration of a child races the end of its root (lock-free).  A span has several
owners, and may be ended from another goroutine.  The connection has several holders, and status
goroutines that look at it outside the lock.  Messages are dropped, lost with a stream, or drained
at `Close`.  Profiles share one CPU profiler and hand chunks through two channels to a manager
whose task may have changed.  Nothing is persisted, so there is no recovery after a crash.

What makes each part correct:

- *Segments.*  A segment is reported once, with its root and every span that joined it, all of
  them final; nobody is left waiting on a collector that is gone; a segment whose spans have all
  ended is reported.
- *Spans.*  Owners of a span are counted and sit on one goroutine; the last `End` freezes; a goroutine
  gets its context back; every span arrives in some reported segment, unless the Create call of a span there failed.
- *Connections.*  Who holds a reference has the one managed, open connection; nothing leaks; a
  status is never about another connection; outages are noticed.
- *Pipelines.*  A message is in exactly one place; loops survive outages and end, drained, after `Close`.
- *Profiles.*  A running profile owns the profiler; a chunk is attributed to its task; the slot and
  the current task are given up in the end, as long as the backend answers now and then.
- *pprof tasks.*  One CPU task at a time; no sampling rate outlives its tasks; a command that is repeated
  runs once and has one result.
- *Configuration.*  What the agent acknowledges is in force, and a sampler takes the share its rate asks for.
- *Metrics.*  A counter keeps its count when it is handed over, and is reported unless its registration
  collided with another.
- *Kafka.*  Every message is in one place through `Close`; the loops end with it, drained, unless the writer panics.
- *Noop spans.*  A noop leaves the context with the last call it answered; what a traced goroutine starts is traced.

The hazards, each at its line, with the properties that look at it, are in `PROJECT.json`; those no property
looks at say why.

## 2. Modules and how they correspond to the code

`PROJECT.json` maps every definition to the lines it translates.  Mutants (`...Uncounted`,
`...Again` etc., each marked "Mutant of") are plausible bugs of one definition; substituted for it,
each makes a property of the run fail.  They are never part of a next-state relation.

### SegmentReport and SegmentCollector

`SegmentReport` is the promise: spans join a segment until it is sealed, a sealed segment whose
members have ended is published once and whole.  `SegmentCollector` is `span_tracing.go`.  A segment
is named by its root span.  Its actions are the code's atomic operations: `CopyContext` (the
parent's context is copied and the atomic id generator advanced), `LoadRef` and `CasRef`
(`segmentRegister`), `Freeze` (`ended` is set), `SwapRef` (the root takes `refNum` and leaves -1),
`CollectSpan` and `CollectDone` (the two cases of the collector's `select`; an unbuffered hand-over
is one step of both sides), `CloseDone`, `SendTracing`.  A span whose registration finds -1 becomes
the root of a segment of its own.  Left out: tags, logs and references (data), the trace id, and the
branches of `end0` that give up on `collectorDone`: `NeverStranded` says they are unreachable, and
is proved.

### TracingContext

Extends `SegmentCollector` with what goroutines do.  A context's active span is nil, a live span
or a snapshot (`Ref`).  Every Create that returns a span pushes a *frame* on the goroutine: its caller is one
more owner of that span and will end it, innermost first.  `CreateReused` is the reuse branch of
`CreateEntrySpan` and `CreateExitSpan` with `enterReuse`; `CreateSpan` and `RegisterSpan` are
`createSpan0` with what is left of the call: `Return`, or, for an exit span, `ReturnError`, when the injector of the caller
fails in `Encode` (`tracing.go:165-168`).  The span is created and registered by then, but it is not made active and nobody
has it: it is `lost`, and its segment is never reported.  `EndNested`, `EndAgain`, `EndAsync`, `EndLast` are the outcomes of `endSyncAndFreeze` with the
`SaveActiveSpan(Parent)` and `end0` that follow; `AsyncFlag`, `AsyncEndTime`, `AsyncFreeze` are the three critical
sections of `AsyncFinish`, run by any goroutine; `StartGoroutine` is the runtime hook at a `go` statement.

Assumed of callers, as the toolkit's documentation asks: an owner ends its span once, on the
goroutine that created it, in LIFO order; the owner of an asynchronous span calls `PrepareAsync`
before its `End`, and `AsyncFinish` comes after the `End`.  `NestedAsync` says whether an owner
that got the span by reuse may go asynchronous.  A goroutine's context is replaced
(`ContinueContext`, `CleanContext`) only between requests.  Left out: noop spans and sampling (`NoopSpans`),
correlation and runtime values, `ExtractContext`.

### ConnectionManager

One server address.  The first critical section of `GetConnection` is `GetHit` or `GetMiss`, then
`Dial` or `DialFails` outside the lock, then the second, `Publish` or `Yield` (which closes what it
dialled).  `Release` is `ReleaseConnection`: it counts down whatever entry the map has *now*.  A
status goroutine is named by the connection whose publication started it; a round is `WatchRead`
(lock), `WatchState` (no lock), `WatchWrite` (lock, compares).  `TransportChanges` is gRPC's: the
connectivity state, with Idle, Connecting and Ready as one, since the code treats them alike.

### ReporterPipeline

Extends `ConnectionManager`: the reporter is one of its callers, "others" are the pprof and CDS
managers, which are built first and never release.  Messages are numbered per pipeline.  `SendX`
is the non-blocking `select` with its drop branch, and the recovered panic on a closed channel.  A loop is
`CheckStatus`, `OpenStream` or `OpenFails`, then `Take` and one of `SendSucceeds`, `SendPanics`
(skip the message), `SendFails` (new stream; also the watchdog), and `Drained`, `EndLoop` after `Close`; `EndLoop` of the
trace loop releases the connection.  `BackendReceives`, `StreamBreaks` and `TransportChanges` are the
network.  `lost` and `refused` are history variables.

### ProfileManager

Time is a clock; a timer fires at its time or any time later.  `AddProfileTask`, `TimerFires` (the
whole callback under `m.mu`), `Write`, `MonitorStops`, `MonitorClears` and `Flush` (the
goroutine `monitor`, whose steps interleave with others), `ReportReceives`, `ReportLooks`,
`ReportPuts`, `ReportFinishes` (the goroutine of `initReportChannel`), `SendTakes`,
`SendSucceeds`, `SendFails`, `ProfileFinish` (the send loop, which a nil task ends).  A round of the fetch loop that is
answered is `FetchAnswered`, `AddProfileTask` for its commands, and `RemoveProfileTask`, or it ends with `FetchPanics`; one whose query fails
changes nothing (`grpc.go:595-598`).  `OtherStarts` and `OtherStops` are pprof tasks and the application, which use
the same CPU profiler.  A chunk is abstracted to the set of tasks whose data is in it, and whether it is the last.

### PprofTasks

The command loop carries one task (`loop`) from `HandleCommand` (the poll, the comparison with `LastUpdateTime`, the
check of the command) through `StartTask`: `ClaimCpu` (`profilingIsRunning`), then `StartCpu`, `StartRated`,
`SampleDirectly` or `StartFails`.  `stage` says how far each task is; timers fire in any order, and `StopTask` is
`StopSampling`, `ResetShared` (flag or rate), `ReportResult`.  The profiler may be taken by somebody else
(`ProfileManager`, the application).  Results go through a queue of `SendCap` that drops
when full, to the upload loop, whose upload succeeds, fails or is refused.  Files, chunks and deserialisation
are part of the step that succeeds or fails.

### DynamicConfig

The fetch goroutine (`Fetch`, `FetchFails`, `FetchAnswered`, `FetchEnds`), `HandleCommand` watcher by watcher in
any order (`NotifyWatcher`), and the `UUID`, taken last (`UpdateUuid`) even when a watcher refused its value.
A UUID stands for the content it is the hash of.  Rates are in thousandths; `RoundedDown`
are the rates whose product with 100 is, as a float, just below the whole number and is cut down by `int(...)`.
A sampler is its rate and its threshold; `Takes` compares the share of the hundred random numbers it takes
with the rate.

### MeterRegistry

A counter made before the global operator is set is appended to a list in the Go runtime, behind a number that a
compare-and-swap counts up: `ClaimAppend`, `LoadRegisters`, `StoreRegisters` are steps of their own, and so are
`TakeRegisters` and `ResetRegisters` of `Obtain`.  The collect goroutine makes a successor for each counter
(`NewSuccessor`, which reads the value), replaces its functions (`ChangeFunctions`) and registers it
(`RegisterMetrics`).  `Inc` is likewise a step per
access.  `overlapping` and `raced` remember which registrations and counts collided, since for
those nothing is promised.

### KafkaReporter

`SendX` as in the gRPC reporter; a loop per topic takes a message and writes it with the one writer.  The writer
tries again inside: an acknowledged message may have arrived twice, a failed one all the same.
`WritePanics` is a panic of that writer, which only the goroutine of `check` recovers: in a send loop (`kafka.go:174`, `206`, `236`) it
ends the process (`Alive`), and whether the message arrived nobody knows (`InDoubt`).
`CheckLoop` registers the instance (properties), then pings, also after `Close`; with a negative interval `Boot` does not start it.  `acked`
says what the loop takes for written: that it arrived is so with the default `acks` of 1 or with all, not with 0, which the model leaves out.  `Close` closes three channels and then the writer, under loops
that still drain, so that the rest of the channels fails.

### NoopSpans

What decides over a span: a noop below it (`BelowNoop`), a real span below it (`BelowReal`), the tracer's
state or the name on a goroutine without context (`NotTraced`), and else the sampler (`SampledOut`,
`SampledIn`).  Tracer, names and sampler answer freely.  Each frame of `nest` is a Create call that has not ended,
with the span it got, what was active, and who decided.  `GoStatement` is the runtime's copy of the context,
in which a noop becomes a fresh one; `Clean` is `CleanContext`; `SetRuntimeContextValue` makes a context without asking anybody.  Goroutines end what they created, innermost first.

Two things in the code are modelled as they are and are worth knowing.  The noop of a first
span whose name is ignored, or that comes before the tracer is ready, is given to the caller but not kept
in a context (`tracing.go:331-333`): spans created below it are traced, as roots, when their own
names are not ignored.  And the sampler is asked with an empty name, before options are applied.

### MCAgentParts

`PprofTasks`, `DynamicConfig`, `MeterRegistry` and `KafkaReporter` share no state, so an interleaving of their
steps says nothing that the parts alone do not.  `MCAgentParts` is their sum: the variable `awake` names
the one part that moves in a behaviour, and the state space is the sum of the four instead of the product.

## 3. Runs

Run with `tlc -config X.cfg M` (M is named in `PROJECT.json`).  Sizes are distinct states.

| Run | Instance | What it shows |
|---|---|---|
| `SegmentCollector` | 3 spans; 6.7 thousand | `ReportIsWholeSegment`; `NeverStranded`; `ReportIsSpanTree`: ids in a report are distinct and every parent is there; `SealedForGood`: nothing joins after the swap; `ReportSpec`: it implements `SegmentReport`; `EndedSegmentIsReported` |
| `MCTracingContext` | 3 spans, 2 goroutines, exit and local, reuse depth 1; 1.45 million, symmetric | `OwnersOnOneGoroutine`; `ReuseCountsOwners`; `LastEndFreezes` when nested owners do not go asynchronous; `ContextRestored`; `Spec`: the segments behave as `SegmentCollector` says |
| `MCTracingContextAsync` | 2 spans, 2 goroutines, exit and local, 1 captured context, nested owners may go asynchronous; 272 thousand | `EverySpanReported`: every span ends up in a reported segment, unless it shares one with a span whose Create failed |
| `MCTracingContextOwners` | 2 spans, 1 goroutine | counterexample of `LastEndFreezes`, see findings |
| `MCConnectionManager` | 3 callers, 2 connections; 37 thousand | `HeldIsOpen`, `NoConnectionLeaks`, `HolderNotShutDown`, `EntryIsWatched`, `OutageIsNoticed`, `WatchersEnd` |
| `MCConnectionManagerOwner` | 1 caller, 2 connections | counterexample of `WatchesOwnEntry`, see findings |
| `MCReporterPipeline` | trace and metrics pipeline, reporter and one manager, 1 connection, channel of 1, 1 and 2 messages; 247 thousand | Types; `Accounted`; `EndedIsDrained`; `Spec` of `ConnectionManager`; `CloseEndsLoops`; no deadlock |
| `MCProfileManager` | 2 tasks one time unit apart, duration 1, timeout 1, channels of 2, clock to 4, 1 full chunk each; 484 thousand | `RunningOwnsProfiler`, `ChunksAttributed`, `NothingAfterLast`, `ProfileEnds`; `SlotIsFreed` if fetch rounds complete |
| `MCProfileManagerRemove` | the same instance | counterexample of `CompletedIsRemovable`, see findings |
| `MCAgentParts` | 7 pprof tasks with 3 create times, 1 watcher with 4 rates, 2 counters and 2 callers, 3 Kafka messages; 110 thousand | `OneCpuTask`, `RatesFollowTasks`, `OneResult`, `AcceptedIsSettled`; `AckedIsApplied`, `ConfigConverges`; `CountsAreExact`, `RegisteredIsShown`; `KafkaAccounted`, `KafkaLoopsLive` |
| `NoopSpans` | 2 goroutines, 3 nested calls, 4 noops; 861 thousand | `NoopBalanced`; `TracedStaysTraced` |
| `NoopSpansForced` | 2 goroutines, 2 nested calls, 2 noops | counterexample of `ForcedIsTraced`, see findings |

Type invariants are proved where there is a proof module (section 5) and are not run again, but for the
reporter's, which is also that no channel is closed twice.  `HeldIsOpen` of the reporter follows from its refinement and is proved there.

### Bounds, and why they are enough

- *Kinds.*  Exit spans are reused as entry spans are, and can fail besides; local spans are not reused.
- *Spans.*  Three spans make every shape that matters to a segment: two children of one root, a
  grandchild, a child that registers while the root ends and founds a segment another child then joins.
  Two goroutines give one that ends a root while another registers, and an `AsyncFinish` elsewhere.
- `MaxReuse` = 1: an outer and one nested owner; `reuseCount` is 0 or 1.  More owners repeat the same
  two `End` outcomes.
- `MaxCaptured`: captured contexts beside the snapshots of `go` statements, which are unbounded.
- *Connections.*  Two allow an entry to be released and replaced while a goroutine sleeps; three
  callers allow two to race to publish while a third releases.  A connection is dialled once, so a
  third replacement is missing from the run; the proofs have no such limit.
- `MaxQueue`, `MaxMsg`: with a channel of 1, two messages fill it, and one is in hand while another is
  queued or refused.  The log pipeline has the same code as the other two; two pipelines are needed, since one releases
  the connection.
- *Profiles.*  Durations are equal for all tasks.  With `Start` 0 and 1 the second task comes due when the first is still
  reported, timed out or stuck.  `Cap` = 2 lets both channels fill.  `MaxTime` lies past the last
  timeout; the clock goes beyond it only for a monitor that still waits.  `MaxChunks` = 1: one full
  chunk and the last one.
- *pprof tasks.*  Two CPU, two block, a mutex, a direct and an invalid task with three create times: of tasks with
  one time the first that is polled keeps the others out, so a behaviour has at most three, and every pair that can
  meet does: two of one event, the two rated events, a CPU task and one that cannot start, commands out of order.  Block tasks differ in their
  period, so that a rate tells whose it is.  With a queue of 1 the second result is dropped.
- *Configuration.*  Rates below and above every border: none (0), a rate below one in a hundred (9), one that is
  rounded down (290), all (1000), the default (500), a value that is absent or cannot be read.  One watcher: the proof has any number.
- *Metrics.*  Two counters collide in the list; one of them is counted twice by two callers around its hand-over.
- *Kafka.*  One topic: topics share the writer and `Close`, and `OnePlace` is of each.  A channel of 2 and three messages: one in
  hand, two queued, one dropped.
- *Noop spans.*  Three calls: an outer, one below it, and one below that with another kind.  Four noops at a
  time: two on each goroutine, of which more would count alone too, since a noop below a noop is the same one.

### Deadlock

Checked where a stop would mean a fault: `MCReporterPipeline` (the status goroutine and the transport never stop).
In `NoopSpans` and `MCProfileManager` it says little, as the tracer's state can always change and the fetch loop always goes on.  Switched off for `MCAgentParts`,
whose tasks, counters and messages are finite in number and whose loops end with the connection or with `Close`, and for segments, contexts and the connection manager: spans and
connections are finite in number, and a program that has used and ended them all may stop.

### Symmetry

Only in runs that check no liveness: spans and goroutines are interchangeable in `TracingContext`.

### Fairness, and why the code justifies it

Go's scheduler runs every runnable goroutine, so weak fairness is assumed of the steps of agent
goroutines that are under way and wait for nothing.

- `SegmentCollector`: registrations, hand-overs, the swap and the collector.  Creating and ending
  spans is the program's business and not fair.
- `TracingContext`: also `End` and `AsyncFinish`, for `EverySpanReported` alone: a program that never
  ends its spans is promised nothing.
- `ConnectionManager`: only the status goroutines.
- `ReporterPipeline`: the loops and the status goroutine; `Close` goes on once it has begun.
  `OpenStream` is *strongly* fair: a loop that tries again and again while the transport is up is not
  refused for ever.  That the network recovers is not fairness but the premise of `CloseEndsLoops`.
- `ProfileManager`: clock, timers, monitor, report goroutine and send loop.  Nothing is assumed of the success of a send,
  nor of a fetch: `RemoveProfileTask` is the end of a round that was answered and did not panic, and that such rounds come again and
  again (`RoundsComplete`) is the premise of `SlotIsFreed`.
- `PprofTasks`: the step the command loop is at, timers, the upload loop, which gives a result up when the upload fails.  That the backend
  sends commands, or answers, is not fair; that the connection stays is the premise of `AcceptedIsSettled`.
- `DynamicConfig`: the goroutine; `FetchAnswered` *strongly*: a backend that is asked again and again answers some time.
  `ConfigConverges` has as premises that the connection and the configuration stay.
- `MeterRegistry`: start-up (the operator is set, the goroutine started), registrations and `Inc` calls under way, the collect
  goroutine; `SendMetrics` strongly, since any round may panic before it and the next one starts over.
- `KafkaReporter`, while the process lives: the loops and the rest of a `Close` that has begun; `PropertiesSucceed` and `PingSucceeds` strongly, which
  only a broker that stays up ever makes count.
- `NoopSpans`: none; no liveness is claimed.

## 4. Findings

Each is a remark in the code that a run refutes.  The first, third and fourth lose data; the second has no effect that was found.

1. `span_default.go:69-70` says of a span handed to several owners that "Every owner calls End exactly once and
   only the LAST End freezes and reports the span".  `AsyncFinish` freezes and reports without
   looking at `reuseCount`; a nested owner that goes asynchronous can freeze the span under its
   outer owners, whose later writes are dropped (`MCTracingContextOwners`).
2. `conn_manager.go:503`: "Entry gone or replaced: this watcher no longer owns the map slot."  The
   comparison covers one round.  A goroutine that sleeps while its entry is released and replaced
   adopts the new entry at `conn_manager.go:481`, and the entry has two goroutines
   (`MCConnectionManagerOwner`).  They write the same status, so what holders are told is right (`HolderNotShutDown`).
3. `grpc.go:608`: "Remove completed tasks".  The report goroutine hands over the last chunk before it
   writes `Finished`; the send loop may have written `Reported` by then, which is overwritten.  The completed task keeps
   the slot until its timeout (`MCProfileManagerRemove`); `SlotIsFreed` holds because of the timeout, given fetch rounds that complete.
4. `tracing.go:350`: "Try to sample when it is not force sample", which is when the span has references to an upstream
   that sampled.  `createSpan0` looks at `ds.Refs` (line 349) before it applies the options that
   fill it (lines 361-363).  So every first span is put to the sampler, and a trace that came in sampled
   may be cut off here (`NoopSpansForced`).

## 5. Proofs

Checked by `tlapm X_proofs.tla`.  Assumptions are those the modules name: finitely many spans and
callers, values that stand for nil outside the sets, natural numbers where the code has sizes.

**SegmentCollector_proofs.**  For any finite set of spans: `TypeCorrect`, `WholeSegments`,
`Unstranded`, `Sealed`, `Refinement` (`Spec => ReportSpec`).  The properties are not inductive: that a
report is whole says nothing of how the collector knew.  `IInv` (in `SegmentCollector`) adds who
belongs where (`SegInv`); that `refNum`, then `count`, then `total` is the number of children
(`CountInv`); and that the slice is what has been sent and the collector stops exactly when it is as
long as the total (`CollectorInv`).  The key lemma, `AllCollected`: a collector that stopped has every child, because a
subset of a finite set with the same cardinality is the set.  The refinement needs the same lemma
for `Publish`, and `Sealed` for `Join`.  `SpanTrees` (`ReportIsSpanTree`) has an invariant of its own, `TreeInv`: an id
once drawn from a segment's generator is held by one span, be it registered yet or not (`Numbered`); and
the parent of a span that is to be a member is a member with a smaller id (`Placed`).  A span that
moves to a segment of its own between the two leaves a gap: its id is not drawn again.

**TracingContext_proofs.**  For any number of goroutines, kinds and reuses: `ContextTypeCorrect`;
`Composition` (`ContextSpec => Spec`), from `Composes`: every step of a program is a step of its
segments, or none; `ContextWholeSegments` follows from it and the theorems above; `OneGoroutine`.
For the last, every span has a *home* goroutine whose frames, active span and creations alone refer
to it live; that such an assignment exists is `HomeInv`.  The other three rest on `CountedInv`:

- `OwnersAreCounted` (`ReuseCountsOwners`) holds of every program, `NestedAsync` or not.  A span whose Create returned an error has no
  owner (`LostUnowned`); of the others `OwnerInv` says that `reuseCount` and the
  number of frames with the span agree until `EndTime` is set; `BusyInv`, that the span a goroutine is busy with still registers or has ended.
- `FrozenByTheLast` (`LastEndFreezes`) and `ContextComesBack` (`ContextRestored`) assume `NestedAsync = FALSE`: a span goes asynchronous
  only when it has one owner.  Without it TLC refutes both.  The first is finding 1; the second follows from it, in 14 states with two
  spans: s2, created below s1, is reused, and its nested `End` makes s1 active; s1 is reused by a third frame, which goes asynchronous and
  ends; the outer `End` of s2 makes s1 active again; `AsyncFinish` sets `EndTime` of s1; and the outer `End` of s1 returns at once,
  which leaves s1 active.  With the assumption a span whose `EndTime` is set has no owner (`LoneOk`), and `ChainInv` says that what is
  active, and the parent of every owned span, is the span of a frame further down or the context the goroutine was given: with no
  frame left it is the latter.

**ConnectionManager_proofs.**  For any number of callers and connections: `TypeCorrect`,
`References`, `NoLeak`, `NotShutDown`, `EntryHasWatcher`.  `IInv` says what a dialling caller holds (`DialInv`), what is
open and why (`OpenInv`), that the count is the number of holders (`CountInv`), that status goroutines have seen
"shutdown" only of closed connections (`WatchInv`), and that the entry's own goroutine is there and
watches it (`OwnInv`).

**ProfileManager_proofs.**  For any tasks, times and capacities: `TypeCorrect`, `OwnProfiler`,
`Attribution`.  The argument is that one profile at a time is under way, from the profiler to the
report goroutine: `SlotInv` ties profiler, monitor, events and current task together, `DataInv` says
that whatever is buffered or queued belongs to the current task, and `LastInv` that after a last chunk
nothing of it is left, which is why giving up the current task is safe.  `LastIsLast` (`NothingAfterLast`) adds the order: once a last
chunk is put the timer of its task has fired, and what is left of the task is at most to give up the slot (`EndsInv`), and in what was
received, what is being sent and what is queued, taken one after the other, nothing of a task follows its last chunk (`OrderInv`).

**ReporterPipeline_proofs.**  For any pipelines, queue sizes, message counts and holders:
`PipelineTypeCorrect`; `PipelineComposition` (`PipelineSpec => Spec`), from which `PipelineReferences`
follows; `Drains`; `NothingForgotten`.  The invariant keeps that of the connection manager, says that the
holders that came first stay (`OthersInv`), which is why a booted loop is never told Shutdown, that a
loop past `Drained` has nothing left (`LoopInv`), and that the six places partition the numbers produced
(`MessageInv`), with a channel that holds no message twice.

**PprofTasks_proofs.**  For any tasks, times, periods and queue size: `PprofTypeCorrect`, `PprofOneCpuTask`,
`PprofRatesFollowTasks`, `PprofOneResult`.  The invariant ties the stage of each task to the goroutine that
has it (a task is being started only while the command loop carries it), says that `LastUpdateTime` has reached the
time of every task it let through, so that none is let through again, that the flag, the profiler and the rate are those of the tasks in the stages
between claim and stop, and counts, for `PprofOneResult`, the places of a result; the queue's share is a cardinality of indices, for
which there are lemmas about appending to and taking from a sequence.

**AgentParts_proofs.**  Three parts that share no state.  *Configuration*, for any watchers and rates:
`ConfigTypeCorrect`; `SamplerTakesRate`, about the operators
alone: the share of a threshold is that threshold, so a sampler takes what its rate asks for with at most one in a
hundred less; `AppliedWhenAcked`.  The invariant says that every sampler is the one of its rate, and that a watcher the handling goroutine
has passed has the rate of the answer: the UUID is written when none is left.

*Kafka reporter*, for any topics, channel size and number of messages: `KafkaTypeCorrect`, `NoMessageUnaccounted` (`KafkaAccounted`).
Messages go through a topic in the order of their numbers: what is over is smaller than what is being written, and that smaller
than what is queued (`FlowInv`).  So no two places share a message; that every message is
in one is `PlacesInv`, and `BrokerInv` says that what was acknowledged arrived, and that what
arrived was acknowledged, or failed, or is in doubt since its write panicked.  `LoopsEndDrained` is the part about loops that
ended: a channel once closed gets nothing more.  A retry after a lost answer repeats the message, hence `<=` in the order of the log.

*Counters*, for any counters, callers and increments: `MeterTypeCorrect`, `NoIncrementLost` (`CountsAreExact`).  No value is
ever ahead of the calls that began (`CountInv`); a counter nobody raced for has
all increments but those under way, of which there is one at most before the hand-over (`ExactInv`); and between the read and the change of
the hand-over such a counter has none under way and no more than was read (`HandInv`).

**NoopSpans_proofs.**  For any goroutines, nesting and number of noops: `NoopTypeCorrect`, `NoopTraced`, `NoopsAreBalanced` (`NoopBalanced`).
The invariant of the second (`RoutineOk`) is one of
a single goroutine: a real span goes back to an earlier call that made it, so that the `End` of an inner span makes
active what was below it, and with a snapshot at the bottom nothing below any call is a noop or nil.  That of the third (`BalanceInv`)
says of a noop that some call holds that its count is the number of those calls and that no other goroutine has it; that
while a call it answered for the sampler is open it is active and has answered every call since; and that
an active noop no call holds is the copy the goroutine was started with.

**Only model-checked.**  Every invariant, action property and refinement that a passing run checks is a theorem.  Liveness
(`EndedSegmentIsReported`, `EverySpanReported`, `OutageIsNoticed`, `WatchersEnd`,
`CloseEndsLoops`, `SlotIsFreed`, `ProfileEnds`, `AcceptedIsSettled`, `ConfigConverges`, `RegisteredIsShown`, `KafkaLoopsLive`) is not: fairness needs `ENABLED`, which is out of the prover's reach.  Recursive definitions
and induction over data could not be proved about; the models need neither.

## 6. Not modelled, and why

- Source rewriting at compile time, plugins, toolkit, generated protocols, start-up: no state that
  steps of two actors share; what plugins may do is what `TracingContext` quantifies over.
- Address parsing, TLS, the resolver: inputs of one `Dial` step.
- Goroutine labels of profiles (`prof_labels.go`): no step of the manager reads them.
- Contents of messages: properties tell apart only their number and place.
- The management loop (`check`) of the gRPC reporter: it changes nothing another part reads.
- The profile loop does not end with `Close`: `FinalReportResults` is never closed.  No text
  promises that it does; the model's loop runs for ever.
- Rates that are not numbers (NaN, infinities), and more digits than three: what `"%f"` prints of a rate
  and what a float product is cut down to are given by `RoundedDown`.
- The list of meters is a slice whose header a racing reader could see half written; the models
  read it as a whole, old or new.  Meters have distinct names; gauges hold no count, histograms are handed over as counters are, and hooks are functions of the program.
- `CaptureContext` of a noop, asynchronous spans and exit spans in `NoopSpans`: the first is a hazard without property, the
  second are traced spans in `TracingContext`, the third behave as entry spans there.
- The status that the Kafka reporter reads once, in `Boot`: in `NoopSpans` it may change at any moment, which includes never.
- Propagation and correlation: string formats, and a map under one lock.
- Identifiers: distinct unless clocks go back or random numbers repeat, which no state machine decides.
- Wildcards of ignored names: any name may be ignored.

## 7. Plan

Done, in this order:

1. `SegmentReport`, `SegmentCollector`: the core promise, its refinement and proofs.
2. `TracingContext` composed with it; proofs.
3. `ConnectionManager`; proofs.
4. `ProfileManager`; proofs.
5. `ReporterPipeline` composed with `ConnectionManager`; proofs.
6. `NoopSpans`: noop spans and sampling; proof of `TracedStaysTraced`.
7. `PprofTasks`; proofs.  It meets `ProfileManager` in the CPU profiler, which in each of the two modules others may take at any moment.
8. `DynamicConfig` with the samplers; proofs.
9. `MeterRegistry`.
10. `KafkaReporter`.
11. Proofs of the remaining invariants: `NothingAfterLast`, `ReuseCountsOwners`, `LastEndFreezes` and `ContextRestored`,
    `NoopBalanced`, `ReportIsSpanTree`, `KafkaAccounted`, `CountsAreExact`.

Left:

12. Captured contexts of noop spans, with the property of the hazard at `span_noop.go:102`.

--------------------------- MODULE TracingContext ---------------------------
(***************************************************************************)
(* The spans of plugins/core as the goroutines of a program use them:      *)
(* creation with the reuse of an active entry or exit span (tracing.go),   *)
(* End, PrepareAsync and AsyncFinish (span_default.go), snapshots of the   *)
(* context taken when a goroutine starts or on request (context.go,        *)
(* span_tracing.go).  It composes with SegmentCollector: a step here that  *)
(* registers, freezes or delivers a span is a step there, and the property *)
(* Spec of that module holds of this one.                                  *)
(*                                                                         *)
(* Every caller that got a span from a Create call is one of its owners    *)
(* and holds a frame for it; owners of a goroutine call End in LIFO order, *)
(* on the goroutine that created the span (toolkit-trace.md).  A call that *)
(* returned an error has made a span all the same, which nobody ends.      *)
(***************************************************************************)
EXTENDS SegmentCollector, Sequences

CONSTANTS Goroutine,    \* goroutines of the program
          Kind,         \* the kinds of span the program creates
          MaxReuse,     \* bound: nested owners of a span at one time
          MaxCaptured,  \* bound: snapshots taken by CaptureContext
          NestedAsync   \* may a nested owner of a reused span go asynchronous?

ASSUME ContextAssumption ==
  /\ Goroutine # {}
  /\ Kind \subseteq {"entry", "exit", "local"}
  /\ MaxReuse \in Nat /\ MaxCaptured \in Nat
  /\ NestedAsync \in BOOLEAN

VARIABLES
  active,   \* TracingContext.activeSpan of each goroutine
  base,     \* the active span the goroutine was given before any frame of it
  frames,   \* the owners of each goroutine, innermost last
  busy,     \* the span a goroutine is creating, or whose end0 it is blocked in
  captured, \* snapshots taken by CaptureContext
  kind,     \* DefaultSpan.SpanType
  parent,   \* DefaultSpan.Parent
  endTime,  \* EndTime is set
  reuse,    \* reuseCount
  async,    \* InAsyncMode, AsyncModeFinished and how far AsyncFinish came
  depth,    \* the frame whose owner called PrepareAsync
  lost      \* the spans of CreateExitSpan calls that returned an error

goVars    == <<active, base, frames, busy, captured>>
flagVars  == <<kind, parent, endTime, reuse, async, depth, lost>>
lifeVars  == <<goVars, flagVars>>
ctxVars   == <<vars, lifeVars>>

\* A TracingSpan as a context holds it: nil, a span, or a snapshot of one.
Nil     == <<"nil", NoSpan>>
Live(s) == <<"live", s>>
Snap(s) == <<"snapshot", s>>
Ref     == {Nil} \cup ({"live", "snapshot"} \X Span)

Top(g)    == frames[g][Len(frames[g])]
Pop(g)    == frames' = [frames EXCEPT ![g] = SubSeq(@, 1, Len(@) - 1)]
Push(g,s) == frames' = [frames EXCEPT ![g] = Append(@, s)]
\* The frames of goroutine g that own span s.
Owned(g, s) == {i \in DOMAIN frames[g] : frames[g][i] = s}
Idle(g)   == frames[g] = <<>> /\ busy[g] = NoSpan
Ready(g)  == busy[g] = NoSpan

LifeTypeOK ==
  /\ active \in [Goroutine -> Ref] /\ base \in [Goroutine -> Ref]
  /\ frames \in [Goroutine -> Seq(Span)]
  /\ busy \in [Goroutine -> Span \cup {NoSpan}]
  /\ captured \subseteq Ref
  /\ kind \in [Span -> Kind \cup {"none"}]
  /\ parent \in [Span -> Ref]
  /\ endTime \in [Span -> BOOLEAN]
  /\ reuse \in [Span -> Nat]
  /\ async \in [Span -> {"none", "prepared", "handed", "flagged", "timed", "done"}]
  /\ depth \in [Span -> Nat]
  /\ lost \subseteq Span

ContextTypeOK == TypeOK /\ LifeTypeOK

ContextInit ==
  /\ Init
  /\ active = [g \in Goroutine |-> Nil]
  /\ base = [g \in Goroutine |-> Nil]
  /\ frames = [g \in Goroutine |-> <<>>]
  /\ busy = [g \in Goroutine |-> NoSpan]
  /\ captured = {}
  /\ kind = [s \in Span |-> "none"]
  /\ parent = [s \in Span |-> Nil]
  /\ endTime = [s \in Span |-> FALSE]
  /\ reuse = [s \in Span |-> 0]
  /\ async = [s \in Span |-> "none"]
  /\ depth = [s \in Span |-> 0]
  /\ lost = {}
-----------------------------------------------------------------------------
(* CreateEntrySpan, CreateExitSpan, CreateLocalSpan *)

\* Mutant of Reusable: a snapshot of an entry or exit span is handed out too.
ReusableSnapshot(g, k) ==
  /\ k \in {"entry", "exit"}
  /\ active[g] # Nil
  /\ kind[active[g][2]] = k

\* The active span is returned again: same kind, entry or exit, no snapshot.
Reusable(g, k) ==
  /\ k \in {"entry", "exit"}
  /\ active[g][1] = "live"
  /\ kind[active[g][2]] = k

\* Mutant of CreateReused: no call of enterReuse.
CreateReusedUncounted(g, k) ==
  /\ Ready(g)
  /\ Reusable(g, k)
  /\ Cardinality(Owned(g, active[g][2])) <= MaxReuse
  /\ Push(g, active[g][2])
  /\ UNCHANGED <<vars, active, base, busy, captured, flagVars>>

\* The reuse branch: enterReuse counts the caller in, unless the span ended.
CreateReused(g, k) ==
  /\ Ready(g)
  /\ Reusable(g, k)
  /\ LET s == active[g][2] IN
     /\ Cardinality(Owned(g, s)) <= MaxReuse
     /\ reuse' = [reuse EXCEPT ![s] = IF stage[s] \in Ended THEN @ ELSE @ + 1]
     /\ Push(g, s)
  /\ UNCHANGED <<vars, active, base, busy, captured, kind, parent, endTime, async, depth, lost>>

\* The call returns the new span: saveSpanToActiveIfNotError.
Return(g, s) ==
  /\ active' = [active EXCEPT ![g] = Live(s)]
  /\ Push(g, s)
  /\ UNCHANGED lost

\* The injector of an exit span, which is the caller's, fails in Encode, or
\* panics: the span is there and registered, but the caller has nothing to end.
ReturnError(g, s) ==
  /\ kind'[s] = "exit"
  /\ lost' = lost \cup {s}
  /\ UNCHANGED <<active, frames>>

\* createSpan0: DefaultSpan.Parent is the active span; without one the span
\* roots a segment, with one it starts to register with that span's segment.
CreateSpan(g, k, s) ==
  /\ Ready(g)
  /\ ~Reusable(g, k)
  /\ kind' = [kind EXCEPT ![s] = k]
  /\ parent' = [parent EXCEPT ![s] = active[g]]
  /\ \/ /\ active[g] = Nil
        /\ NewRoot(s)
        /\ Return(g, s) \/ ReturnError(g, s)
        /\ UNCHANGED busy
     \/ /\ active[g] # Nil
        /\ CopyContext(s, active[g][2])
        /\ busy' = [busy EXCEPT ![g] = s]
        /\ UNCHANGED <<active, frames, lost>>
  /\ UNCHANGED <<base, captured, endTime, reuse, async, depth>>

\* Mutant of RegisterSpan: the span opens without being counted in refNum.
RegisterSpanUncounted(g) ==
  LET s == busy[g] IN
  /\ stage[s] = "numbered"
  /\ stage' = [stage EXCEPT ![s] = "open"]
  /\ active' = [active EXCEPT ![g] = Live(s)]
  /\ Push(g, s)
  /\ busy' = [busy EXCEPT ![g] = NoSpan]
  /\ UNCHANGED <<seg, spanId, parentSpanId, seen, rootVars, collectorVars,
                 base, captured, flagVars>>

\* segmentRegister, and when the span is open the rest of the call.
RegisterSpan(g) ==
  /\ Register(busy[g])
  /\ UNCHANGED <<base, captured, kind, parent, endTime, reuse, async, depth>>
  /\ IF stage'[busy[g]] = "open"
     THEN /\ Return(g, busy[g]) \/ ReturnError(g, busy[g])
          /\ busy' = [busy EXCEPT ![g] = NoSpan]
     ELSE UNCHANGED <<active, frames, busy, lost>>
-----------------------------------------------------------------------------
(* End: endSyncAndFreeze, then SaveActiveSpan(Parent) and end0 *)

\* The owner that called PrepareAsync is done with its goroutine's part and
\* passes the span on to whoever will finish it.
HandOver(s, g) ==
  async' = [async EXCEPT ![s] =
              IF @ = "prepared" /\ depth[s] = Len(frames[g]) THEN "handed" ELSE @]

\* reuseCount > 0: not the last owner
EndNested(g) ==
  /\ Ready(g) /\ frames[g] # <<>>
  /\ LET s == Top(g) IN
     /\ reuse[s] > 0
     /\ reuse' = [reuse EXCEPT ![s] = @ - 1]
     /\ active' = [active EXCEPT ![g] = parent[s]]
     /\ HandOver(s, g)
  /\ Pop(g)
  /\ UNCHANGED <<vars, base, busy, captured, kind, parent, endTime, depth, lost>>

\* Mutant of EndAsync: the End of an asynchronous span leaves it active.
EndAsyncStays(g) ==
  /\ Ready(g) /\ frames[g] # <<>>
  /\ LET s == Top(g) IN
     /\ reuse[s] = 0 /\ ~endTime[s] /\ async[s] # "none"
     /\ endTime' = [endTime EXCEPT ![s] = TRUE]
     /\ HandOver(s, g)
  /\ Pop(g)
  /\ UNCHANGED <<vars, active, base, busy, captured, kind, parent, reuse, depth, lost>>

\* EndTime is set already: return at once
EndAgain(g) ==
  /\ Ready(g) /\ frames[g] # <<>>
  /\ reuse[Top(g)] = 0
  /\ endTime[Top(g)]
  /\ Pop(g)
  /\ UNCHANGED <<vars, active, base, busy, captured, flagVars>>

\* The last End of an asynchronous span: AsyncFinish owns the freeze
EndAsync(g) ==
  /\ Ready(g) /\ frames[g] # <<>>
  /\ LET s == Top(g) IN
     /\ reuse[s] = 0 /\ ~endTime[s] /\ async[s] # "none"
     /\ endTime' = [endTime EXCEPT ![s] = TRUE]
     /\ active' = [active EXCEPT ![g] = parent[s]]
     /\ HandOver(s, g)
  /\ Pop(g)
  /\ UNCHANGED <<vars, base, busy, captured, kind, parent, reuse, depth, lost>>

\* Mutant of EndLast: freezes whether or not other owners are left.
EndLastOfAny(g) ==
  /\ Ready(g) /\ frames[g] # <<>>
  /\ LET s == Top(g) IN
     /\ ~endTime[s] /\ async[s] = "none"
     /\ Freeze(s)
     /\ endTime' = [endTime EXCEPT ![s] = TRUE]
     /\ active' = [active EXCEPT ![g] = parent[s]]
     /\ busy' = [busy EXCEPT ![g] = IF IsRoot(s) THEN s ELSE NoSpan]
  /\ Pop(g)
  /\ UNCHANGED <<base, captured, kind, parent, reuse, async, depth, lost>>

\* The last End of a synchronous span: freeze, and end0; the end0 of a root
\* keeps the goroutine until its collector has taken the count.
EndLast(g) ==
  /\ Ready(g) /\ frames[g] # <<>>
  /\ LET s == Top(g) IN
     /\ reuse[s] = 0 /\ ~endTime[s] /\ async[s] = "none"
     /\ Freeze(s)
     /\ endTime' = [endTime EXCEPT ![s] = TRUE]
     /\ active' = [active EXCEPT ![g] = parent[s]]
     /\ busy' = [busy EXCEPT ![g] = IF IsRoot(s) THEN s ELSE NoSpan]
  /\ Pop(g)
  /\ UNCHANGED <<base, captured, kind, parent, reuse, async, depth, lost>>

End(g) == EndNested(g) \/ EndAgain(g) \/ EndAsync(g) \/ EndLast(g)
-----------------------------------------------------------------------------
(* PrepareAsync and AsyncFinish *)

\* The innermost owner goes asynchronous; a second PrepareAsync would panic.
PrepareAsync(g) ==
  /\ Ready(g) /\ frames[g] # <<>>
  /\ LET s == Top(g) IN
     /\ stage[s] \notin Ended
     /\ async[s] = "none"
     /\ NestedAsync \/ reuse[s] = 0
     /\ async' = [async EXCEPT ![s] = "prepared"]
     /\ depth' = [depth EXCEPT ![s] = Len(frames[g])]
  /\ UNCHANGED <<vars, goVars, kind, parent, endTime, reuse, lost>>

\* AsyncFinish is three critical sections, run by any goroutine: set
\* AsyncModeFinished, ...
AsyncFlag(s) ==
  /\ async[s] = "handed"
  /\ async' = [async EXCEPT ![s] = "flagged"]
  /\ UNCHANGED <<vars, goVars, kind, parent, endTime, reuse, depth, lost>>

\* ... DefaultSpan.End(false) writes EndTime, ...
AsyncEndTime(s) ==
  /\ async[s] = "flagged"
  /\ async' = [async EXCEPT ![s] = "timed"]
  /\ endTime' = [endTime EXCEPT ![s] = TRUE]
  /\ UNCHANGED <<vars, goVars, kind, parent, reuse, depth, lost>>

\* Mutant of AsyncFreeze: AsyncFinish leaves the freeze to an End that is past.
AsyncFreezeNever(s) ==
  /\ async[s] = "timed"
  /\ async' = [async EXCEPT ![s] = "done"]
  /\ UNCHANGED <<vars, goVars, kind, parent, endTime, reuse, depth, lost>>

\* ... and endAndFreeze says whether end0 is ours to call.
AsyncFreeze(s) ==
  /\ async[s] = "timed"
  /\ Freeze(s)
  /\ async' = [async EXCEPT ![s] = "done"]
  /\ UNCHANGED <<goVars, kind, parent, endTime, reuse, depth, lost>>

AsyncFinish(s) == AsyncFlag(s) \/ AsyncEndTime(s) \/ AsyncFreeze(s)
-----------------------------------------------------------------------------
(* Snapshots *)

\* newSnapshotSpan: nil for a span that ended; a snapshot never ends
SnapshotOf(x) ==
  IF x = Nil \/ (x[1] = "live" /\ endTime[x[2]]) THEN Nil ELSE Snap(x[2])

\* A context is adopted by a goroutine that has no frame of its own.
Adopt(h, x) ==
  /\ active' = [active EXCEPT ![h] = x]
  /\ base' = [base EXCEPT ![h] = x]

\* go f(): the new goroutine starts with TakeSnapShot of its creator's context
StartGoroutine(g, h) ==
  /\ g # h
  /\ Ready(g) /\ Idle(h)
  /\ Adopt(h, SnapshotOf(active[g]))
  /\ UNCHANGED <<vars, frames, busy, captured, flagVars>>

CaptureContext(g) ==
  /\ Ready(g)
  /\ captured' = captured \cup {SnapshotOf(active[g])}
  /\ Cardinality(captured') <= MaxCaptured
  /\ UNCHANGED <<vars, active, base, frames, busy, flagVars>>

ContinueContext(h) ==
  /\ Idle(h)
  /\ \E x \in captured : Adopt(h, x)
  /\ UNCHANGED <<vars, frames, busy, captured, flagVars>>

CleanContext(h) ==
  /\ Idle(h)
  /\ Adopt(h, Nil)
  /\ UNCHANGED <<vars, frames, busy, captured, flagVars>>
-----------------------------------------------------------------------------
(* Delivery: end0 and the collector, as in SegmentCollector *)

Deliver(s) == (SwapRef(s) \/ CollectSpan(s) \/ CloseDone(s) \/ SendTracing(s))
              /\ UNCHANGED lifeVars

\* The collector takes the count and the goroutine in end0 goes on.
DeliverDone(r) ==
  /\ CollectDone(r)
  /\ busy' = [g \in Goroutine |-> IF busy[g] = r THEN NoSpan ELSE busy[g]]
  /\ UNCHANGED <<active, base, frames, captured, flagVars>>

GoroutineStep(g) ==
  \/ \E k \in Kind : CreateReused(g, k) \/ \E s \in Span : CreateSpan(g, k, s)
  \/ \E s \in Span : busy[g] = s /\ RegisterSpan(g)
  \/ End(g) \/ PrepareAsync(g) \/ CaptureContext(g) \/ ContinueContext(g) \/ CleanContext(g)
  \/ \E h \in Goroutine : StartGoroutine(g, h)

ContextNext ==
  \/ \E g \in Goroutine : GoroutineStep(g)
  \/ \E s \in Span : AsyncFinish(s) \/ Deliver(s) \/ DeliverDone(s)

ContextSpec == ContextInit /\ [][ContextNext]_ctxVars

\* Calls that returned from a Create end in time, and calls under way proceed;
\* nothing makes the program start a call.
ContextFairness ==
  /\ \A g \in Goroutine :
       /\ WF_ctxVars(End(g))
       /\ \A s \in Span : WF_ctxVars(busy[g] = s /\ RegisterSpan(g))
  /\ \A s \in Span :
       WF_ctxVars(AsyncFinish(s)) /\ WF_ctxVars(Deliver(s)) /\ WF_ctxVars(DeliverDone(s))

FairContextSpec == ContextSpec /\ ContextFairness
-----------------------------------------------------------------------------
(* Properties *)

Owners(s)   == UNION {{g} \X Owned(g, s) : g \in Goroutine}
OwnedOn(s)  == {g \in Goroutine : Owned(g, s) # {}}

\* The owners of a span are all on the goroutine that created it: a snapshot is
\* never handed out by the reuse branches (tracing.go:58 and :130), so End is
\* never raced by two synchronous owners.
OwnersOnOneGoroutine == \A s \in Span : Cardinality(OwnedOn(s)) <= 1

\* Until the span's EndTime is set, reuseCount is the number of its owners less
\* one: no End of an owner is taken for the last one too early or too late.  A
\* span whose call returned an error is never handed out, by no later reuse.
ReuseCountsOwners ==
  \A s \in Span : stage[s] \in Born /\ ~endTime[s] =>
    Cardinality(Owners(s)) = IF s \in lost THEN 0 ELSE reuse[s] + 1

\* Only the last owner's End freezes a span (span_default.go:69-70): no owner is
\* left holding a frozen span whose writes would be dropped.
LastEndFreezes == \A s \in Span : stage[s] \in Ended => Owners(s) = {}

\* A goroutine whose owners have all ended is back in the context it was given:
\* no span of a finished request stays active for the next one.
ContextRestored == \A g \in Goroutine : Idle(g) => active[g] = base[g]

\* Every span the program creates is in the end part of a reported segment,
\* whoever ends it: nested owners, its goroutine, or an AsyncFinish elsewhere;
\* but those of a segment with a span whose Create returned an error
\* (tracing.go:165-168), and no other segment waits for that one.
EverySpanReported ==
  \A s \in Span : stage[s] # "unborn" ~> \/ \E r \in Span : s \in reports[r]
                                        \/ \E t \in lost : seg[t] = seg[s]
=============================================================================

------------------------ MODULE TracingContext_proofs ------------------------
(***************************************************************************)
(* TracingContext is a user of SegmentCollector: each of its steps is a    *)
(* step of that module or leaves its variables alone, so that every        *)
(* theorem about SegmentCollector holds of the program's spans.  The       *)
(* owners of a span share one goroutine, reuseCount counts them, the last  *)
(* one freezes the span, and a goroutine without owners has its context    *)
(* back, however many there are of each.                                   *)
(***************************************************************************)
EXTENDS TracingContext, SegmentCollector_proofs, SequenceTheorems

\* References are to spans that exist, and contexts name spans that opened and
\* were returned by their Create.
Alive  == {s \in Span : stage[s] # "unborn"}
Opened == {s \in Span \ lost : stage[s] \in Born}

Fresh ==
  /\ \A g \in Goroutine :
       /\ active[g][1] # "nil" => active[g][2] \in Opened
       /\ \A i \in DOMAIN frames[g] : frames[g][i] \in Opened
       /\ busy[g] \in Alive \cup {NoSpan}
  /\ \A s \in Span : parent[s][1] # "nil" => parent[s][2] \in Opened
  /\ \A x \in captured : x[1] # "nil" => x[2] \in Opened
  /\ \A s \in lost : stage[s] \in Born

\* h gives every span the goroutine that created it: contexts, owners and
\* parents of a goroutine name spans of that goroutine only, or snapshots.
Homed(h) ==
  /\ \A g \in Goroutine :
       /\ active[g][1] = "live" => h[active[g][2]] = g
       /\ \A i \in DOMAIN frames[g] : h[frames[g][i]] = g
       /\ busy[g] # NoSpan => h[busy[g]] = g
  /\ \A s \in Span : parent[s][1] = "live" => h[parent[s][2]] = h[s]

Unshared == \A x \in captured : x[1] # "live"

HomeInv == Unshared /\ \E h \in [Span -> Goroutine] : Homed(h)

CtxInv == IInv /\ LifeTypeOK /\ Fresh /\ HomeInv
-----------------------------------------------------------------------------
\* Frames are pushed and popped at the end.
LEMMA Frames ==
  ASSUME LifeTypeOK, NEW g \in Goroutine
  PROVE  /\ frames[g] # <<>> =>
              /\ Top(g) \in Span
              /\ Len(frames[g]) \in DOMAIN frames[g]
              /\ Pop(g) => /\ frames' \in [Goroutine -> Seq(Span)]
                           /\ \A k \in Goroutine : k # g => frames'[k] = frames[k]
                           /\ DOMAIN frames'[g] \subseteq DOMAIN frames[g]
                           /\ \A i \in DOMAIN frames'[g] : frames'[g][i] = frames[g][i]
         /\ \A s \in Span : Push(g, s) =>
              /\ frames' \in [Goroutine -> Seq(Span)]
              /\ \A k \in Goroutine : k # g => frames'[k] = frames[k]
              /\ \A i \in DOMAIN frames'[g] :
                   frames'[g][i] = s \/ (i \in DOMAIN frames[g] /\ frames'[g][i] = frames[g][i])
<1>1. frames[g] \in Seq(Span)
  BY DEF LifeTypeOK
<1>2. ASSUME frames[g] # <<>>
      PROVE  Len(frames[g]) \in Nat \ {0} /\ DOMAIN frames[g] = 1..Len(frames[g])
  BY <1>1, <1>2
<1>3. ASSUME frames[g] # <<>>
      PROVE  Top(g) \in Span /\ Len(frames[g]) \in DOMAIN frames[g]
  BY <1>1, <1>2, <1>3 DEF Top
<1>4. ASSUME frames[g] # <<>>, Pop(g)
      PROVE  /\ frames' \in [Goroutine -> Seq(Span)]
             /\ \A k \in Goroutine : k # g => frames'[k] = frames[k]
             /\ DOMAIN frames'[g] \subseteq DOMAIN frames[g]
             /\ \A i \in DOMAIN frames'[g] : frames'[g][i] = frames[g][i]
  <2>1. frames' = [frames EXCEPT ![g] = SubSeq(frames[g], 1, Len(frames[g]) - 1)]
    BY <1>4 DEF Pop
  <2>2. SubSeq(frames[g], 1, Len(frames[g]) - 1) \in Seq(Span)
    BY <1>1, <1>2, <1>4
  <2>3. DOMAIN SubSeq(frames[g], 1, Len(frames[g]) - 1) = 1..(Len(frames[g]) - 1)
    BY <1>1, <1>2, <1>4
  <2>4. \A i \in 1..(Len(frames[g]) - 1) :
           SubSeq(frames[g], 1, Len(frames[g]) - 1)[i] = frames[g][i]
    BY <1>1, <1>2, <1>4
  <2> QED
    BY <2>1, <2>2, <2>3, <2>4, <1>2, <1>4 DEF LifeTypeOK
<1>5. ASSUME NEW s \in Span, Push(g, s)
      PROVE  /\ frames' \in [Goroutine -> Seq(Span)]
             /\ \A k \in Goroutine : k # g => frames'[k] = frames[k]
             /\ \A i \in DOMAIN frames'[g] :
                  frames'[g][i] = s \/ (i \in DOMAIN frames[g] /\ frames'[g][i] = frames[g][i])
  <2>1. frames' = [frames EXCEPT ![g] = Append(frames[g], s)]
    BY <1>5 DEF Push
  <2>2. Append(frames[g], s) \in Seq(Span)
    BY <1>1
  <2>3. \A i \in DOMAIN Append(frames[g], s) :
           Append(frames[g], s)[i] = s \/ (i \in DOMAIN frames[g] /\ Append(frames[g], s)[i] = frames[g][i])
    BY <1>1
  <2> QED
    BY <2>1, <2>2, <2>3 DEF LifeTypeOK
<1> QED
  BY <1>3, <1>4, <1>5

\* No step un-creates a span.
LEMMA NoRebirth ==
  ASSUME TypeOK, [Next]_vars
  PROVE  /\ Alive \subseteq Alive' /\ Opened \subseteq Alive
         /\ \A s \in Span : stage[s] \in Born => stage'[s] \in Born
BY DEF TypeOK, Alive, Opened, Born, Next, vars, spanVars, NewRoot, BecomeRoot, CopyContext, LoadRef, CasRef,
       Register, Freeze, SwapRef, CollectSpan, CollectDone, CloseDone, SendTracing, Collect

\* What a reference other than nil names.
LEMMA Refs ==
  ASSUME NEW x \in Ref
  PROVE  /\ x # Nil <=> x[1] # "nil"
         /\ x[1] # "nil" => x[1] \in {"live", "snapshot"} /\ x[2] \in Span
BY DEF Ref, Nil

\* Every step of the program is a step of its segments, or none.
LEMMA Composes ==
  ASSUME LifeTypeOK, [ContextNext]_ctxVars
  PROVE  [Next]_vars
<1>1. CASE UNCHANGED ctxVars
  BY <1>1 DEF ctxVars
<1>2. ASSUME NEW g \in Goroutine, GoroutineStep(g) PROVE [Next]_vars
  <2>1. ASSUME NEW k \in Kind, CreateReused(g, k) PROVE [Next]_vars
    BY <2>1 DEF CreateReused
  <2>2. ASSUME NEW k \in Kind, NEW s \in Span, CreateSpan(g, k, s) PROVE [Next]_vars
    <3>1. active[g] # Nil => active[g][2] \in Span
      BY Refs DEF LifeTypeOK
    <3> QED
      BY <2>2, <3>1 DEF CreateSpan, Next
  <2>3. ASSUME NEW s \in Span, busy[g] = s, RegisterSpan(g) PROVE [Next]_vars
    BY <2>3 DEF RegisterSpan, Next
  <2>4. ASSUME End(g) PROVE [Next]_vars
    <3>1. CASE EndLast(g)
      <4>1. Top(g) \in Span
        BY <3>1, Frames DEF EndLast
      <4> QED
        BY <3>1, <4>1 DEF EndLast, Next
    <3> QED
      BY <2>4, <3>1 DEF End, EndNested, EndAgain, EndAsync
  <2>5. ASSUME \/ PrepareAsync(g) \/ CaptureContext(g) \/ ContinueContext(g) \/ CleanContext(g)
               \/ \E h \in Goroutine : StartGoroutine(g, h)
        PROVE  [Next]_vars
    BY <2>5 DEF PrepareAsync, CaptureContext, ContinueContext, CleanContext, StartGoroutine
  <2> QED
    BY <1>2, <2>1, <2>2, <2>3, <2>4, <2>5 DEF GoroutineStep
<1>3. ASSUME NEW s \in Span, AsyncFinish(s) \/ Deliver(s) \/ DeliverDone(s) PROVE [Next]_vars
  BY <1>3 DEF AsyncFinish, AsyncFlag, AsyncEndTime, AsyncFreeze, Deliver, DeliverDone, Next, Collect
<1> QED
  BY <1>1, <1>2, <1>3 DEF ContextNext

\* What Register does to the stage of its span
LEMMA RegisterStage ==
  ASSUME TypeOK, NEW s \in Span, Register(s)
  PROVE  /\ stage[s] \in {"numbered", "loaded"} /\ stage[s] \notin Born
         /\ stage'[s] \in {"numbered", "loaded", "open"}
         /\ \A t \in Span \ {s} : stage'[t] = stage[t]
BY DEF Register, LoadRef, CasRef, BecomeRoot, TypeOK, Born

\* A span is lost in the step that opens it, or never.
LEMMA Losses ==
  ASSUME TypeOK, LifeTypeOK, [ContextNext]_ctxVars
  PROVE  \/ lost' = lost
         \/ \E s \in Span : stage[s] \notin Born /\ stage'[s] \in Born /\ lost' = lost \cup {s}
<1>1. CASE UNCHANGED ctxVars
  BY <1>1 DEF ctxVars, lifeVars, flagVars
<1>2. ASSUME NEW g \in Goroutine, NEW k \in Kind, NEW s \in Span, CreateSpan(g, k, s)
      PROVE  lost' = lost \/ (stage[s] \notin Born /\ stage'[s] \in Born /\ lost' = lost \cup {s})
  BY <1>2 DEF CreateSpan, Return, ReturnError, NewRoot, BecomeRoot, TypeOK, Born
<1>3. ASSUME NEW g \in Goroutine, NEW s \in Span, busy[g] = s, RegisterSpan(g)
      PROVE  lost' = lost \/ (stage[s] \notin Born /\ stage'[s] \in Born /\ lost' = lost \cup {s})
  <2>1. Register(s) /\ stage[s] \notin Born
    BY <1>3, RegisterStage DEF RegisterSpan
  <2>2. CASE stage'[s] = "open"
    BY <1>3, <2>1, <2>2 DEF RegisterSpan, Return, ReturnError, Born
  <2>3. CASE stage'[s] # "open"
    BY <1>3, <2>3 DEF RegisterSpan
  <2> QED
    BY <2>2, <2>3
<1>4. ASSUME NEW g \in Goroutine,
             \/ \E k \in Kind : CreateReused(g, k)
             \/ End(g) \/ PrepareAsync(g) \/ CaptureContext(g) \/ ContinueContext(g) \/ CleanContext(g)
             \/ \E h \in Goroutine : StartGoroutine(g, h)
      PROVE  lost' = lost
  BY <1>4 DEF CreateReused, End, EndNested, EndAgain, EndAsync, EndLast, PrepareAsync, CaptureContext,
     ContinueContext, CleanContext, StartGoroutine, flagVars
<1>5. ASSUME NEW s \in Span, AsyncFinish(s) \/ Deliver(s) \/ DeliverDone(s)
      PROVE  lost' = lost
  BY <1>5 DEF AsyncFinish, AsyncFlag, AsyncEndTime, AsyncFreeze, Deliver, DeliverDone, lifeVars, flagVars
<1>6. ASSUME NEW g \in Goroutine, GoroutineStep(g)
      PROVE  lost' = lost \/ \E s \in Span : stage[s] \notin Born /\ stage'[s] \in Born /\ lost' = lost \cup {s}
  BY <1>2, <1>3, <1>4, <1>6 DEF GoroutineStep
<1> QED
  BY <1>1, <1>5, <1>6 DEF ContextNext

\* Types are kept by every step.
LEMMA LifeTypeStep ==
  ASSUME TypeOK, LifeTypeOK, [ContextNext]_ctxVars
  PROVE  LifeTypeOK'
<1>1. CASE UNCHANGED ctxVars
  BY <1>1 DEF ctxVars, lifeVars, goVars, flagVars, LifeTypeOK
<1>2. ASSUME NEW g \in Goroutine, GoroutineStep(g) PROVE LifeTypeOK'
  <2> USE DEF LifeTypeOK
  <2>r. Nil \in Ref /\ \A s \in Span : Live(s) \in Ref /\ Snap(s) \in Ref
    BY DEF Ref, Nil, Live, Snap
  <2>n. \A x \in Ref : SnapshotOf(x) \in Ref
    BY <2>r, Refs DEF SnapshotOf, Snap
  <2>1. ASSUME NEW k \in Kind, CreateReused(g, k) PROVE LifeTypeOK'
    <3>1. active[g][2] \in Span
      BY <2>1, Refs DEF CreateReused, Reusable
    <3>2. frames' \in [Goroutine -> Seq(Span)]
      BY <2>1, <3>1, Frames DEF CreateReused
    <3> QED
      BY <2>1, <3>1, <3>2 DEF CreateReused
  <2>2. ASSUME NEW k \in Kind, NEW s \in Span, CreateSpan(g, k, s) PROVE LifeTypeOK'
    <3>1. frames' \in [Goroutine -> Seq(Span)]
      BY <2>2, Frames DEF CreateSpan, Return, ReturnError
    <3> QED
      BY <2>2, <3>1, <2>r DEF CreateSpan, Return, ReturnError
  <2>3. ASSUME NEW s \in Span, busy[g] = s, RegisterSpan(g) PROVE LifeTypeOK'
    <3>1. frames' \in [Goroutine -> Seq(Span)]
      BY <2>3, Frames DEF RegisterSpan, Return, ReturnError
    <3>2. UNCHANGED <<base, captured, kind, parent, endTime, reuse, async, depth>>
      BY <2>3 DEF RegisterSpan
    <3>3. active' \in [Goroutine -> Ref] /\ lost' \subseteq Span
      BY <2>3, <2>r DEF RegisterSpan, Return, ReturnError, LifeTypeOK
    <3>4. busy' \in [Goroutine -> Span \cup {NoSpan}]
      BY <2>3 DEF RegisterSpan, LifeTypeOK
    <3> QED
      BY <3>1, <3>2, <3>3, <3>4 DEF LifeTypeOK
  <2>4. ASSUME End(g) PROVE LifeTypeOK'
    <3>1. frames[g] # <<>> /\ Pop(g)
      BY <2>4 DEF End, EndNested, EndAgain, EndAsync, EndLast
    <3>2. Top(g) \in Span /\ frames' \in [Goroutine -> Seq(Span)]
      BY <3>1, Frames
    <3>3. CASE EndNested(g)
      BY <3>2, <3>3 DEF EndNested, HandOver
    <3>4. CASE EndAgain(g)
      BY <3>2, <3>4 DEF EndAgain, flagVars
    <3>5. CASE EndAsync(g)
      BY <3>2, <3>5 DEF EndAsync, HandOver
    <3>6. CASE EndLast(g)
      BY <3>2, <3>6 DEF EndLast
    <3> QED
      BY <2>4, <3>3, <3>4, <3>5, <3>6 DEF End
  <2>5. ASSUME PrepareAsync(g) PROVE LifeTypeOK'
    <3>1. Top(g) \in Span /\ Len(frames[g]) \in Nat
      BY <2>5, Frames DEF PrepareAsync
    <3> QED
      BY <2>5, <3>1 DEF PrepareAsync, goVars
  <2>6. ASSUME CaptureContext(g) \/ ContinueContext(g) \/ CleanContext(g) PROVE LifeTypeOK'
    <3>1. CASE CaptureContext(g)
      <4>1. captured' \in SUBSET Ref
        BY <2>n, <3>1 DEF CaptureContext
      <4> QED
        BY <3>1, <4>1 DEF CaptureContext, flagVars
    <3>2. CASE ContinueContext(g)
      <4>1. PICK x \in Ref : Adopt(g, x)
        BY <3>2 DEF ContinueContext
      <4>2. active' \in [Goroutine -> Ref] /\ base' \in [Goroutine -> Ref]
        BY <4>1 DEF Adopt
      <4> QED
        BY <3>2, <4>2 DEF ContinueContext, flagVars
    <3>3. CASE CleanContext(g)
      <4>1. active' \in [Goroutine -> Ref] /\ base' \in [Goroutine -> Ref]
        BY <2>r, <3>3 DEF CleanContext, Adopt
      <4> QED
        BY <3>3, <4>1 DEF CleanContext, flagVars
    <3> QED
      BY <2>6, <3>1, <3>2, <3>3
  <2>7. ASSUME NEW h \in Goroutine, StartGoroutine(g, h) PROVE LifeTypeOK'
    BY <2>7, <2>n DEF StartGoroutine, Adopt, flagVars
  <2> QED
    BY <1>2, <2>1, <2>2, <2>3, <2>4, <2>5, <2>6, <2>7 DEF GoroutineStep
<1>3. ASSUME NEW s \in Span, AsyncFinish(s) \/ Deliver(s) \/ DeliverDone(s) PROVE LifeTypeOK'
  BY <1>3 DEF AsyncFinish, AsyncFlag, AsyncEndTime, AsyncFreeze, Deliver, DeliverDone,
     LifeTypeOK, goVars, flagVars, lifeVars
<1> QED
  BY <1>1, <1>2, <1>3 DEF ContextNext

\* References stay valid.
LEMMA FreshStep ==
  ASSUME TypeOK, LifeTypeOK, Fresh, [ContextNext]_ctxVars
  PROVE  Fresh'
<1>a. /\ Alive \subseteq Alive' /\ Alive \subseteq Span
      /\ Opened \subseteq Opened' /\ Opened \subseteq Span
      /\ \A s \in lost' : stage'[s] \in Born
  <2>1. /\ Alive \subseteq Alive'
        /\ \A s \in Span : stage[s] \in Born => stage'[s] \in Born
        /\ \A s \in lost : s \in Span /\ stage[s] \in Born
    BY Composes, NoRebirth DEF Fresh, LifeTypeOK
  <2>2. CASE lost' = lost
    BY <2>1, <2>2 DEF Alive, Opened
  <2>3. ASSUME NEW s \in Span, stage[s] \notin Born, stage'[s] \in Born, lost' = lost \cup {s}
        PROVE  Opened \subseteq Opened' /\ \A t \in lost' : stage'[t] \in Born
    BY <2>1, <2>3 DEF Opened
  <2> QED
    BY <2>1, <2>2, <2>3, Losses DEF Alive, Opened
<1> DEFINE Ok(x) == x[1] # "nil" => x[2] \in Opened'
           FramesOk == \A k \in Goroutine : \A i \in DOMAIN frames'[k] : frames'[k][i] \in Opened'
           ActiveOk == \A k \in Goroutine : Ok(active'[k])
           BusyOk   == \A k \in Goroutine : busy'[k] \in Alive' \cup {NoSpan}
           ParentOk == \A s \in Span : Ok(parent'[s])
           CaptOk   == \A x \in captured' : Ok(x)
<1>f. FramesOk /\ ActiveOk /\ BusyOk /\ ParentOk /\ CaptOk => Fresh'
  BY <1>a DEF Fresh
<1>o. /\ (frames' = frames => FramesOk) /\ (active' = active => ActiveOk)
      /\ (busy' = busy => BusyOk) /\ (parent' = parent => ParentOk)
      /\ (captured' = captured => CaptOk)
  BY <1>a DEF Fresh
<1>l. Ok(Nil) /\ \A s \in Opened' : Ok(Live(s)) /\ Ok(Snap(s))
  BY DEF Nil, Live, Snap
<1>n. /\ \A k \in Goroutine : Ok(active[k]) /\ Ok(SnapshotOf(active[k]))
      /\ \A s \in Span : Ok(parent[s])
      /\ \A x \in captured : Ok(x)
  <2>1. /\ \A k \in Goroutine : Ok(active[k])
        /\ \A s \in Span : Ok(parent[s])
        /\ \A x \in captured : Ok(x)
    BY <1>a DEF Fresh
  <2>2. ASSUME NEW k \in Goroutine PROVE Ok(SnapshotOf(active[k]))
    BY <2>1, <1>l, Refs DEF SnapshotOf, LifeTypeOK
  <2> QED
    BY <2>1, <2>2
<1> HIDE DEF Ok
<1>1. CASE UNCHANGED ctxVars
  BY <1>1, <1>f, <1>o DEF ctxVars, lifeVars, goVars, flagVars
<1>s. \A s \in Opened' : s \in Span
  BY DEF Opened
<1>p. ASSUME NEW g \in Goroutine, NEW s \in Opened', Push(g, s) PROVE FramesOk
  <2>1. \A k \in Goroutine : \A i \in DOMAIN frames[k] : frames[k][i] \in Opened'
    BY <1>a DEF Fresh
  <2> QED
    BY <1>p, <1>s, <2>1, Frames
<1>2. ASSUME NEW g \in Goroutine, GoroutineStep(g) PROVE Fresh'
  <2>1. ASSUME NEW k \in Kind, CreateReused(g, k) PROVE Fresh'
    <3>1. active[g][2] \in Opened'
      BY <2>1, <1>a DEF CreateReused, Reusable, Fresh
    <3>2. FramesOk
      BY <2>1, <3>1, <1>p DEF CreateReused
    <3> QED
      BY <2>1, <3>2, <1>f, <1>o DEF CreateReused
  <2>2. ASSUME NEW k \in Kind, NEW s \in Span, CreateSpan(g, k, s) PROVE Fresh'
    <3>1. s \in Alive'
      BY <2>2 DEF CreateSpan, NewRoot, BecomeRoot, CopyContext, Alive, TypeOK
    <3>0. stage[s] = "unborn" /\ s \notin lost
      BY <2>2 DEF CreateSpan, NewRoot, CopyContext, Fresh, Born
    <3>2. /\ parent' = [parent EXCEPT ![s] = active[g]]
          /\ captured' = captured
          /\ busy' \in {busy, [busy EXCEPT ![g] = s]}
          /\ \/ active' = active /\ frames' = frames
             \/ active' = [active EXCEPT ![g] = Live(s)] /\ Push(g, s) /\ s \in Opened'
      BY <2>2, <3>0 DEF CreateSpan, Return, ReturnError, NewRoot, BecomeRoot, Opened, Born, TypeOK
    <3>3. FramesOk
      BY <3>2, <1>o, <1>p
    <3>4. ActiveOk
      BY <3>2, <1>l, <1>n DEF LifeTypeOK
    <3>5. BusyOk
      BY <3>1, <3>2, <1>a DEF LifeTypeOK, Fresh
    <3>6. ParentOk
      BY <3>2, <1>n DEF LifeTypeOK
    <3> QED
      BY <3>2, <3>3, <3>4, <3>5, <3>6, <1>f, <1>o
  <2>3. ASSUME NEW s \in Span, busy[g] = s, RegisterSpan(g) PROVE Fresh'
    <3>1. s \in Alive
      BY <2>3, SpanAssumption DEF Fresh
    <3>2. /\ parent' = parent /\ captured' = captured
          /\ busy' \in {busy, [busy EXCEPT ![g] = NoSpan]}
          /\ \/ active' = active /\ frames' = frames
             \/ active' = [active EXCEPT ![g] = Live(s)] /\ Push(g, s) /\ s \in Opened'
      <4>1. s \in Span \ lost
        <5>1. stage[s] \notin Born
          BY <2>3, RegisterStage DEF RegisterSpan
        <5> QED
          BY <5>1 DEF Fresh
      <4>2. CASE stage'[s] = "open"
        BY <2>3, <4>1, <4>2 DEF RegisterSpan, Return, ReturnError, Opened, Born
      <4>3. CASE stage'[s] # "open"
        BY <2>3, <4>3 DEF RegisterSpan
      <4> QED
        BY <4>2, <4>3
    <3>3. FramesOk
      BY <3>2, <1>o, <1>p
    <3>4. ActiveOk
      <4>1. CASE active' = active
        BY <4>1, <1>o
      <4>2. CASE active' = [active EXCEPT ![g] = Live(s)] /\ s \in Opened'
        <5>1. Ok(Live(s))
          BY <4>2, <1>l
        <5>2. \A k \in Goroutine : active'[k] = Live(s) \/ active'[k] = active[k]
          BY <4>2 DEF LifeTypeOK
        <5> QED
          BY <5>1, <5>2, <1>n
      <4> QED
        BY <3>2, <4>1, <4>2
    <3>5. BusyOk
      BY <3>2, <1>a DEF LifeTypeOK, Fresh
    <3> QED
      BY <3>2, <3>3, <3>4, <3>5, <1>f, <1>o
  <2>4. ASSUME End(g) PROVE Fresh'
    <3>1. /\ frames[g] # <<>> /\ Pop(g)
          /\ active' = active \/ active' = [active EXCEPT ![g] = parent[Top(g)]]
          /\ busy' = busy \/ busy' = [busy EXCEPT ![g] = Top(g)] \/ busy' = [busy EXCEPT ![g] = NoSpan]
          /\ parent' = parent /\ captured' = captured
      BY <2>4 DEF End, EndNested, EndAgain, EndAsync, EndLast, flagVars
    <3>2. Top(g) \in Span /\ Top(g) \in Alive
      BY <3>1, Frames, NoRebirth, Composes DEF Top, Fresh
    <3>3. FramesOk
      <4>1. \A j \in Goroutine : \A i \in DOMAIN frames[j] : frames[j][i] \in Opened'
        BY <1>a DEF Fresh
      <4> QED
        BY <3>1, <4>1, Frames
    <3>4. ActiveOk
      BY <3>1, <3>2, <1>n DEF LifeTypeOK
    <3>5. BusyOk
      BY <3>1, <3>2, <1>a DEF LifeTypeOK, Fresh
    <3> QED
      BY <3>1, <3>3, <3>4, <3>5, <1>f, <1>o
  <2>5. ASSUME PrepareAsync(g) PROVE Fresh'
    BY <2>5, <1>f, <1>o DEF PrepareAsync, goVars
  <2>6. ASSUME CaptureContext(g) PROVE Fresh'
    <3>1. CaptOk
      BY <2>6, <1>n DEF CaptureContext
    <3> QED
      BY <2>6, <3>1, <1>f, <1>o DEF CaptureContext, flagVars
  <2>7. ASSUME ContinueContext(g) \/ CleanContext(g) PROVE Fresh'
    <3>1. ActiveOk
      BY <2>7, <1>l, <1>n DEF ContinueContext, CleanContext, Adopt, LifeTypeOK
    <3> QED
      BY <2>7, <3>1, <1>f, <1>o DEF ContinueContext, CleanContext, flagVars
  <2>8. ASSUME NEW h \in Goroutine, StartGoroutine(g, h) PROVE Fresh'
    <3>1. ActiveOk
      BY <2>8, <1>n DEF StartGoroutine, Adopt, LifeTypeOK
    <3> QED
      BY <2>8, <3>1, <1>f, <1>o DEF StartGoroutine, flagVars
  <2> QED
    BY <1>2, <2>1, <2>2, <2>3, <2>4, <2>5, <2>6, <2>7, <2>8 DEF GoroutineStep
<1>3. ASSUME NEW s \in Span, AsyncFinish(s) \/ Deliver(s) \/ DeliverDone(s) PROVE Fresh'
  <2>1. UNCHANGED <<active, frames, captured, parent>>
    BY <1>3 DEF AsyncFinish, AsyncFlag, AsyncEndTime, AsyncFreeze, Deliver, DeliverDone,
       goVars, flagVars, lifeVars
  <2>2. busy' = busy \/ busy' = [k \in Goroutine |-> IF busy[k] = s THEN NoSpan ELSE busy[k]]
    BY <1>3 DEF AsyncFinish, AsyncFlag, AsyncEndTime, AsyncFreeze, Deliver, DeliverDone,
       goVars, lifeVars
  <2>3. BusyOk
    BY <2>2, <1>a DEF Fresh
  <2> QED
    BY <2>1, <2>3, <1>f, <1>o
<1> QED
  BY <1>1, <1>2, <1>3 DEF ContextNext

\* The goroutine of a span never changes, and no step hands a span to another.
LEMMA HomeStep ==
  ASSUME TypeOK, LifeTypeOK, Fresh, HomeInv, [ContextNext]_ctxVars
  PROVE  HomeInv'
<1>h. PICK h \in [Span -> Goroutine] : Homed(h)
  BY DEF HomeInv
<1>u. Unshared
  BY DEF HomeInv
<1> DEFINE FramesAt(f) == \A k \in Goroutine : \A i \in DOMAIN frames'[k] : f[frames'[k][i]] = k
           ActiveAt(f) == \A k \in Goroutine : active'[k][1] = "live" => f[active'[k][2]] = k
           BusyAt(f)   == \A k \in Goroutine : busy'[k] # NoSpan => f[busy'[k]] = k
           ParentAt(f) == \A s \in Span : parent'[s][1] = "live" => f[parent'[s][2]] = f[s]
<1>f. ASSUME NEW f \in [Span -> Goroutine],
             FramesAt(f), ActiveAt(f), BusyAt(f), ParentAt(f), Unshared'
      PROVE  HomeInv'
  BY <1>f DEF HomeInv, Homed
<1>o. /\ (frames' = frames => FramesAt(h)) /\ (active' = active => ActiveAt(h))
      /\ (busy' = busy => BusyAt(h)) /\ (parent' = parent => ParentAt(h))
      /\ (captured' = captured => Unshared')
  BY <1>h, <1>u DEF Homed, Unshared
<1>n. /\ \A x : SnapshotOf(x)[1] # "live"
      /\ Nil[1] # "live"
      /\ \A s : Live(s)[2] = s
  BY DEF SnapshotOf, Nil, Snap, Live
<1>1. CASE UNCHANGED ctxVars
  BY <1>1, <1>f, <1>o DEF ctxVars, lifeVars, goVars, flagVars
<1>p. ASSUME NEW g \in Goroutine, NEW s \in Span, h[s] = g, Push(g, s) PROVE FramesAt(h)
  <2> SUFFICES ASSUME NEW k \in Goroutine, NEW i \in DOMAIN frames'[k]
               PROVE  h[frames'[k][i]] = k
    OBVIOUS
  <2>1. CASE k # g
    BY <1>p, <1>h, <2>1, Frames DEF Homed
  <2>2. CASE k = g
    <3>1. frames'[g][i] = s \/ (i \in DOMAIN frames[g] /\ frames'[g][i] = frames[g][i])
      BY <1>p, <2>2, Frames
    <3> QED
      BY <1>p, <1>h, <2>2, <3>1 DEF Homed
  <2> QED
    BY <2>1, <2>2
<1>2. ASSUME NEW g \in Goroutine, GoroutineStep(g) PROVE HomeInv'
  <2>1. ASSUME NEW k \in Kind, CreateReused(g, k) PROVE HomeInv'
    <3>1. active[g][2] \in Span /\ h[active[g][2]] = g
      BY <2>1, <1>h, Refs DEF CreateReused, Reusable, Homed, LifeTypeOK
    <3>2. FramesAt(h)
      BY <2>1, <3>1, <1>p DEF CreateReused
    <3> QED
      BY <2>1, <3>2, <1>f, <1>o DEF CreateReused
  <2>2. ASSUME NEW k \in Kind, NEW s \in Span, CreateSpan(g, k, s) PROVE HomeInv'
    <3> DEFINE hs == [h EXCEPT ![s] = g]
    <3>0. hs \in [Span -> Goroutine] /\ hs[s] = g /\ \A x \in Span : x # s => hs[x] = h[x]
      OBVIOUS
    <3> HIDE DEF hs
    <3>1. s \notin Alive
      BY <2>2 DEF CreateSpan, NewRoot, CopyContext, Alive
    <3>2. /\ parent' = [parent EXCEPT ![s] = active[g]]
          /\ captured' = captured
          /\ busy' \in {busy, [busy EXCEPT ![g] = s]}
          /\ active' \in {active, [active EXCEPT ![g] = Live(s)]}
          /\ frames' = frames \/ Push(g, s)
      BY <2>2 DEF CreateSpan, Return, ReturnError
    <3>a. Opened \subseteq Alive /\ \A x \in Alive : x \in Span /\ hs[x] = h[x]
      BY <3>0, <3>1, NoRebirth, Composes DEF Alive
    <3>3. FramesAt(hs)
      <4>1. \A j \in Goroutine : \A i \in DOMAIN frames[j] : hs[frames[j][i]] = j
        BY <1>h, <3>a DEF Homed, Fresh
      <4>2. CASE frames' = frames
        BY <4>1, <4>2
      <4>3. ASSUME Push(g, s), NEW j \in Goroutine, NEW i \in DOMAIN frames'[j]
            PROVE  hs[frames'[j][i]] = j
        <5>1. CASE j # g
          BY <4>1, <4>3, <5>1, Frames
        <5>2. CASE j = g
          <6>1. frames'[g][i] = s \/ (i \in DOMAIN frames[g] /\ frames'[g][i] = frames[g][i])
            BY <4>3, <5>2, Frames
          <6> QED
            BY <3>0, <4>1, <5>2, <6>1
        <5> QED
          BY <5>1, <5>2
      <4> QED
        BY <3>2, <4>2, <4>3
    <3>4. \A j \in Goroutine : active[j][1] = "live" => hs[active[j][2]] = j
      BY <1>h, <3>a DEF Homed, Fresh
    <3>5. ActiveAt(hs)
      <4>1. CASE active' = active
        BY <3>4, <4>1
      <4>2. CASE active' = [active EXCEPT ![g] = Live(s)]
        <5>1. active'[g][2] = s /\ \A j \in Goroutine : j # g => active'[j] = active[j]
          BY <4>2 DEF Live, LifeTypeOK
        <5> QED
          BY <3>0, <3>4, <5>1
      <4> QED
        BY <3>2, <4>1, <4>2
    <3>6. \A j \in Goroutine : busy[j] # NoSpan => hs[busy[j]] = j
      BY <1>h, <3>a DEF Homed, Fresh
    <3>7. BusyAt(hs)
      BY <3>0, <3>2, <3>6 DEF LifeTypeOK
    <3>8. \A x \in Span : x # s /\ parent[x][1] = "live" => hs[parent[x][2]] = hs[x]
      BY <1>h, <3>0, <3>a DEF Homed, Fresh
    <3>9. ParentAt(hs)
      BY <3>0, <3>2, <3>4, <3>8 DEF LifeTypeOK
    <3> QED
      BY <3>0, <3>2, <3>3, <3>5, <3>7, <3>9, <1>f, <1>o
  <2>3. ASSUME NEW s \in Span, busy[g] = s, RegisterSpan(g) PROVE HomeInv'
    <3>1. h[s] = g
      BY <2>3, <1>h, SpanAssumption DEF Homed
    <3>2. /\ parent' = parent /\ captured' = captured
          /\ busy' \in {busy, [busy EXCEPT ![g] = NoSpan]}
          /\ active' \in {active, [active EXCEPT ![g] = Live(s)]}
          /\ frames' = frames \/ Push(g, s)
      BY <2>3 DEF RegisterSpan, Return, ReturnError
    <3>3. FramesAt(h)
      BY <3>1, <3>2, <1>o, <1>p
    <3>4. ActiveAt(h)
      <4>1. CASE active' = active
        BY <4>1, <1>o
      <4>2. CASE active' = [active EXCEPT ![g] = Live(s)]
        <5>1. active'[g][2] = s /\ \A j \in Goroutine : j # g => active'[j] = active[j]
          BY <4>2 DEF Live, LifeTypeOK
        <5> QED
          BY <3>1, <5>1, <1>h DEF Homed
      <4> QED
        BY <3>2, <4>1, <4>2
    <3>5. BusyAt(h)
      BY <3>2, <1>h DEF LifeTypeOK, Homed
    <3> QED
      BY <3>2, <3>3, <3>4, <3>5, <1>f, <1>o
  <2>4. ASSUME End(g) PROVE HomeInv'
    <3>1. /\ frames[g] # <<>> /\ Pop(g)
          /\ active' = active \/ active' = [active EXCEPT ![g] = parent[Top(g)]]
          /\ busy' = busy \/ busy' = [busy EXCEPT ![g] = Top(g)] \/ busy' = [busy EXCEPT ![g] = NoSpan]
          /\ parent' = parent /\ captured' = captured
      BY <2>4 DEF End, EndNested, EndAgain, EndAsync, EndLast, flagVars
    <3>2. Top(g) \in Span /\ h[Top(g)] = g
      BY <3>1, <1>h, Frames DEF Top, Homed
    <3>3. FramesAt(h)
      <4> SUFFICES ASSUME NEW j \in Goroutine, NEW i \in DOMAIN frames'[j]
                   PROVE  h[frames'[j][i]] = j
        OBVIOUS
      <4>1. frames'[j][i] = frames[j][i] /\ i \in DOMAIN frames[j]
        BY <3>1, Frames
      <4> QED
        BY <1>h, <4>1 DEF Homed
    <3>4. ActiveAt(h)
      <4>1. CASE active' = active
        BY <4>1, <1>o
      <4>2. CASE active' = [active EXCEPT ![g] = parent[Top(g)]]
        <5>1. active'[g] = parent[Top(g)] /\ \A j \in Goroutine : j # g => active'[j] = active[j]
          BY <4>2 DEF LifeTypeOK
        <5> QED
          BY <3>2, <5>1, <1>h DEF Homed
      <4> QED
        BY <3>1, <4>1, <4>2
    <3>5. BusyAt(h)
      <4>1. CASE busy' = busy
        BY <4>1, <1>o
      <4>2. CASE busy' = [busy EXCEPT ![g] = Top(g)] \/ busy' = [busy EXCEPT ![g] = NoSpan]
        <5>1. busy'[g] \in {Top(g), NoSpan} /\ \A j \in Goroutine : j # g => busy'[j] = busy[j]
          BY <4>2 DEF LifeTypeOK
        <5> QED
          BY <3>2, <5>1, <1>h DEF Homed
      <4> QED
        BY <3>1, <4>1, <4>2
    <3> QED
      BY <3>1, <3>3, <3>4, <3>5, <1>f, <1>o
  <2>5. ASSUME PrepareAsync(g) PROVE HomeInv'
    BY <2>5, <1>f, <1>o DEF PrepareAsync, goVars
  <2>6. ASSUME CaptureContext(g) PROVE HomeInv'
    <3>1. Unshared'
      BY <2>6, <1>u, <1>n DEF CaptureContext, Unshared
    <3> QED
      BY <2>6, <3>1, <1>f, <1>o DEF CaptureContext, flagVars
  <2>7. ASSUME ContinueContext(g) \/ CleanContext(g) PROVE HomeInv'
    <3>1. PICK x : x[1] # "live" /\ active' = [active EXCEPT ![g] = x]
      BY <2>7, <1>u, <1>n DEF ContinueContext, CleanContext, Adopt, Unshared
    <3>2. ActiveAt(h)
      BY <3>1, <1>h DEF Homed, LifeTypeOK
    <3> QED
      BY <2>7, <3>2, <1>f, <1>o DEF ContinueContext, CleanContext, flagVars
  <2>8. ASSUME NEW k \in Goroutine, StartGoroutine(g, k) PROVE HomeInv'
    <3>1. ActiveAt(h)
      BY <2>8, <1>h, <1>n DEF Homed, LifeTypeOK, StartGoroutine, Adopt
    <3> QED
      BY <2>8, <3>1, <1>f, <1>o DEF StartGoroutine, flagVars
  <2> QED
    BY <1>2, <2>1, <2>2, <2>3, <2>4, <2>5, <2>6, <2>7, <2>8 DEF GoroutineStep
<1>3. ASSUME NEW s \in Span, AsyncFinish(s) \/ Deliver(s) \/ DeliverDone(s) PROVE HomeInv'
  <2>1. UNCHANGED <<active, frames, captured, parent>>
    BY <1>3 DEF AsyncFinish, AsyncFlag, AsyncEndTime, AsyncFreeze, Deliver, DeliverDone,
       goVars, flagVars, lifeVars
  <2>2. busy' = busy \/ busy' = [k \in Goroutine |-> IF busy[k] = s THEN NoSpan ELSE busy[k]]
    BY <1>3 DEF AsyncFinish, AsyncFlag, AsyncEndTime, AsyncFreeze, Deliver, DeliverDone,
       goVars, lifeVars
  <2>3. BusyAt(h)
    BY <2>2, <1>h DEF Homed
  <2> QED
    BY <2>1, <2>3, <1>f, <1>o
<1> QED
  BY <1>1, <1>2, <1>3 DEF ContextNext

LEMMA InitCtxInv == ContextInit => CtxInv
<1> SUFFICES ASSUME ContextInit PROVE CtxInv
  OBVIOUS
<1>1. IInv
  BY InitIInv DEF ContextInit
<1>2. LifeTypeOK
  BY SpanAssumption DEF ContextInit, LifeTypeOK, Ref
<1>3. Fresh
  BY SpanAssumption DEF ContextInit, Fresh, Nil
<1>4. HomeInv
  <2> DEFINE h == [s \in Span |-> CHOOSE g \in Goroutine : TRUE]
  <2>1. h \in [Span -> Goroutine]
    BY ContextAssumption
  <2>2. Homed(h)
    BY SpanAssumption DEF ContextInit, Homed, Nil
  <2> QED
    BY <2>1, <2>2 DEF HomeInv, Unshared, ContextInit
<1> QED
  BY <1>1, <1>2, <1>3, <1>4 DEF CtxInv

\* CtxInv holds in every reachable state of any number of goroutines.
THEOREM ContextInvariance == ContextSpec => []CtxInv
<1>1. CtxInv /\ [ContextNext]_ctxVars => CtxInv'
  BY Composes, StepIInv, LifeTypeStep, FreshStep, HomeStep DEF CtxInv, IInv
<1> QED
  BY <1>1, InitCtxInv, PTL DEF ContextSpec

\* Types are kept.
THEOREM ContextTypeCorrect == ContextSpec => []ContextTypeOK
<1>1. CtxInv => ContextTypeOK
  BY DEF CtxInv, IInv, ContextTypeOK
<1> QED
  BY <1>1, ContextInvariance, PTL

\* However spans are created, reused, ended and finished, their registrations,
\* freezes and deliveries are a behaviour of SegmentCollector.
THEOREM Composition == ContextSpec => Spec
<1>1. CtxInv /\ [ContextNext]_ctxVars => [Next]_vars
  BY Composes DEF CtxInv
<1>2. ContextInit => Init
  BY DEF ContextInit
<1> QED
  BY <1>1, <1>2, ContextInvariance, PTL DEF ContextSpec, Spec

\* So no program, whatever it does with its spans, makes a segment lose one, or
\* reports what is not a tree.
THEOREM ContextWholeSegments ==
  ContextSpec => [](ReportIsWholeSegment /\ NeverStranded /\ ReportIsSpanTree)
BY Composition, WholeSegments, Unstranded, SpanTrees, PTL

\* All owners of a span are on one goroutine.
THEOREM OneGoroutine == ContextSpec => []OwnersOnOneGoroutine
<1>1. CtxInv => OwnersOnOneGoroutine
  <2> SUFFICES ASSUME CtxInv, NEW s \in Span PROVE Cardinality(OwnedOn(s)) <= 1
    BY DEF OwnersOnOneGoroutine
  <2>1. PICK h \in [Span -> Goroutine] : Homed(h)
    BY DEF CtxInv, HomeInv
  <2>2. OwnedOn(s) \subseteq {h[s]}
    BY <2>1 DEF OwnedOn, Owned, Homed
  <2>3. IsFiniteSet({h[s]}) /\ Cardinality({h[s]}) = 1
    BY FS_Singleton
  <2>4. IsFiniteSet(OwnedOn(s)) /\ Cardinality(OwnedOn(s)) <= Cardinality({h[s]})
    BY <2>2, <2>3, FS_Subset
  <2> QED
    BY <2>3, <2>4, FS_CardinalityType
<1> QED
  BY <1>1, ContextInvariance, PTL
-----------------------------------------------------------------------------
(* Owners are counted.  That goes for every program; that the last owner     *)
(* is also the last to write, and leaves the context as it found it, only    *)
(* for one whose nested owners do not go asynchronous: where they do, the    *)
(* run MCTracingContextOwners has the counterexample to LastEndFreezes.      *)

OwnersIn(f, s) == {x \in Goroutine \X Nat : x[2] \in DOMAIN f[x[1]] /\ f[x[1]][x[2]] = s}

\* Of a span: its owners O, stage st, reuseCount rc, whether EndTime is set, and
\* of PrepareAsync the state as.
CountOk(O, st, rc, et, as) ==
  /\ IsFiniteSet(O)
  /\ st \notin Born => O = {} /\ rc = 0 /\ ~et /\ as = "none"
  /\ st \in Born /\ ~et => Cardinality(O) = rc + 1
  /\ st \in Ended => et
  /\ as \in {"timed", "done"} => et

\* Where only single owners prepare a span, in frame d, those that came later
\* are above that frame, and they are all gone before the span is handed over.
LoneOk(O, et, as, d) ==
  /\ et => O = {}
  /\ as = "prepared" => ~et /\ (\E x \in O : x[2] = d) /\ \A x \in O : d <= x[2]
  /\ as \in {"handed", "flagged"} => et

OwnerOk(O, st, rc, et, as, d) == CountOk(O, st, rc, et, as) /\ (NestedAsync \/ LoneOk(O, et, as, d))

\* Of the spans that were returned to somebody
OwnerInv == \A s \in Span \ lost :
  OwnerOk(OwnersIn(frames, s), stage[s], reuse[s], endTime[s], async[s], depth[s])

LEMMA OwnersAre ==
  ASSUME NEW f \in [Goroutine -> Seq(Span)], NEW s
  PROVE  UNION {{g} \X {i \in DOMAIN f[g] : f[g][i] = s} : g \in Goroutine} = OwnersIn(f, s)
<1>1. \A g \in Goroutine : DOMAIN f[g] \subseteq Nat
  OBVIOUS
<1> QED
  BY <1>1 DEF OwnersIn

\* e is f with a frame x more of span s, or a frame less.
Pushed(f, e, g, s, x) ==
  /\ f \in [Goroutine -> Seq(Span)]
  /\ x = <<g, Len(f[g]) + 1>>
  /\ e = [f EXCEPT ![g] = Append(f[g], s)]

Popped(f, e, g, s, x) ==
  /\ f \in [Goroutine -> Seq(Span)]
  /\ f[g] # <<>> /\ s = f[g][Len(f[g])]
  /\ x = <<g, Len(f[g])>>
  /\ e = [f EXCEPT ![g] = SubSeq(f[g], 1, Len(f[g]) - 1)]

LEMMA PushOwners ==
  ASSUME NEW f, NEW e, NEW g \in Goroutine, NEW s \in Span, NEW x, Pushed(f, e, g, s, x)
  PROVE  /\ OwnersIn(e, s) = OwnersIn(f, s) \cup {x} /\ x \notin OwnersIn(f, s)
         /\ \A t \in Span \ {s} : OwnersIn(e, t) = OwnersIn(f, t)
<1> USE DEF Pushed
<1>1. /\ f[g] \in Seq(Span) /\ Len(f[g]) \in Nat /\ DOMAIN f[g] = 1..Len(f[g])
      /\ e[g] = Append(f[g], s) /\ \A h \in Goroutine \ {g} : e[h] = f[h]
  OBVIOUS
<1>2. /\ DOMAIN e[g] = 1..(Len(f[g]) + 1) /\ e[g][Len(f[g]) + 1] = s
      /\ \A i \in 1..Len(f[g]) : e[g][i] = f[g][i]
  BY <1>1
<1>3. /\ x \in Goroutine \X Nat /\ x[1] = g /\ x[2] = Len(f[g]) + 1 /\ x[2] \notin DOMAIN f[g]
      /\ DOMAIN e[g] = DOMAIN f[g] \cup {x[2]} /\ e[g][x[2]] = s
      /\ \A i \in DOMAIN f[g] : e[g][i] = f[g][i]
  BY <1>1, <1>2
<1>4. ASSUME NEW y \in Goroutine \X Nat, y # x
      PROVE  y[2] \in DOMAIN e[y[1]] <=> y[2] \in DOMAIN f[y[1]]
  <2>1. CASE y[1] = g
    <3>1. y[2] # x[2]
      BY <1>3, <1>4, <2>1
    <3> QED
      BY <1>3, <2>1, <3>1
  <2>2. CASE y[1] # g
    BY <1>1, <2>2
  <2> QED
    BY <2>1, <2>2
<1>5. ASSUME NEW y \in Goroutine \X Nat, y[2] \in DOMAIN f[y[1]]
      PROVE  e[y[1]][y[2]] = f[y[1]][y[2]]
  BY <1>1, <1>3, <1>5
<1>6. x \notin OwnersIn(f, s) /\ \A t \in Span : x \in OwnersIn(e, t) <=> t = s
  BY <1>3 DEF OwnersIn
<1>7. ASSUME NEW t \in Span, NEW y, y # x PROVE y \in OwnersIn(e, t) <=> y \in OwnersIn(f, t)
  BY <1>4, <1>5, <1>7 DEF OwnersIn
<1>8. \A t \in Span \ {s} : x \notin OwnersIn(f, t)
  BY <1>3 DEF OwnersIn
<1>9. OwnersIn(e, s) = OwnersIn(f, s) \cup {x}
  <2>1. \A y : y \in OwnersIn(e, s) <=> y \in OwnersIn(f, s) \cup {x}
    BY <1>6, <1>7
  <2> QED
    BY ONLY <2>1
<1>10. ASSUME NEW t \in Span \ {s} PROVE OwnersIn(e, t) = OwnersIn(f, t)
  <2>1. \A y : y \in OwnersIn(e, t) <=> y \in OwnersIn(f, t)
    BY <1>6, <1>7, <1>8
  <2>2. OwnersIn(e, t) \subseteq Goroutine \X Nat /\ OwnersIn(f, t) \subseteq Goroutine \X Nat
    BY DEF OwnersIn
  <2> QED
    BY ONLY <2>1, <2>2
<1> QED
  BY <1>6, <1>9, <1>10

LEMMA PopOwners ==
  ASSUME NEW f, NEW e, NEW g \in Goroutine, NEW s \in Span, NEW x, Popped(f, e, g, s, x)
  PROVE  /\ OwnersIn(e, s) = OwnersIn(f, s) \ {x} /\ x \in OwnersIn(f, s)
         /\ \A t \in Span \ {s} : OwnersIn(e, t) = OwnersIn(f, t)
<1> USE DEF Popped
<1>1. /\ f[g] \in Seq(Span) /\ Len(f[g]) \in Nat \ {0} /\ DOMAIN f[g] = 1..Len(f[g])
      /\ e[g] = SubSeq(f[g], 1, Len(f[g]) - 1) /\ \A h \in Goroutine \ {g} : e[h] = f[h]
  OBVIOUS
<1>2. /\ DOMAIN e[g] = 1..(Len(f[g]) - 1)
      /\ \A i \in 1..(Len(f[g]) - 1) : e[g][i] = f[g][i]
  BY <1>1
<1>3. /\ x \in Goroutine \X Nat /\ x[1] = g /\ x[2] = Len(f[g]) /\ x[2] \in DOMAIN f[g]
      /\ DOMAIN e[g] = DOMAIN f[g] \ {x[2]} /\ f[g][x[2]] = s
      /\ \A i \in DOMAIN e[g] : e[g][i] = f[g][i]
  BY <1>1, <1>2
<1>4. ASSUME NEW y \in Goroutine \X Nat, y # x
      PROVE  y[2] \in DOMAIN e[y[1]] <=> y[2] \in DOMAIN f[y[1]]
  <2>1. CASE y[1] = g
    <3>1. y[2] # x[2]
      BY <1>3, <1>4, <2>1
    <3> QED
      BY <1>3, <2>1, <3>1
  <2>2. CASE y[1] # g
    BY <1>1, <2>2
  <2> QED
    BY <2>1, <2>2
<1>5. ASSUME NEW y \in Goroutine \X Nat, y[2] \in DOMAIN e[y[1]]
      PROVE  e[y[1]][y[2]] = f[y[1]][y[2]]
  BY <1>1, <1>3, <1>5
<1>6. \A t : x \notin OwnersIn(e, t)
  BY <1>3 DEF OwnersIn
<1>7. ASSUME NEW t, NEW y, y # x PROVE y \in OwnersIn(e, t) <=> y \in OwnersIn(f, t)
  BY <1>4, <1>5, <1>7 DEF OwnersIn
<1>8. \A t : x \in OwnersIn(f, t) <=> t = s
  BY <1>3 DEF OwnersIn
<1>9. OwnersIn(e, s) = OwnersIn(f, s) \ {x}
  <2>1. \A y : y \in OwnersIn(e, s) <=> y \in OwnersIn(f, s) \ {x}
    BY <1>6, <1>7
  <2> QED
    BY ONLY <2>1
<1>10. ASSUME NEW t \in Span \ {s} PROVE OwnersIn(e, t) = OwnersIn(f, t)
  <2>1. \A y : y \in OwnersIn(e, t) <=> y \in OwnersIn(f, t)
    BY <1>6, <1>7, <1>8
  <2>2. OwnersIn(e, t) \subseteq Goroutine \X Nat /\ OwnersIn(f, t) \subseteq Goroutine \X Nat
    BY DEF OwnersIn
  <2> QED
    BY ONLY <2>1, <2>2
<1> QED
  BY <1>8, <1>9, <1>10

\* The stages a span may change to without a word about its owners
SameKind(st, st2) == st2 = st \/ (st \notin Born /\ st2 \notin Born) \/ (st \in Ended /\ st2 \in Ended)

LEMMA StagesOk ==
  ASSUME NEW O, NEW st, NEW st2, NEW rc, NEW et, NEW as, NEW d,
         OwnerOk(O, st, rc, et, as, d), SameKind(st, st2)
  PROVE  OwnerOk(O, st2, rc, et, as, d)
BY DEF OwnerOk, CountOk, LoneOk, SameKind, Born, Ended

\* Only span s is concerned.
LEMMA OwnerMoves ==
  ASSUME OwnerInv, lost \subseteq lost', NEW s \in Span,
         s \notin lost' =>
           OwnerOk(OwnersIn(frames', s), stage'[s], reuse'[s], endTime'[s], async'[s], depth'[s]),
         \A t \in Span \ {s} :
           /\ OwnersIn(frames', t) = OwnersIn(frames, t) /\ SameKind(stage[t], stage'[t])
           /\ reuse'[t] = reuse[t] /\ endTime'[t] = endTime[t]
           /\ async'[t] = async[t] /\ depth'[t] = depth[t]
  PROVE  OwnerInv'
<1>1. ASSUME NEW t \in Span \ {s}, t \notin lost'
      PROVE  OwnerOk(OwnersIn(frames', t), stage'[t], reuse'[t], endTime'[t], async'[t], depth'[t])
  <2>1. OwnerOk(OwnersIn(frames, t), stage[t], reuse[t], endTime[t], async[t], depth[t])
    BY <1>1 DEF OwnerInv
  <2>2. OwnerOk(OwnersIn(frames, t), stage'[t], reuse[t], endTime[t], async[t], depth[t])
    BY <2>1, StagesOk
  <2> QED
    BY <2>2
<1>2. \A t \in Span \ lost' :
        OwnerOk(OwnersIn(frames', t), stage'[t], reuse'[t], endTime'[t], async'[t], depth'[t])
  BY <1>1
<1> QED
  BY <1>2 DEF OwnerInv

\* Owners of a span are on one goroutine, one per frame.
LEMMA OneHome ==
  ASSUME LifeTypeOK, HomeInv, NEW s \in Span, NEW x \in OwnersIn(frames, s),
         NEW y \in OwnersIn(frames, s)
  PROVE  /\ x[1] = y[1] /\ x[1] \in Goroutine /\ x[2] \in 1..Len(frames[x[1]]) /\ x[2] \in Nat
         /\ y[2] \in Nat /\ (x[2] = y[2] => x = y)
<1>1. PICK h \in [Span -> Goroutine] : Homed(h)
  BY DEF HomeInv
<1>2. /\ x \in Goroutine \X Nat /\ x[2] \in DOMAIN frames[x[1]] /\ frames[x[1]][x[2]] = s
      /\ y \in Goroutine \X Nat /\ y[2] \in DOMAIN frames[y[1]] /\ frames[y[1]][y[2]] = s
  BY DEF OwnersIn
<1>3. x[1] = h[s] /\ y[1] = h[s]
  BY <1>1, <1>2 DEF Homed
<1>4. frames[x[1]] \in Seq(Span)
  BY <1>2 DEF LifeTypeOK
<1> QED
  BY <1>2, <1>3, <1>4

\* The owners of a span, in numbers
LEMMA OnlyOwner ==
  ASSUME NEW O, IsFiniteSet(O), NEW x \in O
  PROVE  /\ Cardinality(O) \in Nat \ {0}
         /\ Cardinality(O) = 1 => O = {x}
         /\ IsFiniteSet(O \ {x}) /\ Cardinality(O \ {x}) = Cardinality(O) - 1
<1>1. Cardinality(O) \in Nat /\ Cardinality(O) # 0
  BY FS_CardinalityType, FS_EmptySet
<1>2. Cardinality(O) = 1 => O = {x}
  <2> SUFFICES ASSUME Cardinality(O) = 1 PROVE O = {x}
    OBVIOUS
  <2>1. PICK y : O = {y}
    BY FS_Singleton
  <2> QED
    BY <2>1
<1> QED
  BY <1>1, <1>2, FS_RemoveElement

\* A span gets its first owner.
LEMMA OwnerFirst ==
  ASSUME NEW O, NEW st, NEW rc, NEW et, NEW as, NEW d, NEW x,
         OwnerOk(O, st, rc, et, as, d), st \notin Born
  PROVE  OwnerOk(O \cup {x}, "open", rc, et, as, d)
<1>1. O = {} /\ rc = 0 /\ ~et /\ as = "none"
  BY DEF OwnerOk, CountOk
<1>2. IsFiniteSet({x}) /\ Cardinality({x}) = 1 /\ O \cup {x} = {x}
  BY <1>1, FS_Singleton
<1> QED
  BY <1>1, <1>2 DEF OwnerOk, CountOk, LoneOk, Born, Ended

\* One owner more, in a frame above the ones that are there
LEMMA OwnerMore ==
  ASSUME NEW O, NEW st, NEW rc \in Nat, NEW et, NEW as, NEW d, NEW x,
         OwnerOk(O, st, rc, et, as, d), st \in Born, NestedAsync \/ O # {},
         x \notin O, \A y \in O : y[2] <= x[2],
         d \in Nat, x[2] \in Nat, \A y \in O : y[2] \in Nat
  PROVE  OwnerOk(O \cup {x}, st, IF st \in Ended THEN rc ELSE rc + 1, et, as, d)
<1>1. CountOk(O, st, rc, et, as)
  BY DEF OwnerOk
<1>2. IsFiniteSet(O \cup {x}) /\ Cardinality(O \cup {x}) = Cardinality(O) + 1
  BY <1>1, FS_AddElement DEF CountOk
<1>3. CountOk(O \cup {x}, st, IF st \in Ended THEN rc ELSE rc + 1, et, as)
  BY <1>1, <1>2 DEF CountOk
<1>4. ASSUME LoneOk(O, et, as, d), O # {} PROVE LoneOk(O \cup {x}, et, as, d)
  <2>1. ~et /\ as \notin {"handed", "flagged"}
    BY <1>4 DEF LoneOk
  <2>2. ASSUME as = "prepared"
        PROVE  (\E y \in O \cup {x} : y[2] = d) /\ \A y \in O \cup {x} : d <= y[2]
    <3>1. PICK y \in O : y[2] = d
      BY <1>4, <2>2 DEF LoneOk
    <3>2. \A z \in O : d <= z[2]
      BY <1>4, <2>2 DEF LoneOk
    <3> QED
      BY <3>1, <3>2
  <2> QED
    BY <2>1, <2>2 DEF LoneOk
<1> QED
  BY <1>3, <1>4 DEF OwnerOk

\* What is known of a span some goroutine owns in its frame x, the last
OnTop(O, x, d) ==
  /\ x \in O /\ x[2] \in Nat /\ d \in Nat
  /\ \A y \in O : y[2] \in Nat /\ y[2] <= x[2] /\ (y[2] = x[2] => y = x)

\* The owner in frame x hands the span over if that is where it was prepared.
Handed(as, d, x) == IF as = "prepared" /\ d = x[2] THEN "handed" ELSE as

\* One owner less, and not the last, so that it is not a single owner that
\* prepared the span.
LEMMA OwnerLess ==
  ASSUME NEW O, NEW st, NEW rc \in Nat, NEW et, NEW as, NEW d, NEW x,
         OwnerOk(O, st, rc, et, as, d), OnTop(O, x, d), rc > 0
  PROVE  OwnerOk(O \ {x}, st, rc - 1, et, Handed(as, d, x), d)
<1>1. CountOk(O, st, rc, et, as) /\ st \in Born /\ x \in O /\ IsFiniteSet(O)
  BY DEF OwnerOk, CountOk, OnTop
<1>2. IsFiniteSet(O \ {x}) /\ Cardinality(O \ {x}) = Cardinality(O) - 1 /\ Cardinality(O) \in Nat
  BY <1>1, OnlyOwner
<1>3. CountOk(O \ {x}, st, rc - 1, et, Handed(as, d, x))
  <2>1. ~et => Cardinality(O) = rc + 1
    BY <1>1 DEF CountOk
  <2>2. ~et => Cardinality(O \ {x}) = rc - 1 + 1
    BY <1>2, <2>1
  <2>3. Handed(as, d, x) \in {"timed", "done"} => as \in {"timed", "done"}
    BY DEF Handed
  <2> QED
    BY <1>1, <1>2, <2>2, <2>3 DEF CountOk
<1>4. ASSUME LoneOk(O, et, as, d) PROVE LoneOk(O \ {x}, et, Handed(as, d, x), d)
  <2>1. ~et /\ as \notin {"handed", "flagged"} /\ Cardinality(O) = rc + 1
    BY <1>1, <1>4 DEF LoneOk, CountOk
  <2>2. ASSUME as = "prepared", d = x[2] PROVE FALSE
    <3>1. \A y \in O : d <= y[2]
      BY <1>4, <2>2 DEF LoneOk
    <3>2. \A y \in O : y = x
      BY <3>1, <2>2 DEF OnTop
    <3>3. O = {x}
      BY <3>2, <1>1
    <3>4. Cardinality(O) = 1
      BY <3>3, FS_Singleton
    <3> QED
      BY <3>4, <2>1
  <2>3. ASSUME as = "prepared"
        PROVE  (\E y \in O \ {x} : y[2] = d) /\ \A y \in O \ {x} : d <= y[2]
    <3>1. PICK y \in O : y[2] = d
      BY <1>4, <2>3 DEF LoneOk
    <3>2. \A z \in O : d <= z[2]
      BY <1>4, <2>3 DEF LoneOk
    <3>3. y # x
      BY <3>1, <2>2, <2>3
    <3> QED
      BY <3>1, <3>2, <3>3
  <2>4. Handed(as, d, x) = as
    BY <2>2 DEF Handed
  <2> QED
    BY <2>1, <2>3, <2>4 DEF LoneOk
<1> QED
  BY <1>3, <1>4 DEF OwnerOk

\* An owner of a span that was ended under it: there is none but where nested
\* owners go asynchronous.
LEMMA OwnerLate ==
  ASSUME NEW O, NEW st, NEW rc, NEW et, NEW as, NEW d, NEW x,
         OwnerOk(O, st, rc, et, as, d), OnTop(O, x, d), et
  PROVE  NestedAsync /\ OwnerOk(O \ {x}, st, rc, et, as, d)
<1>1. CountOk(O, st, rc, et, as) /\ NestedAsync /\ x \in O /\ IsFiniteSet(O)
  BY DEF OwnerOk, CountOk, LoneOk, OnTop
<1>2. IsFiniteSet(O \ {x})
  BY <1>1, OnlyOwner
<1> QED
  BY <1>1, <1>2 DEF OwnerOk, CountOk

\* No reuse left: the owner is the only one, and the one that prepared the span
\* if it was prepared.
LEMMA OwnerOnly ==
  ASSUME NEW O, NEW st, NEW rc, NEW et, NEW as, NEW d, NEW x,
         OwnerOk(O, st, rc, et, as, d), OnTop(O, x, d), ~et, rc = 0
  PROVE  /\ O = {x} /\ st \in Born /\ st \notin Ended
         /\ NestedAsync \/ Handed(as, d, x) # "prepared"
<1>1. IsFiniteSet(O) /\ st \in Born /\ st \notin Ended /\ x \in O
  BY DEF OwnerOk, CountOk, OnTop
<1>2. O = {x}
  <2>1. Cardinality(O) = rc + 1
    BY <1>1 DEF OwnerOk, CountOk
  <2>2. Cardinality(O) = 1
    BY <2>1
  <2> QED
    BY <1>1, <2>2, OnlyOwner
<1> QED
  BY <1>1, <1>2 DEF OwnerOk, LoneOk, Handed

\* The last owner is gone.
LEMMA OwnerGone ==
  ASSUME NEW st \in Born, NEW as, NestedAsync \/ as # "prepared", NEW d
  PROVE  OwnerOk({}, st, 0, TRUE, as, d)
BY FS_EmptySet DEF OwnerOk, CountOk, LoneOk

\* An owner goes asynchronous; if nested ones may not, it is the only one.
LEMMA OwnerPrepares ==
  ASSUME NEW O, NEW st, NEW rc, NEW et, NEW as, NEW d, NEW x,
         OwnerOk(O, st, rc, et, as, d), OnTop(O, x, d), NestedAsync \/ rc = 0
  PROVE  OwnerOk(O, st, rc, et, "prepared", x[2])
<1>1. CountOk(O, st, rc, et, "prepared")
  BY DEF OwnerOk, CountOk, OnTop
<1>2. ASSUME LoneOk(O, et, as, d), rc = 0 PROVE LoneOk(O, et, "prepared", x[2])
  <2>1. ~et
    BY <1>2 DEF LoneOk, OnTop
  <2>2. x \in O /\ IsFiniteSet(O) /\ Cardinality(O) = rc + 1
    BY <2>1 DEF OwnerOk, CountOk, OnTop
  <2>3. O = {x}
    <3>1. Cardinality(O) = 1
      BY <1>2, <2>2
    <3> QED
      BY <2>2, <3>1, OnlyOwner
  <2>4. x[2] <= x[2]
    BY DEF OnTop
  <2> QED
    BY <2>1, <2>3, <2>4 DEF LoneOk
<1> QED
  BY <1>1, <1>2 DEF OwnerOk

\* The owner on top of a goroutine's frames
LEMMA TopOwner ==
  ASSUME LifeTypeOK, Fresh, HomeInv, OwnerInv, NEW g \in Goroutine, frames[g] # <<>>,
         NEW s, s = Top(g), NEW x, x = <<g, Len(frames[g])>>
  PROVE  /\ s \in Span /\ OnTop(OwnersIn(frames, s), x, depth[s])
         /\ OwnerOk(OwnersIn(frames, s), stage[s], reuse[s], endTime[s], async[s], depth[s])
         /\ stage[s] \in Born /\ s \notin lost
<1>1. frames[g] \in Seq(Span) /\ Len(frames[g]) \in Nat \ {0}
  BY DEF LifeTypeOK
<1>2. s \in Span /\ x \in OwnersIn(frames, s)
  BY <1>1 DEF Top, OwnersIn
<1>0. s \in Opened /\ s \notin lost
  BY <1>1 DEF Top, Fresh, Opened
<1>3. OwnerOk(OwnersIn(frames, s), stage[s], reuse[s], endTime[s], async[s], depth[s])
  BY <1>2, <1>0 DEF OwnerInv
<1>4. x[1] = g /\ x[2] = Len(frames[g]) /\ x[2] \in Nat /\ depth[s] \in Nat
  BY <1>1, <1>2 DEF LifeTypeOK
<1>5. \A y \in OwnersIn(frames, s) : y[2] \in Nat /\ y[2] <= x[2] /\ (y[2] = x[2] => y = x)
  BY <1>2, <1>4, OneHome
<1> QED
  BY <1>0, <1>2, <1>3, <1>4, <1>5 DEF OnTop, Opened
-----------------------------------------------------------------------------
(* The context of a goroutine goes from frame to frame down to its base.     *)

\* x is the base b, or a span of a frame of f below n.
Reaches(f, b, n, x) == x = b \/ \E j \in 1..(n - 1) : x = Live(f[j])

\* Of a goroutine: its frames f, base b and active span a; p gives the parents.
ChainOk(f, b, a, p) ==
  /\ b[1] # "live"
  /\ \A i \in DOMAIN f : Reaches(f, b, i, p[f[i]])
  /\ Reaches(f, b, Len(f) + 1, a)

\* Of a span a goroutine is busy with, of parent x: it registers, and its parent
\* is still there when it opens, or it ended.
WaitOk(f, b, x, st, et) == et \/ (st \in {"numbered", "loaded"} /\ Reaches(f, b, Len(f) + 1, x))

Chained(g) ==
  /\ ChainOk(frames[g], base[g], active[g], parent)
  /\ busy[g] # NoSpan =>
       WaitOk(frames[g], base[g], parent[busy[g]], stage[busy[g]], endTime[busy[g]])

ChainInv == \A g \in Goroutine : Chained(g)

\* A goroutine is busy with a span that registers or that it has ended.
BusyInv == \A g \in Goroutine :
  busy[g] # NoSpan => endTime[busy[g]] \/ stage[busy[g]] \in {"numbered", "loaded"}

\* A frame more; a frame less leaves the parent of the span that was on top.
LEMMA PushChain ==
  ASSUME NEW f \in Seq(Span), NEW b, NEW a, NEW p, NEW s \in Span,
         ChainOk(f, b, a, p), Reaches(f, b, Len(f) + 1, p[s])
  PROVE  ChainOk(Append(f, s), b, Live(s), p)
<1> DEFINE e == Append(f, s)
<1>1. /\ Len(f) \in Nat /\ DOMAIN f = 1..Len(f) /\ Len(e) = Len(f) + 1
      /\ DOMAIN e = 1..(Len(f) + 1) /\ e[Len(f) + 1] = s
      /\ \A i \in 1..Len(f) : e[i] = f[i]
  OBVIOUS
<1> HIDE DEF e
<1>2. ASSUME NEW i \in DOMAIN e PROVE Reaches(e, b, i, p[e[i]])
  <2>1. Reaches(f, b, i, p[e[i]])
    <3>1. CASE i = Len(f) + 1
      BY <1>1, <3>1
    <3>2. CASE i \in DOMAIN f
      BY <1>1, <3>2 DEF ChainOk
    <3> QED
      BY <1>1, <3>1, <3>2
  <2>2. i \in 1..(Len(f) + 1)
    BY <1>1
  <2>3. \A j \in 1..(i - 1) : e[j] = f[j]
    BY <1>1, <2>2
  <2> QED
    BY <2>1, <2>3 DEF Reaches
<1>3. Reaches(e, b, Len(e) + 1, Live(s))
  <2>1. Len(f) + 1 \in 1..(Len(e) + 1 - 1)
    BY <1>1
  <2> QED
    BY <1>1, <2>1 DEF Reaches
<1> QED
  BY <1>2, <1>3 DEF ChainOk, e

LEMMA PopChain ==
  ASSUME NEW f \in Seq(Span), f # <<>>, NEW b, NEW a, NEW p, ChainOk(f, b, a, p)
  PROVE  ChainOk(SubSeq(f, 1, Len(f) - 1), b, p[f[Len(f)]], p)
<1> DEFINE e == SubSeq(f, 1, Len(f) - 1)
<1>0. Len(f) \in Nat \ {0} /\ DOMAIN f = 1..Len(f)
  OBVIOUS
<1>1. /\ Len(f) \in Nat \ {0} /\ DOMAIN f = 1..Len(f) /\ Len(e) = Len(f) - 1
      /\ DOMAIN e = 1..(Len(f) - 1) /\ \A i \in 1..(Len(f) - 1) : e[i] = f[i]
  BY <1>0
<1> HIDE DEF e
<1>2. ASSUME NEW i \in 1..Len(f) PROVE Reaches(e, b, i, p[f[i]])
  <2>1. Reaches(f, b, i, p[f[i]])
    BY <1>1 DEF ChainOk
  <2>2. \A j \in 1..(i - 1) : e[j] = f[j]
    BY <1>1
  <2> QED
    BY <2>1, <2>2 DEF Reaches
<1>3. \A i \in DOMAIN e : Reaches(e, b, i, p[e[i]])
  BY <1>1, <1>2
<1>4. Len(e) + 1 = Len(f) /\ Len(f) \in 1..Len(f)
  BY <1>1
<1>5. Reaches(e, b, Len(e) + 1, p[f[Len(f)]])
  BY <1>2, <1>4
<1> QED
  BY <1>3, <1>5 DEF ChainOk, e

\* The active span of a goroutine, when live, is in a frame of it, and so is
\* what its own parent reaches.
LEMMA ActiveOwned ==
  ASSUME NEW f \in Seq(Span), NEW b, NEW a, NEW p, NEW s, ChainOk(f, b, a, p),
         a[1] = "live", a[2] = s
  PROVE  a = Live(s) /\ (\E j \in DOMAIN f : f[j] = s) /\ Reaches(f, b, Len(f) + 1, p[s])
<1>1. Len(f) \in Nat /\ DOMAIN f = 1..Len(f)
  OBVIOUS
<1>2. PICK j \in 1..(Len(f) + 1 - 1) : a = Live(f[j])
  BY DEF ChainOk, Reaches
<1>3. f[j] = s /\ a = Live(s) /\ j \in DOMAIN f
  BY <1>1, <1>2 DEF Live
<1>4. Reaches(f, b, j, p[s])
  BY <1>3 DEF ChainOk
<1>5. 1..(j - 1) \subseteq 1..(Len(f) + 1 - 1)
  BY <1>1, <1>3
<1> QED
  BY <1>3, <1>4, <1>5 DEF Reaches

\* A goroutine a step has nothing to do with
LEMMA ChainFrame ==
  ASSUME LifeTypeOK, Fresh, NEW g \in Goroutine, Chained(g),
         UNCHANGED <<frames[g], base[g], active[g]>>,
         \A t \in Alive : parent'[t] = parent[t],
         busy[g]' \in {busy[g], NoSpan},
         \A t \in Span : endTime[t] => endTime'[t],
         busy[g]' # NoSpan /\ stage[busy[g]] \in {"numbered", "loaded"} =>
           stage'[busy[g]] \in {"numbered", "loaded"}
  PROVE  Chained(g)'
<1>1. \A i \in DOMAIN frames[g] : frames[g][i] \in Alive
  BY DEF Fresh, Opened, Alive, Born
<1>2. ChainOk(frames[g], base[g], active[g], parent')
  BY <1>1 DEF Chained, ChainOk
<1>3. ASSUME busy[g]' # NoSpan
      PROVE  WaitOk(frames[g], base[g], parent'[busy[g]], stage'[busy[g]], endTime'[busy[g]])
  <2>1. busy[g] \in Alive /\ busy[g] \in Span
    BY <1>3 DEF Fresh, Alive
  <2>2. WaitOk(frames[g], base[g], parent[busy[g]], stage[busy[g]], endTime[busy[g]])
    BY <1>3 DEF Chained
  <2>3. parent'[busy[g]] = parent[busy[g]] /\ (endTime[busy[g]] => endTime'[busy[g]])
    BY <2>1
  <2> QED
    BY <1>3, <2>2, <2>3 DEF WaitOk
<1> QED
  BY <1>2, <1>3 DEF Chained

\* A context adopted by a goroutine without frames
LEMMA AdoptChain ==
  ASSUME NEW x, x[1] # "live", NEW p
  PROVE  ChainOk(<<>>, x, x, p)
BY DEF ChainOk, Reaches

CountedInv == CtxInv /\ OwnerInv /\ BusyInv /\ (NestedAsync \/ ChainInv)

\* The stages of the spans a step does not register or freeze
LEMMA DeliverStages ==
  ASSUME TypeOK, NEW s \in Span, Deliver(s) \/ DeliverDone(s)
  PROVE  \A t \in Span : SameKind(stage[t], stage'[t]) /\ (stage[t] \notin Ended => stage'[t] = stage[t])
BY DEF Deliver, DeliverDone, SwapRef, CollectSpan, CollectDone, CloseDone, SendTracing, TypeOK,
   SameKind, Ended, Born, spanVars

\* OwnerInv is kept: a Create call adds an owner, an End removes one, and nothing
\* else has to do with owners.
LEMMA OwnerStep ==
  ASSUME CountedInv, [ContextNext]_ctxVars
  PROVE  OwnerInv'
<1>i. TypeOK /\ LifeTypeOK /\ Fresh /\ HomeInv /\ OwnerInv /\ (NestedAsync \/ ChainInv)
  BY DEF CountedInv, CtxInv, IInv
<1>k. \A st : SameKind(st, st)
  BY DEF SameKind
<1>0. ASSUME UNCHANGED <<frames, reuse, endTime, async, depth>>, lost \subseteq lost',
             \A t \in Span : SameKind(stage[t], stage'[t])
      PROVE  OwnerInv'
  <2>1. ASSUME NEW t \in Span \ lost'
        PROVE  OwnerOk(OwnersIn(frames, t), stage'[t], reuse[t], endTime[t], async[t], depth[t])
    BY <1>0, <1>i, StagesOk DEF OwnerInv
  <2> QED
    BY <1>0, <2>1 DEF OwnerInv
<1>1. CASE UNCHANGED ctxVars
  BY <1>1, <1>0, <1>k DEF ctxVars, vars, spanVars, lifeVars, goVars, flagVars
<1>2. ASSUME NEW g \in Goroutine, GoroutineStep(g) PROVE OwnerInv'
  <2>t. frames \in [Goroutine -> Seq(Span)]
    BY <1>i DEF LifeTypeOK
  <2>f. frames[g] \in Seq(Span) /\ Len(frames[g]) \in Nat /\ DOMAIN frames[g] = 1..Len(frames[g])
    BY <1>i DEF LifeTypeOK
  <2>1. ASSUME NEW k \in Kind, CreateReused(g, k) PROVE OwnerInv'
    <3>1. PICK s \in Span : s = active[g][2]
      BY <2>1, <1>i, Refs DEF CreateReused, Reusable, LifeTypeOK
    <3>2. /\ active[g][1] = "live" /\ Push(g, s)
          /\ reuse' = [reuse EXCEPT ![s] = IF stage[s] \in Ended THEN @ ELSE @ + 1]
          /\ stage' = stage /\ endTime' = endTime /\ async' = async /\ depth' = depth
          /\ lost' = lost
      BY <2>1, <3>1 DEF CreateReused, Reusable, vars, spanVars
    <3>3. stage[s] \in Born /\ s \notin lost
      BY <3>1, <3>2, <1>i DEF Fresh, Opened
    <3> DEFINE x == <<g, Len(frames[g]) + 1>>
               O == OwnersIn(frames, s)
    <3>5. frames' = [frames EXCEPT ![g] = Append(frames[g], s)]
      BY <3>2 DEF Push
    <3>6. /\ OwnersIn(frames', s) = O \cup {x} /\ x \notin O
          /\ \A t \in Span \ {s} : OwnersIn(frames', t) = OwnersIn(frames, t)
      <4>1. Pushed(frames, frames', g, s, x)
        BY <2>t, <3>5 DEF Pushed
      <4>2. /\ OwnersIn(frames', s) = OwnersIn(frames, s) \cup {x} /\ x \notin OwnersIn(frames, s)
            /\ \A t \in Span \ {s} : OwnersIn(frames', t) = OwnersIn(frames, t)
        <5> HIDE DEF O, x
        <5> QED
          BY <4>1, PushOwners
      <4> QED
        BY <4>2
    <3>7. NestedAsync \/ O # {}
      <4> SUFFICES ASSUME ChainInv PROVE O # {}
        BY <1>i
      <4>1. PICK j \in DOMAIN frames[g] : frames[g][j] = s
        BY <3>1, <3>2, <2>f, ActiveOwned DEF ChainInv, Chained
      <4>2. <<g, j>> \in O
        BY <4>1, <2>f DEF OwnersIn
      <4> QED
        BY <4>2
    <3>8. \A y \in O : y[2] \in Nat /\ y[2] <= x[2]
      <4> SUFFICES ASSUME NEW y \in O PROVE y[2] \in Nat /\ y[2] <= x[2]
        OBVIOUS
      <4>1. PICK h \in [Span -> Goroutine] : Homed(h)
        BY <1>i DEF HomeInv
      <4>2. y[1] = g /\ y[2] \in DOMAIN frames[g]
        BY <3>1, <3>2, <4>1 DEF OwnersIn, Homed
      <4>3. y[2] \in 1..Len(frames[g]) /\ x[2] = Len(frames[g]) + 1
        BY <4>2, <2>f
      <4> QED
        BY <4>3, <2>f
    <3>9. OwnerOk(O, stage[s], reuse[s], endTime[s], async[s], depth[s])
      BY <3>3, <1>i DEF OwnerInv
    <3>10. x[2] \in Nat /\ depth[s] \in Nat /\ reuse[s] \in Nat
      BY <2>f, <1>i DEF LifeTypeOK
    <3> DEFINE rc == IF stage[s] \in Ended THEN reuse[s] ELSE reuse[s] + 1
    <3>11. OwnerOk(O \cup {x}, stage[s], rc, endTime[s], async[s], depth[s])
      <4> HIDE DEF O, x
      <4> QED
        BY <3>3, <3>6, <3>7, <3>8, <3>9, <3>10, OwnerMore
    <3>12. reuse'[s] = rc /\ \A t \in Span \ {s} : reuse'[t] = reuse[t]
      BY <3>2, <1>i DEF LifeTypeOK
    <3> HIDE DEF rc, O, x
    <3>13. OwnerOk(OwnersIn(frames', s), stage'[s], reuse'[s], endTime'[s], async'[s], depth'[s])
      BY <3>2, <3>6, <3>11, <3>12
    <3>14. \A t \in Span \ {s} :
             /\ OwnersIn(frames', t) = OwnersIn(frames, t) /\ SameKind(stage[t], stage'[t])
             /\ reuse'[t] = reuse[t] /\ endTime'[t] = endTime[t]
             /\ async'[t] = async[t] /\ depth'[t] = depth[t]
      BY <3>2, <3>6, <3>12, <1>k
    <3> QED
      BY <3>2, <3>13, <3>14, <1>i, OwnerMoves
  \* A span that was not born opens, with one owner.
  <2>o. ASSUME NEW s \in Span, stage[s] \notin Born, stage'[s] = "open", Push(g, s),
               \A t \in Span \ {s} : stage'[t] = stage[t],
               UNCHANGED <<reuse, endTime, async, depth, lost>>
        PROVE  OwnerInv'
    <3> DEFINE x == <<g, Len(frames[g]) + 1>>
    <3>1. frames' = [frames EXCEPT ![g] = Append(frames[g], s)]
      BY <2>o DEF Push
    <3>2. /\ OwnersIn(frames', s) = OwnersIn(frames, s) \cup {x}
          /\ \A t \in Span \ {s} : OwnersIn(frames', t) = OwnersIn(frames, t)
      <4>1. Pushed(frames, frames', g, s, x)
        BY <2>t, <3>1 DEF Pushed
      <4> QED
        BY <4>1, PushOwners
    <3>3. OwnerOk(OwnersIn(frames, s), stage[s], reuse[s], endTime[s], async[s], depth[s])
      BY <2>o, <1>i DEF OwnerInv, Fresh
    <3>4. OwnerOk(OwnersIn(frames, s) \cup {x}, "open", reuse[s], endTime[s], async[s], depth[s])
      BY <2>o, <3>3, OwnerFirst
    <3>5. OwnerOk(OwnersIn(frames', s), stage'[s], reuse'[s], endTime'[s], async'[s], depth'[s])
      BY <2>o, <3>2, <3>4
    <3>6. \A t \in Span \ {s} :
            /\ OwnersIn(frames', t) = OwnersIn(frames, t) /\ SameKind(stage[t], stage'[t])
            /\ reuse'[t] = reuse[t] /\ endTime'[t] = endTime[t]
            /\ async'[t] = async[t] /\ depth'[t] = depth[t]
      BY <2>o, <3>2, <1>k
    <3> QED
      BY <2>o, <3>5, <3>6, <1>i, OwnerMoves
  \* One that opens and is lost
  <2>l. ASSUME NEW s \in Span, \A t \in Span \ {s} : stage'[t] = stage[t],
               UNCHANGED <<frames, reuse, endTime, async, depth>>, lost' = lost \cup {s}
        PROVE  OwnerInv'
    <3>1. \A t \in Span \ {s} : SameKind(stage[t], stage'[t])
      BY <2>l, <1>k
    <3> QED
      BY <2>l, <3>1, <1>i, OwnerMoves
  <2>2. ASSUME NEW k \in Kind, NEW s \in Span, CreateSpan(g, k, s) PROVE OwnerInv'
    <3>1. UNCHANGED <<reuse, endTime, async, depth>>
      BY <2>2 DEF CreateSpan
    <3>2. CASE active[g] = Nil
      <4>1. /\ stage[s] \notin Born /\ stage'[s] = "open"
            /\ \A t \in Span \ {s} : stage'[t] = stage[t]
            /\ \/ Push(g, s) /\ lost' = lost
               \/ frames' = frames /\ lost' = lost \cup {s}
        BY <2>2, <3>2, <1>i DEF CreateSpan, Return, ReturnError, NewRoot, BecomeRoot, TypeOK, Born
      <4> QED
        BY <3>1, <4>1, <2>o, <2>l
    <3>3. CASE active[g] # Nil
      <4>1. frames' = frames /\ lost' = lost /\ \A t \in Span : SameKind(stage[t], stage'[t])
        BY <2>2, <3>3, <1>i DEF CreateSpan, CopyContext, TypeOK, SameKind, Born
      <4> QED
        BY <3>1, <4>1, <1>0
    <3> QED
      BY <3>2, <3>3
  <2>3. ASSUME NEW s \in Span, busy[g] = s, RegisterSpan(g) PROVE OwnerInv'
    <3>1. Register(s) /\ UNCHANGED <<reuse, endTime, async, depth>>
      BY <2>3 DEF RegisterSpan
    <3>2. /\ stage[s] \notin Born /\ stage'[s] \in {"numbered", "loaded", "open"}
          /\ \A t \in Span \ {s} : stage'[t] = stage[t]
      BY <3>1, <1>i, RegisterStage
    <3>3. CASE stage'[s] = "open"
      BY <2>3, <2>o, <2>l, <3>1, <3>2, <3>3 DEF RegisterSpan, Return, ReturnError
    <3>4. CASE stage'[s] # "open"
      <4>1. frames' = frames /\ lost' = lost
        BY <2>3, <3>4 DEF RegisterSpan
      <4>2. \A t \in Span : SameKind(stage[t], stage'[t])
        BY <3>2, <3>4 DEF SameKind, Born
      <4> QED
        BY <3>1, <4>1, <4>2, <1>0
    <3> QED
      BY <3>3, <3>4
  <2>4. ASSUME End(g) PROVE OwnerInv'
    <3>0. frames[g] # <<>>
      BY <2>4 DEF End, EndNested, EndAgain, EndAsync, EndLast
    <3>1. PICK s \in Span : s = Top(g)
      BY <3>0, <1>i, Frames
    <3> DEFINE x == <<g, Len(frames[g])>>
               O == OwnersIn(frames, s)
    <3>2. frames[g] # <<>> /\ Pop(g) /\ lost' = lost
      BY <2>4 DEF End, EndNested, EndAgain, EndAsync, EndLast, flagVars
    <3>3. /\ s \in Span /\ OnTop(O, x, depth[s])
          /\ OwnerOk(O, stage[s], reuse[s], endTime[s], async[s], depth[s])
          /\ stage[s] \in Born
      BY <3>1, <3>2, <1>i, TopOwner
    <3>4. frames' = [frames EXCEPT ![g] = SubSeq(frames[g], 1, Len(frames[g]) - 1)]
      BY <3>2 DEF Pop
    <3>5. /\ OwnersIn(frames', s) = O \ {x}
          /\ \A t \in Span \ {s} : OwnersIn(frames', t) = OwnersIn(frames, t)
      <4>1. Popped(frames, frames', g, s, x)
        BY <2>t, <3>1, <3>2, <3>4 DEF Top, Popped
      <4>2. /\ OwnersIn(frames', s) = OwnersIn(frames, s) \ {x}
            /\ \A t \in Span \ {s} : OwnersIn(frames', t) = OwnersIn(frames, t)
        <5> HIDE DEF O, x
        <5> QED
          BY <4>1, PopOwners
      <4> QED
        BY <4>2
    <3>6. x[2] = Len(frames[g]) /\ reuse[s] \in Nat
      BY <3>3, <1>i DEF LifeTypeOK
    <3> HIDE DEF O, x
    <3>h. ASSUME HandOver(s, g)
          PROVE  async'[s] = Handed(async[s], depth[s], x) /\ \A t \in Span \ {s} : async'[t] = async[t]
      BY <3>h, <3>6, <1>i DEF HandOver, Handed, LifeTypeOK
    <3>7. CASE EndNested(g)
      <4>1. /\ reuse[s] > 0 /\ reuse' = [reuse EXCEPT ![s] = @ - 1] /\ HandOver(s, g)
            /\ stage' = stage /\ endTime' = endTime /\ depth' = depth
        BY <3>1, <3>7 DEF EndNested, vars, spanVars
      <4>2. OwnerOk(O \ {x}, stage[s], reuse[s] - 1, endTime[s], Handed(async[s], depth[s], x), depth[s])
        BY <3>3, <3>6, <4>1, OwnerLess
      <4>3. reuse'[s] = reuse[s] - 1 /\ \A t \in Span \ {s} : reuse'[t] = reuse[t]
        BY <3>6, <4>1, <1>i DEF LifeTypeOK
      <4>4. OwnerOk(OwnersIn(frames', s), stage'[s], reuse'[s], endTime'[s], async'[s], depth'[s])
        BY <3>5, <3>h, <4>1, <4>2, <4>3
      <4>5. \A t \in Span \ {s} :
              /\ OwnersIn(frames', t) = OwnersIn(frames, t) /\ SameKind(stage[t], stage'[t])
              /\ reuse'[t] = reuse[t] /\ endTime'[t] = endTime[t]
              /\ async'[t] = async[t] /\ depth'[t] = depth[t]
        BY <3>5, <3>h, <4>1, <4>3, <1>k
      <4> QED
        BY <3>2, <4>4, <4>5, <1>i, OwnerMoves
    <3>8. CASE EndAgain(g)
      <4>1. endTime[s] /\ UNCHANGED <<stage, reuse, endTime, async, depth>>
        BY <3>1, <3>8 DEF EndAgain, vars, spanVars, flagVars
      <4>2. OwnerOk(O \ {x}, stage[s], reuse[s], endTime[s], async[s], depth[s])
        BY <3>3, <4>1, OwnerLate
      <4>3. OwnerOk(OwnersIn(frames', s), stage'[s], reuse'[s], endTime'[s], async'[s], depth'[s])
        BY <3>5, <4>1, <4>2
      <4>4. \A t \in Span \ {s} :
              /\ OwnersIn(frames', t) = OwnersIn(frames, t) /\ SameKind(stage[t], stage'[t])
              /\ reuse'[t] = reuse[t] /\ endTime'[t] = endTime[t]
              /\ async'[t] = async[t] /\ depth'[t] = depth[t]
        BY <3>5, <4>1, <1>k
      <4> QED
        BY <3>2, <4>3, <4>4, <1>i, OwnerMoves
    \* The last owner: O is {x}
    <3>l. ASSUME reuse[s] = 0, ~endTime[s], reuse' = reuse, depth' = depth,
                 endTime' = [endTime EXCEPT ![s] = TRUE],
                 stage'[s] \in Born, NestedAsync \/ async'[s] # "prepared",
                 \A t \in Span \ {s} : stage'[t] = stage[t] /\ async'[t] = async[t]
          PROVE  OwnerInv'
      <4>1. OwnerOk(O, stage[s], reuse[s], endTime[s], async[s], depth[s])
        BY <3>3
      <4>2. O = {x}
        BY <3>3, <3>l, <4>1, OwnerOnly
      <4>3. OwnersIn(frames', s) = {}
        BY <3>5, <4>2
      <4>4. endTime'[s] = TRUE /\ reuse'[s] = 0 /\ \A t \in Span \ {s} : endTime'[t] = endTime[t]
        BY <3>3, <3>l, <1>i DEF LifeTypeOK
      <4>5. OwnerOk({}, stage'[s], 0, TRUE, async'[s], depth'[s])
        BY <3>l, OwnerGone
      <4>6. OwnerOk(OwnersIn(frames', s), stage'[s], reuse'[s], endTime'[s], async'[s], depth'[s])
        BY <4>3, <4>4, <4>5
      <4>7. \A t \in Span \ {s} :
              /\ OwnersIn(frames', t) = OwnersIn(frames, t) /\ SameKind(stage[t], stage'[t])
              /\ reuse'[t] = reuse[t] /\ endTime'[t] = endTime[t]
              /\ async'[t] = async[t] /\ depth'[t] = depth[t]
        BY <3>5, <3>l, <4>4, <1>k
      <4> QED
        BY <3>2, <3>3, <4>6, <4>7, <1>i, OwnerMoves
    <3>9. CASE EndAsync(g)
      <4>1. /\ reuse[s] = 0 /\ ~endTime[s] /\ reuse' = reuse /\ depth' = depth
            /\ endTime' = [endTime EXCEPT ![s] = TRUE] /\ stage' = stage /\ HandOver(s, g)
        BY <3>1, <3>9 DEF EndAsync, vars, spanVars
      <4>2. OwnerOk(O, stage[s], reuse[s], endTime[s], async[s], depth[s])
        BY <3>3
      <4>3. NestedAsync \/ Handed(async[s], depth[s], x) # "prepared"
        BY <3>3, <4>1, <4>2, OwnerOnly
      <4> QED
        BY <3>3, <3>h, <3>l, <4>1, <4>3
    <3>10. CASE EndLast(g)
      <4>1. /\ reuse[s] = 0 /\ ~endTime[s] /\ async[s] = "none" /\ reuse' = reuse /\ depth' = depth
            /\ endTime' = [endTime EXCEPT ![s] = TRUE] /\ Freeze(s) /\ async' = async
        BY <3>1, <3>10 DEF EndLast
      <4>2. stage'[s] \in Born /\ \A t \in Span \ {s} : stage'[t] = stage[t]
        BY <3>3, <4>1, <1>i DEF Freeze, TypeOK, Born
      <4> QED
        BY <3>l, <4>1, <4>2
    <3> QED
      BY <2>4, <3>7, <3>8, <3>9, <3>10 DEF End
  <2>5. ASSUME PrepareAsync(g) PROVE OwnerInv'
    <3>1. PICK s : s = Top(g)
      OBVIOUS
    <3> DEFINE x == <<g, Len(frames[g])>>
               O == OwnersIn(frames, s)
    <3>2. /\ frames[g] # <<>>
          /\ NestedAsync \/ reuse[s] = 0
          /\ async' = [async EXCEPT ![s] = "prepared"]
          /\ depth' = [depth EXCEPT ![s] = Len(frames[g])]
          /\ frames' = frames /\ stage' = stage /\ endTime' = endTime /\ reuse' = reuse
          /\ lost' = lost
      BY <2>5, <3>1 DEF PrepareAsync, goVars, vars, spanVars
    <3>3. /\ s \in Span /\ OnTop(O, x, depth[s])
          /\ OwnerOk(O, stage[s], reuse[s], endTime[s], async[s], depth[s])
      BY <3>1, <3>2, <1>i, TopOwner
    <3>6. x[2] = Len(frames[g])
      OBVIOUS
    <3>7. OwnerOk(O, stage[s], reuse[s], endTime[s], "prepared", x[2])
      <4> HIDE DEF O, x
      <4> QED
        BY <3>2, <3>3, OwnerPrepares
    <3>8. /\ async'[s] = "prepared" /\ depth'[s] = x[2]
          /\ \A t \in Span \ {s} : async'[t] = async[t] /\ depth'[t] = depth[t]
      BY <3>2, <3>3, <3>6, <1>i DEF LifeTypeOK
    <3>9. OwnerOk(OwnersIn(frames', s), stage'[s], reuse'[s], endTime'[s], async'[s], depth'[s])
      BY <3>2, <3>7, <3>8
    <3>10. \A t \in Span \ {s} :
             /\ OwnersIn(frames', t) = OwnersIn(frames, t) /\ SameKind(stage[t], stage'[t])
             /\ reuse'[t] = reuse[t] /\ endTime'[t] = endTime[t]
             /\ async'[t] = async[t] /\ depth'[t] = depth[t]
      BY <3>2, <3>8, <1>k
    <3> QED
      BY <3>2, <3>3, <3>9, <3>10, <1>i, OwnerMoves
  <2>6. ASSUME \/ CaptureContext(g) \/ ContinueContext(g) \/ CleanContext(g)
               \/ \E h \in Goroutine : StartGoroutine(g, h)
        PROVE  OwnerInv'
    <3>1. UNCHANGED <<frames, reuse, endTime, async, depth, lost>> /\ stage' = stage
      BY <2>6 DEF CaptureContext, ContinueContext, CleanContext, StartGoroutine, flagVars, vars, spanVars
    <3> QED
      BY <3>1, <1>0, <1>k
  <2> QED
    BY <1>2, <2>1, <2>2, <2>3, <2>4, <2>5, <2>6 DEF GoroutineStep
<1>3. ASSUME NEW s \in Span, AsyncFinish(s) PROVE OwnerInv'
  <2>1. /\ frames' = frames /\ reuse' = reuse /\ depth' = depth /\ lost' = lost
        /\ \/ /\ async[s] = "handed" /\ async' = [async EXCEPT ![s] = "flagged"]
              /\ endTime' = endTime /\ stage' = stage
           \/ /\ async[s] = "flagged" /\ async' = [async EXCEPT ![s] = "timed"]
              /\ endTime' = [endTime EXCEPT ![s] = TRUE] /\ stage' = stage
           \/ /\ async[s] = "timed" /\ async' = [async EXCEPT ![s] = "done"]
              /\ endTime' = endTime /\ stage[s] = "open" /\ stage' = [stage EXCEPT ![s] = "frozen"]
    BY <1>3 DEF AsyncFinish, AsyncFlag, AsyncEndTime, AsyncFreeze, Freeze, goVars, vars, spanVars
  <2>2. s \notin lost =>
          OwnerOk(OwnersIn(frames, s), stage[s], reuse[s], endTime[s], async[s], depth[s])
    BY <1>i DEF OwnerInv
  <2>3. \A t \in Span \ {s} :
          endTime'[t] = endTime[t] /\ async'[t] = async[t] /\ stage'[t] = stage[t]
    BY <2>1, <1>i DEF LifeTypeOK, TypeOK
  <2>4. \/ async[s] = "handed" /\ async'[s] = "flagged" /\ endTime'[s] = endTime[s] /\ stage'[s] = stage[s]
        \/ async[s] = "flagged" /\ async'[s] = "timed" /\ endTime'[s] = TRUE /\ stage'[s] = stage[s]
        \/ /\ async[s] = "timed" /\ async'[s] = "done" /\ endTime'[s] = endTime[s]
           /\ stage[s] = "open" /\ stage'[s] = "frozen"
    BY <2>1, <1>i DEF LifeTypeOK, TypeOK
  <2>5. s \notin lost =>
          OwnerOk(OwnersIn(frames, s), stage'[s], reuse[s], endTime'[s], async'[s], depth[s])
    BY <2>2, <2>4 DEF OwnerOk, CountOk, LoneOk, Born, Ended
  <2>6. s \notin lost' =>
          OwnerOk(OwnersIn(frames', s), stage'[s], reuse'[s], endTime'[s], async'[s], depth'[s])
    BY <2>1, <2>5
  <2>7. \A t \in Span \ {s} :
          /\ OwnersIn(frames', t) = OwnersIn(frames, t) /\ SameKind(stage[t], stage'[t])
          /\ reuse'[t] = reuse[t] /\ endTime'[t] = endTime[t]
          /\ async'[t] = async[t] /\ depth'[t] = depth[t]
    BY <2>1, <2>3, <1>k
  <2> QED
    BY <2>1, <2>6, <2>7, <1>i, OwnerMoves
<1>4. ASSUME NEW s \in Span, Deliver(s) \/ DeliverDone(s) PROVE OwnerInv'
  <2>1. UNCHANGED <<frames, reuse, endTime, async, depth, lost>>
    BY <1>4 DEF Deliver, DeliverDone, lifeVars, goVars, flagVars
  <2> QED
    BY <1>4, <1>i, <1>0, <2>1, DeliverStages
<1> QED
  BY <1>1, <1>2, <1>3, <1>4 DEF ContextNext

\* ChainInv is kept: contexts are pushed and popped with the frames.
LEMMA ChainStep ==
  ASSUME CountedInv, ~NestedAsync, [ContextNext]_ctxVars
  PROVE  ChainInv'
<1>i. TypeOK /\ LifeTypeOK /\ Fresh /\ HomeInv /\ OwnerInv /\ ChainInv
  BY DEF CountedInv, CtxInv, IInv
<1>c. \A h \in Goroutine : Chained(h)
  BY <1>i DEF ChainInv
<1>1. CASE UNCHANGED ctxVars
  BY <1>1, <1>i DEF ctxVars, vars, spanVars, lifeVars, goVars, flagVars, ChainInv, Chained
\* All goroutines but g are left alone, or all.
<1>o. ASSUME NEW h \in Goroutine, UNCHANGED <<frames[h], base[h], active[h]>>,
             busy[h]' \in {busy[h], NoSpan},
             \A t \in Alive : parent'[t] = parent[t],
             \A t \in Span : endTime[t] => endTime'[t],
             busy[h]' # NoSpan /\ stage[busy[h]] \in {"numbered", "loaded"} =>
               stage'[busy[h]] \in {"numbered", "loaded"}
      PROVE  Chained(h)'
  BY <1>o, <1>i, <1>c, ChainFrame
<1>2. ASSUME NEW g \in Goroutine, GoroutineStep(g) PROVE ChainInv'
  <2>t. frames[g] \in Seq(Span) /\ frames \in [Goroutine -> Seq(Span)]
    BY <1>i DEF LifeTypeOK
  <2>c. ChainOk(frames[g], base[g], active[g], parent)
    BY <1>c DEF Chained
  <2>g. ASSUME Chained(g)', \A h \in Goroutine \ {g} : Chained(h)' PROVE ChainInv'
    BY <2>g DEF ChainInv
  \* A step of g that starts with busy[g] = NoSpan and ends so, or with a span that ended
  <2>r. ASSUME ChainOk(frames'[g], base'[g], active'[g], parent'),
               busy'[g] # NoSpan => endTime'[busy'[g]],
               \A h \in Goroutine \ {g} : Chained(h)'
        PROVE  ChainInv'
    BY <2>r, <2>g DEF Chained, WaitOk
  <2>1. ASSUME NEW k \in Kind, CreateReused(g, k) PROVE ChainInv'
    <3>1. PICK s \in Span : s = active[g][2]
      BY <2>1, <1>i, Refs DEF CreateReused, Reusable, LifeTypeOK
    <3>2. /\ active[g][1] = "live" /\ frames' = [frames EXCEPT ![g] = Append(frames[g], s)]
          /\ UNCHANGED <<stage, active, base, busy, parent, endTime>> /\ busy[g] = NoSpan
      BY <2>1, <3>1 DEF CreateReused, Reusable, Ready, Push, vars, spanVars
    <3>3. active[g] = Live(s) /\ Reaches(frames[g], base[g], Len(frames[g]) + 1, parent[s])
      BY <3>1, <3>2, <2>t, <2>c, ActiveOwned
    <3>4. ChainOk(Append(frames[g], s), base[g], Live(s), parent)
      BY <3>3, <2>t, <2>c, PushChain
    <3>5. frames'[g] = Append(frames[g], s) /\ \A h \in Goroutine \ {g} : frames'[h] = frames[h]
      BY <3>2, <2>t
    <3>6. ASSUME NEW h \in Goroutine \ {g} PROVE Chained(h)'
      BY <3>2, <3>5, <1>o
    <3> QED
      BY <3>2, <3>3, <3>4, <3>5, <3>6, <2>r
  <2>2. ASSUME NEW k \in Kind, NEW s \in Span, CreateSpan(g, k, s) PROVE ChainInv'
    <3>1. /\ parent' = [parent EXCEPT ![s] = active[g]]
          /\ base' = base /\ endTime' = endTime /\ busy[g] = NoSpan
          /\ stage[s] = "unborn" /\ \A t \in Span \ {s} : stage'[t] = stage[t]
      BY <2>2, <1>i DEF CreateSpan, Ready, NewRoot, BecomeRoot, CopyContext, TypeOK
    <3>2. s \notin Alive
      BY <3>1 DEF Alive
    <3>3. parent'[s] = active[g] /\ \A t \in Alive : parent'[t] = parent[t]
      BY <3>1, <3>2, <1>i DEF LifeTypeOK, Alive
    <3>4. \A i \in DOMAIN frames[g] : frames[g][i] \in Alive
      BY <1>i DEF Fresh, Opened, Alive, Born
    <3>5. ChainOk(frames[g], base[g], active[g], parent')
      BY <2>c, <3>3, <3>4 DEF ChainOk
    <3>6. Reaches(frames[g], base[g], Len(frames[g]) + 1, parent'[s])
      BY <3>3, <2>c DEF ChainOk
    <3>7. ASSUME NEW h \in Goroutine \ {g}, UNCHANGED <<frames[h], active[h], busy[h]>>
          PROVE  Chained(h)'
      <4>1. busy[h] # NoSpan => busy[h] \in Span /\ busy[h] # s
        BY <3>2, <1>i DEF Fresh, Alive
      <4> QED
        BY <3>1, <3>3, <3>7, <4>1, <1>o
    <3>8. CASE active[g] = Nil
      <4>0. busy' = busy /\ (Return(g, s) \/ ReturnError(g, s))
        BY <2>2, <3>8 DEF CreateSpan
      <4>1. \/ /\ frames' = [frames EXCEPT ![g] = Append(frames[g], s)]
               /\ active' = [active EXCEPT ![g] = Live(s)]
            \/ frames' = frames /\ active' = active
        BY <4>0 DEF Return, ReturnError, Push
      <4>a. ChainOk(Append(frames[g], s), base[g], Live(s), parent')
        BY <2>t, <3>5, <3>6, PushChain
      <4>3. /\ \/ frames'[g] = Append(frames[g], s) /\ active'[g] = Live(s)
               \/ frames'[g] = frames[g] /\ active'[g] = active[g]
            /\ \A h \in Goroutine \ {g} : frames'[h] = frames[h] /\ active'[h] = active[h]
        BY <4>1, <2>t, <1>i DEF LifeTypeOK
      <4>2. ChainOk(frames'[g], base[g], active'[g], parent')
        BY <4>3, <4>a, <3>5
      <4>4. \A h \in Goroutine \ {g} : Chained(h)'
        BY <4>0, <4>3, <3>7
      <4> QED
        BY <3>1, <4>0, <4>2, <4>4, <2>r
    <3>9. CASE active[g] # Nil
      <4>1. /\ frames' = frames /\ active' = active /\ busy' = [busy EXCEPT ![g] = s]
            /\ stage'[s] = "numbered"
        BY <2>2, <3>9, <1>i DEF CreateSpan, CopyContext, TypeOK
      <4>2. busy'[g] = s /\ \A h \in Goroutine \ {g} : busy'[h] = busy[h]
        BY <4>1, <1>i DEF LifeTypeOK
      <4>3. WaitOk(frames[g], base[g], parent'[s], stage'[s], endTime'[s])
        BY <3>6, <4>1 DEF WaitOk
      <4>4. Chained(g)'
        BY <3>1, <3>5, <4>1, <4>2, <4>3 DEF Chained
      <4>5. \A h \in Goroutine \ {g} : Chained(h)'
        BY <4>1, <4>2, <3>7
      <4> QED
        BY <4>4, <4>5, <2>g
    <3> QED
      BY <3>8, <3>9
  <2>3. ASSUME NEW s \in Span, busy[g] = s, RegisterSpan(g) PROVE ChainInv'
    <3>1. Register(s) /\ UNCHANGED <<base, parent, endTime>>
      BY <2>3 DEF RegisterSpan
    <3>2. /\ stage[s] \notin Born /\ stage'[s] \in {"numbered", "loaded", "open"}
          /\ \A t \in Span \ {s} : stage'[t] = stage[t]
      BY <3>1, <1>i, RegisterStage
    <3>3. ~endTime[s] /\ s # NoSpan
      <4>1. s \notin lost
        BY <3>2, <1>i DEF Fresh
      <4> QED
        BY <3>2, <4>1, <1>i, SpanAssumption DEF OwnerInv, OwnerOk, CountOk
    <3>4. Reaches(frames[g], base[g], Len(frames[g]) + 1, parent[s])
      BY <2>3, <3>3, <1>c DEF Chained, WaitOk
    \* s is the busy span of no other goroutine
    <3>5. ASSUME NEW h \in Goroutine \ {g} PROVE busy[h] # s
      BY <2>3, <3>3, <1>i DEF HomeInv, Homed
    <3>6. ASSUME NEW h \in Goroutine \ {g}, UNCHANGED <<frames[h], active[h], busy[h]>>
          PROVE  Chained(h)'
      <4>1. busy[h] # s /\ busy[h] \in Span \cup {NoSpan}
        BY <3>5, <1>i DEF LifeTypeOK
      <4> QED
        BY <3>1, <3>2, <3>6, <4>1, <1>o
    <3>7. CASE stage'[s] = "open"
      <4>0. busy' = [busy EXCEPT ![g] = NoSpan] /\ (Return(g, s) \/ ReturnError(g, s))
        BY <2>3, <3>7 DEF RegisterSpan
      <4>1. \/ /\ frames' = [frames EXCEPT ![g] = Append(frames[g], s)]
               /\ active' = [active EXCEPT ![g] = Live(s)]
            \/ frames' = frames /\ active' = active
        BY <4>0 DEF Return, ReturnError, Push
      <4>a. ChainOk(Append(frames[g], s), base[g], Live(s), parent)
        BY <2>t, <2>c, <3>4, PushChain
      <4>3. /\ \/ frames'[g] = Append(frames[g], s) /\ active'[g] = Live(s)
               \/ frames'[g] = frames[g] /\ active'[g] = active[g]
            /\ busy'[g] = NoSpan
            /\ \A h \in Goroutine \ {g} :
                 frames'[h] = frames[h] /\ active'[h] = active[h] /\ busy'[h] = busy[h]
        BY <4>0, <4>1, <2>t, <1>i DEF LifeTypeOK
      <4>2. ChainOk(frames'[g], base[g], active'[g], parent)
        BY <4>3, <4>a, <2>c
      <4>4. \A h \in Goroutine \ {g} : Chained(h)'
        BY <4>3, <3>6
      <4> QED
        BY <3>1, <4>2, <4>3, <4>4, <2>r
    <3>8. CASE stage'[s] # "open"
      <4>1. UNCHANGED <<frames, active, busy>>
        BY <2>3, <3>8 DEF RegisterSpan
      <4>2. Chained(g)'
        BY <2>3, <3>1, <3>2, <3>8, <4>1, <1>o
      <4>3. \A h \in Goroutine \ {g} : Chained(h)'
        BY <4>1, <3>6
      <4> QED
        BY <4>2, <4>3, <2>g
    <3> QED
      BY <3>7, <3>8
  <2>4. ASSUME End(g) PROVE ChainInv'
    <3>0. frames[g] # <<>>
      BY <2>4 DEF End, EndNested, EndAgain, EndAsync, EndLast
    <3>1. PICK s \in Span : s = Top(g)
      BY <3>0, <1>i, Frames
    <3>2. ~endTime[s]
      <4>1. PICK x : x = <<g, Len(frames[g])>>
        OBVIOUS
      <4>2. /\ OnTop(OwnersIn(frames, s), x, depth[s])
            /\ OwnerOk(OwnersIn(frames, s), stage[s], reuse[s], endTime[s], async[s], depth[s])
        BY <3>0, <3>1, <4>1, <1>i, TopOwner
      <4> QED
        BY <4>2 DEF OwnerOk, LoneOk, OnTop
    <3>3. /\ frames' = [frames EXCEPT ![g] = SubSeq(frames[g], 1, Len(frames[g]) - 1)]
          /\ active' = [active EXCEPT ![g] = parent[s]]
          /\ parent' = parent /\ base' = base /\ busy[g] = NoSpan
      BY <2>4, <3>1, <3>2 DEF End, EndNested, EndAgain, EndAsync, EndLast, Pop, Ready
    <3>4. \/ /\ endTime' = endTime
             /\ busy' = busy
          \/ /\ endTime' = [endTime EXCEPT ![s] = TRUE]
             /\ busy' \in {busy, [busy EXCEPT ![g] = s], [busy EXCEPT ![g] = NoSpan]}
      BY <2>4, <3>1, <3>2 DEF End, EndNested, EndAgain, EndAsync, EndLast
    <3>5. /\ \A t \in Span : endTime[t] => endTime'[t]
          /\ \A h \in Goroutine \ {g} : busy'[h] = busy[h]
          /\ busy'[g] # NoSpan => endTime'[busy'[g]]
      <4>1. busy \in [Goroutine -> Span \cup {NoSpan}] /\ endTime \in [Span -> BOOLEAN]
        BY <1>i DEF LifeTypeOK
      <4>2. CASE endTime' = endTime /\ busy' = busy
        BY <3>3, <4>2
      <4>3. CASE /\ endTime' = [endTime EXCEPT ![s] = TRUE]
                 /\ busy' \in {busy, [busy EXCEPT ![g] = s], [busy EXCEPT ![g] = NoSpan]}
        <5>1. endTime'[s] /\ \A t \in Span : endTime[t] => endTime'[t]
          BY <4>1, <4>3
        <5>2. busy'[g] \in {NoSpan, s} /\ \A h \in Goroutine \ {g} : busy'[h] = busy[h]
          BY <3>3, <4>1, <4>3
        <5> QED
          BY <5>1, <5>2
      <4> QED
        BY <3>4, <4>2, <4>3
    <3>6. \A t \in Span : stage[t] \in {"numbered", "loaded"} => stage'[t] = stage[t]
      BY <2>4, <3>1, <1>i DEF End, EndNested, EndAgain, EndAsync, EndLast, Freeze, vars, spanVars, TypeOK
    <3>7. ChainOk(SubSeq(frames[g], 1, Len(frames[g]) - 1), base[g], parent[s], parent)
      BY <3>0, <3>1, <2>t, <2>c, PopChain DEF Top
    <3>8. /\ frames'[g] = SubSeq(frames[g], 1, Len(frames[g]) - 1) /\ active'[g] = parent[s]
          /\ \A h \in Goroutine \ {g} : frames'[h] = frames[h] /\ active'[h] = active[h]
      BY <3>3, <2>t, <1>i DEF LifeTypeOK
    <3>9. ASSUME NEW h \in Goroutine \ {g} PROVE Chained(h)'
      <4>1. busy[h] \in Span \cup {NoSpan}
        BY <1>i DEF LifeTypeOK
      <4> QED
        BY <3>3, <3>5, <3>6, <3>8, <4>1, <1>o
    <3> QED
      BY <3>3, <3>5, <3>7, <3>8, <3>9, <2>r
  <2>5. ASSUME PrepareAsync(g) \/ CaptureContext(g) PROVE ChainInv'
    <3>1. UNCHANGED <<frames, base, active, busy, parent, endTime>> /\ stage' = stage
      BY <2>5 DEF PrepareAsync, CaptureContext, goVars, flagVars, vars, spanVars
    <3> QED
      BY <3>1, <1>c DEF ChainInv, Chained
  \* An idle goroutine adopts a context that is not live.
  <2>a. ASSUME NEW h \in Goroutine, Idle(h), NEW x, x[1] # "live", Adopt(h, x),
               UNCHANGED <<frames, busy, parent, endTime>>, stage' = stage
        PROVE  ChainInv'
    <3>1. /\ frames[h] = <<>> /\ busy[h] = NoSpan /\ active'[h] = x /\ base'[h] = x
          /\ \A j \in Goroutine \ {h} : active'[j] = active[j] /\ base'[j] = base[j]
      BY <2>a, <1>i DEF Idle, Adopt, LifeTypeOK
    <3>2. ChainOk(<<>>, x, x, parent)
      BY <2>a, AdoptChain
    <3>3. Chained(h)'
      BY <2>a, <3>1, <3>2 DEF Chained
    <3>4. ASSUME NEW j \in Goroutine \ {h} PROVE Chained(j)'
      BY <2>a, <3>1, <1>o
    <3> QED
      BY <3>3, <3>4 DEF ChainInv
  <2>6. ASSUME ContinueContext(g) \/ CleanContext(g) PROVE ChainInv'
    <3>1. Unshared /\ Nil[1] # "live"
      BY <1>i DEF HomeInv, Nil
    <3>2. PICK x : x[1] # "live" /\ Adopt(g, x)
      BY <2>6, <3>1 DEF ContinueContext, CleanContext, Unshared
    <3>3. Idle(g) /\ UNCHANGED <<frames, busy, parent, endTime>> /\ stage' = stage
      BY <2>6 DEF ContinueContext, CleanContext, flagVars, vars, spanVars
    <3> QED
      BY <3>2, <3>3, <2>a
  <2>7. ASSUME NEW h \in Goroutine, StartGoroutine(g, h) PROVE ChainInv'
    <3>1. PICK x : x = SnapshotOf(active[g])
      OBVIOUS
    <3>2. x[1] # "live"
      BY <3>1 DEF SnapshotOf, Nil, Snap
    <3>3. Idle(h) /\ Adopt(h, x) /\ UNCHANGED <<frames, busy, parent, endTime>> /\ stage' = stage
      BY <2>7, <3>1 DEF StartGoroutine, flagVars, vars, spanVars
    <3> QED
      BY <3>2, <3>3, <2>a
  <2> QED
    BY <1>2, <2>1, <2>2, <2>3, <2>4, <2>5, <2>6, <2>7 DEF GoroutineStep
<1>3. ASSUME NEW s \in Span, AsyncFinish(s) \/ Deliver(s) \/ DeliverDone(s) PROVE ChainInv'
  <2>1. UNCHANGED <<frames, base, active, parent>>
    BY <1>3 DEF AsyncFinish, AsyncFlag, AsyncEndTime, AsyncFreeze, Deliver, DeliverDone,
       goVars, flagVars, lifeVars
  <2>2. \A h \in Goroutine : busy'[h] \in {busy[h], NoSpan}
    BY <1>3 DEF AsyncFinish, AsyncFlag, AsyncEndTime, AsyncFreeze, Deliver, DeliverDone,
       goVars, lifeVars
  <2>3. \A t \in Span : endTime[t] => endTime'[t]
    BY <1>3, <1>i DEF AsyncFinish, AsyncFlag, AsyncEndTime, AsyncFreeze, Deliver, DeliverDone,
       flagVars, lifeVars, LifeTypeOK
  <2>4. \A t \in Span : stage[t] \in {"numbered", "loaded"} => stage'[t] = stage[t]
    <3>1. CASE AsyncFinish(s)
      BY <3>1, <1>i DEF AsyncFinish, AsyncFlag, AsyncEndTime, AsyncFreeze, Freeze, vars, spanVars, TypeOK
    <3>2. CASE Deliver(s) \/ DeliverDone(s)
      BY <3>2, <1>i, DeliverStages DEF Ended
    <3> QED
      BY <1>3, <3>1, <3>2
  <2>5. ASSUME NEW h \in Goroutine PROVE Chained(h)'
    <3>1. busy[h] \in Span \cup {NoSpan}
      BY <1>i DEF LifeTypeOK
    <3> QED
      BY <2>1, <2>2, <2>3, <2>4, <3>1, <1>o
  <2> QED
    BY <2>5 DEF ChainInv
<1> QED
  BY <1>1, <1>2, <1>3 DEF ContextNext

\* BusyInv is kept: only RegisterSpan opens a busy span, and lets go of it.
LEMMA BusyStep ==
  ASSUME CtxInv, BusyInv, [ContextNext]_ctxVars
  PROVE  BusyInv'
<1>i. TypeOK /\ LifeTypeOK /\ Fresh /\ HomeInv /\ BusyInv
  BY DEF CtxInv, IInv
<1> DEFINE Ok(s) == endTime[s] \/ stage[s] \in {"numbered", "loaded"}
<1>o. ASSUME NEW h \in Goroutine, busy'[h] = busy[h],
             \A t \in Span : endTime[t] => endTime'[t],
             busy[h] # NoSpan /\ stage[busy[h]] \in {"numbered", "loaded"} =>
               stage'[busy[h]] \in {"numbered", "loaded"}
      PROVE  busy'[h] # NoSpan => Ok(busy[h])'
  BY <1>o, <1>i DEF BusyInv, LifeTypeOK
<1>1. CASE UNCHANGED ctxVars
  BY <1>1, <1>i DEF ctxVars, vars, spanVars, lifeVars, goVars, flagVars, BusyInv
<1>2. ASSUME NEW g \in Goroutine, GoroutineStep(g) PROVE BusyInv'
  <2>1. ASSUME NEW k \in Kind, NEW s \in Span, CreateSpan(g, k, s) PROVE BusyInv'
    <3>1. /\ endTime' = endTime /\ stage[s] = "unborn" /\ \A t \in Span \ {s} : stage'[t] = stage[t]
          /\ busy' = busy \/ (busy' = [busy EXCEPT ![g] = s] /\ stage'[s] = "numbered")
      BY <2>1, <1>i DEF CreateSpan, NewRoot, BecomeRoot, CopyContext, TypeOK
    <3>2. s # NoSpan /\ s \notin Alive
      BY <3>1, SpanAssumption DEF Alive
    <3>3. \A h \in Goroutine : busy[h] # NoSpan => busy[h] \in Span /\ busy[h] # s
      BY <3>2, <1>i DEF Fresh, Alive
    <3>4. \A h \in Goroutine : busy'[h] = busy[h] \/ (busy'[h] = s /\ stage'[s] = "numbered")
      BY <3>1, <1>i DEF LifeTypeOK
    <3> QED
      BY <3>1, <3>3, <3>4, <1>i DEF BusyInv
  <2>2. ASSUME NEW s \in Span, busy[g] = s, RegisterSpan(g) PROVE BusyInv'
    <3>1. Register(s) /\ endTime' = endTime
      BY <2>2 DEF RegisterSpan
    <3>2. /\ stage'[s] \in {"numbered", "loaded", "open"}
          /\ \A t \in Span \ {s} : stage'[t] = stage[t]
      BY <3>1, <1>i, RegisterStage
    <3>3. s # NoSpan /\ \A h \in Goroutine \ {g} : busy[h] # s
      BY <2>2, <1>i, SpanAssumption DEF HomeInv, Homed
    <3>4. \/ busy' = [busy EXCEPT ![g] = NoSpan]
          \/ busy' = busy /\ stage'[s] # "open"
      BY <2>2 DEF RegisterSpan
    <3>5. ASSUME NEW h \in Goroutine PROVE busy'[h] # NoSpan => Ok(busy[h])' /\ busy'[h] = busy[h]
      <4>0. busy \in [Goroutine -> Span \cup {NoSpan}]
        BY <1>i DEF LifeTypeOK
      <4>1. CASE h = g
        BY <2>2, <3>2, <3>4, <4>0, <4>1
      <4>2. CASE h # g
        <5>1. busy'[h] = busy[h] /\ busy[h] # s /\ busy[h] \in Span \cup {NoSpan}
          BY <3>3, <3>4, <4>0, <4>2
        <5>2. /\ \A t \in Span : endTime[t] => endTime'[t]
              /\ busy[h] # NoSpan => stage'[busy[h]] = stage[busy[h]]
          BY <3>1, <3>2, <5>1
        <5> QED
          BY <5>1, <5>2, <1>o
      <4> QED
        BY <4>1, <4>2
    <3> QED
      BY <3>5 DEF BusyInv
  <2>3. ASSUME End(g) PROVE BusyInv'
    <3>1. frames[g] # <<>>
      BY <2>3 DEF End, EndNested, EndAgain, EndAsync, EndLast
    <3>2. PICK s \in Span : s = Top(g)
      BY <3>1, <1>i, Frames
    <3>3. \/ endTime' = endTime /\ busy' = busy
          \/ endTime' = [endTime EXCEPT ![s] = TRUE] /\ busy' = busy
          \/ /\ endTime' = [endTime EXCEPT ![s] = TRUE]
             /\ busy' \in {[busy EXCEPT ![g] = s], [busy EXCEPT ![g] = NoSpan]}
      BY <2>3, <3>2 DEF End, EndNested, EndAgain, EndAsync, EndLast, flagVars
    <3>4. /\ \A t \in Span : endTime[t] => endTime'[t]
          /\ \A h \in Goroutine : busy'[h] \in {busy[h], NoSpan} \/ (busy'[h] = s /\ endTime'[s])
      <4>1. busy \in [Goroutine -> Span \cup {NoSpan}] /\ endTime \in [Span -> BOOLEAN]
        BY <1>i DEF LifeTypeOK
      <4> QED
        BY <3>3, <4>1
    <3>5. \A t \in Span : stage[t] \in {"numbered", "loaded"} => stage'[t] = stage[t]
      BY <2>3, <3>2, <1>i DEF End, EndNested, EndAgain, EndAsync, EndLast, Freeze, vars, spanVars, TypeOK
    <3>6. \A h \in Goroutine : busy[h] \in Span \cup {NoSpan}
      BY <1>i DEF LifeTypeOK
    <3> QED
      BY <3>4, <3>5, <3>6, <1>i DEF BusyInv
  <2>4. ASSUME \/ \E k \in Kind : CreateReused(g, k)
               \/ PrepareAsync(g) \/ CaptureContext(g) \/ ContinueContext(g) \/ CleanContext(g)
               \/ \E h \in Goroutine : StartGoroutine(g, h)
        PROVE  BusyInv'
    <3>1. UNCHANGED <<stage, busy, endTime>>
      BY <2>4 DEF CreateReused, PrepareAsync, CaptureContext, ContinueContext, CleanContext,
         StartGoroutine, goVars, flagVars, vars, spanVars
    <3> QED
      BY <3>1, <1>i DEF BusyInv
  <2> QED
    BY <1>2, <2>1, <2>2, <2>3, <2>4 DEF GoroutineStep
<1>3. ASSUME NEW s \in Span, AsyncFinish(s) \/ Deliver(s) \/ DeliverDone(s) PROVE BusyInv'
  <2>1. \A h \in Goroutine : busy'[h] \in {busy[h], NoSpan} /\ busy[h] \in Span \cup {NoSpan}
    BY <1>3, <1>i DEF AsyncFinish, AsyncFlag, AsyncEndTime, AsyncFreeze, Deliver, DeliverDone,
       goVars, lifeVars, LifeTypeOK
  <2>2. \A t \in Span : endTime[t] => endTime'[t]
    BY <1>3, <1>i DEF AsyncFinish, AsyncFlag, AsyncEndTime, AsyncFreeze, Deliver, DeliverDone,
       flagVars, lifeVars, LifeTypeOK
  <2>3. \A t \in Span : stage[t] \in {"numbered", "loaded"} => stage'[t] = stage[t]
    <3>1. CASE AsyncFinish(s)
      BY <3>1, <1>i DEF AsyncFinish, AsyncFlag, AsyncEndTime, AsyncFreeze, Freeze, vars, spanVars, TypeOK
    <3>2. CASE Deliver(s) \/ DeliverDone(s)
      BY <3>2, <1>i, DeliverStages DEF Ended
    <3> QED
      BY <1>3, <3>1, <3>2
  <2> QED
    BY <2>1, <2>2, <2>3, <1>i DEF BusyInv
<1> QED
  BY <1>1, <1>2, <1>3 DEF ContextNext

\* Owners are counted in every reachable state, of any number of goroutines.
THEOREM CountedInvariance == ContextSpec => []CountedInv
<1>1. ContextInit => OwnerInv /\ BusyInv /\ ChainInv
  <2> SUFFICES ASSUME ContextInit PROVE OwnerInv /\ BusyInv /\ ChainInv
    OBVIOUS
  <2>1. ASSUME NEW s \in Span PROVE OwnersIn(frames, s) = {}
    BY DEF ContextInit, OwnersIn
  <2>2. OwnerInv
    BY <2>1, FS_EmptySet DEF ContextInit, Init, OwnerInv, OwnerOk, CountOk, LoneOk, Born, Ended
  <2>3. ASSUME NEW g \in Goroutine PROVE Chained(g)
    <3>1. ChainOk(<<>>, Nil, Nil, parent)
      BY AdoptChain DEF Nil
    <3> QED
      BY <3>1 DEF ContextInit, Chained
  <2>4. BusyInv
    BY DEF ContextInit, BusyInv
  <2> QED
    BY <2>2, <2>3, <2>4 DEF ChainInv
<1>2. CountedInv /\ [ContextNext]_ctxVars => CountedInv'
  <2>1. CtxInv /\ [ContextNext]_ctxVars => CtxInv'
    BY Composes, StepIInv, LifeTypeStep, FreshStep, HomeStep DEF CtxInv, IInv
  <2> QED
    BY <2>1, OwnerStep, BusyStep, ChainStep DEF CountedInv
<1> QED
  BY <1>1, <1>2, InitCtxInv, PTL DEF ContextSpec, CountedInv

\* The owners of a span are in frames, and frames hold what Create returned.
LEMMA LostUnowned ==
  ASSUME CountedInv, NEW s \in lost
  PROVE  Owners(s) = {}
BY DEF Owners, Owned, CountedInv, CtxInv, Fresh, Opened

\* reuseCount says how many owners would have to end before the last, whoever
\* goes asynchronous; and a span whose Create failed never gets an owner.
THEOREM OwnersAreCounted == ContextSpec => []ReuseCountsOwners
<1>1. CountedInv => ReuseCountsOwners
  <2> SUFFICES ASSUME CountedInv, NEW s \in Span, stage[s] \in Born, ~endTime[s]
               PROVE  Cardinality(Owners(s)) = IF s \in lost THEN 0 ELSE reuse[s] + 1
    BY DEF ReuseCountsOwners
  <2>1. Owners(s) = OwnersIn(frames, s)
    BY OwnersAre DEF Owners, Owned, CountedInv, CtxInv, LifeTypeOK
  <2>2. CASE s \in lost
    BY <2>2, LostUnowned, FS_EmptySet
  <2>3. CASE s \notin lost
    BY <2>1, <2>3 DEF CountedInv, OwnerInv, OwnerOk, CountOk
  <2> QED
    BY <2>2, <2>3
<1> QED
  BY <1>1, CountedInvariance, PTL

\* A frozen span has no owner left: only the End of the last one, or the
\* AsyncFinish of one handed over after it, froze the span.
THEOREM FrozenByTheLast ==
  ASSUME ~NestedAsync
  PROVE  ContextSpec => []LastEndFreezes
<1>1. CountedInv => LastEndFreezes
  <2>1. ASSUME CountedInv, NEW s \in Span, stage[s] \in Ended PROVE Owners(s) = {}
    <3>1. Owners(s) = OwnersIn(frames, s)
      BY <2>1, OwnersAre DEF Owners, Owned, CountedInv, CtxInv, LifeTypeOK
    <3> QED
      BY <2>1, <3>1, LostUnowned DEF CountedInv, OwnerInv, OwnerOk, CountOk, LoneOk
  <2> QED
    BY <2>1 DEF LastEndFreezes
<1> QED
  BY <1>1, CountedInvariance, PTL

\* A goroutine without frames is in the context it was given.
THEOREM ContextComesBack ==
  ASSUME ~NestedAsync
  PROVE  ContextSpec => []ContextRestored
<1>1. CountedInv => ContextRestored
  <2>1. ASSUME CountedInv, NEW g \in Goroutine, frames[g] = <<>> PROVE active[g] = base[g]
    <3>1. Reaches(<<>>, base[g], Len(<<>>) + 1, active[g])
      BY <2>1 DEF CountedInv, ChainInv, Chained, ChainOk
    <3>2. 1..(Len(<<>>) + 1 - 1) = {}
      OBVIOUS
    <3> QED
      BY <3>1, <3>2 DEF Reaches
  <2> QED
    BY <2>1 DEF ContextRestored, Idle
<1> QED
  BY <1>1, CountedInvariance, PTL
=============================================================================

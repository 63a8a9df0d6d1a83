-------------------------- MODULE SegmentCollector --------------------------
(***************************************************************************)
(* Trace segments of plugins/core/span_tracing.go: how a span gets its     *)
(* place in a segment, and how the collector goroutine of the segment's    *)
(* root gathers the ended spans and hands them to the reporter.            *)
(*                                                                         *)
(* A segment is named by its root span, so seg[s] is the span's SegmentID. *)
(* Spans created by any number of goroutines interleave at the granularity *)
(* of the code's atomic operations: spanIDGenerator, the Load and the CAS  *)
(* of refNum, the root's Swap, each channel hand-over, close(collectorDone)*)
(* and the call of the reporter.                                           *)
(*                                                                         *)
(* Life of a span (stage):                                                 *)
(*   unborn -> numbered -> loaded -> open      NewSegmentSpan with a parent *)
(*   unborn -> open, numbered -> open          ... as the root of a segment *)
(*   open -> frozen                 endSyncAndFreeze/endAndFreeze said TRUE *)
(*   frozen -> sent                 child: end0's goroutine handed it over  *)
(*   frozen -> swapped -> sent      root: Swap(refNum,-1), then doneCh <-   *)
(***************************************************************************)
EXTENDS Integers, FiniteSets

CONSTANTS Span,      \* the spans the program may create
          NoSpan     \* nil

ASSUME SpanAssumption == IsFiniteSet(Span) /\ NoSpan \notin Span

VARIABLES
  stage,         \* where each span is in its life
  seg,           \* SegmentContext.SegmentID
  spanId,        \* SegmentContext.SpanID
  parentSpanId,  \* SegmentContext.ParentSpanID
  seen,          \* the value o read by segmentRegister's Load
  refNum,        \* *refNum of a root: registered children, -1 once it ended
  idGen,         \* *spanIDGenerator of a root
  count,         \* the value a root's Swap took out of refNum
  total,         \* collector: the local "total"
  segment,       \* collector: the spans in rs.segment
  segLen,        \* collector: len(rs.segment)
  collector,     \* where the collector goroutine of a root is
  reports        \* what the collector passed to Reporter.SendTracing

spanVars      == <<stage, seg, spanId, parentSpanId, seen>>
rootVars      == <<refNum, idGen, count>>
collectorVars == <<total, segment, segLen, collector, reports>>
vars == <<spanVars, rootVars, collectorVars>>

Stage     == {"unborn", "numbered", "loaded", "open", "frozen", "swapped", "sent"}
Born      == {"open", "frozen", "swapped", "sent"}
Ended     == {"frozen", "swapped", "sent"}
Collector == {"none", "collecting", "drained", "closed", "reported"}

IsRoot(s)   == seg[s] = s
Members(r)  == {s \in Span : stage[s] \in Born /\ seg[s] = r}
Children(r) == Members(r) \ {r}

TypeOK ==
  /\ stage \in [Span -> Stage]
  /\ seg \in [Span -> Span \cup {NoSpan}]
  /\ spanId \in [Span -> Nat]
  /\ parentSpanId \in [Span -> Nat \cup {-1}]
  /\ seen \in [Span -> Nat]
  /\ refNum \in [Span -> Nat \cup {-1}]
  /\ idGen \in [Span -> Nat]
  /\ count \in [Span -> Nat]
  /\ total \in [Span -> Nat \cup {-1}]
  /\ segment \in [Span -> SUBSET Span]
  /\ segLen \in [Span -> Nat]
  /\ collector \in [Span -> Collector]
  /\ reports \in [Span -> SUBSET Span]

Init ==
  /\ stage = [s \in Span |-> "unborn"]
  /\ seg = [s \in Span |-> NoSpan]
  /\ spanId = [s \in Span |-> 0]
  /\ parentSpanId = [s \in Span |-> -1]
  /\ seen = [s \in Span |-> 0]
  /\ refNum = [s \in Span |-> 0]
  /\ idGen = [s \in Span |-> 0]
  /\ count = [s \in Span |-> 0]
  /\ total = [s \in Span |-> -1]
  /\ segment = [s \in Span |-> {}]
  /\ segLen = [s \in Span |-> 0]
  /\ collector = [s \in Span |-> "none"]
  /\ reports = [s \in Span |-> {}]
-----------------------------------------------------------------------------
(* NewSegmentSpan *)

\* newSegmentRoot and createRootSegmentContext: s roots a new segment, with a
\* new refNum, new channels and a collector goroutine of its own.
BecomeRoot(s) ==
  /\ stage' = [stage EXCEPT ![s] = "open"]
  /\ seg' = [seg EXCEPT ![s] = s]
  /\ spanId' = [spanId EXCEPT ![s] = 0]
  /\ parentSpanId' = [parentSpanId EXCEPT ![s] = -1]
  /\ refNum' = [refNum EXCEPT ![s] = 0]
  /\ collector' = [collector EXCEPT ![s] = "collecting"]
  /\ UNCHANGED <<seen, idGen, count, total, segment, segLen, reports>>

\* parentSpan == nil
NewRoot(s) == stage[s] = "unborn" /\ BecomeRoot(s)

\* Mutant of CopyContext: the id is read and the generator never advanced.
CopyContextSameId(s, p) ==
  /\ stage[s] = "unborn"
  /\ stage[p] \in Born
  /\ stage' = [stage EXCEPT ![s] = "numbered"]
  /\ seg' = [seg EXCEPT ![s] = seg[p]]
  /\ parentSpanId' = [parentSpanId EXCEPT ![s] = spanId[p]]
  /\ spanId' = [spanId EXCEPT ![s] = idGen[seg[p]] + 1]
  /\ UNCHANGED <<seen, rootVars, collectorVars>>

\* createSegmentContext with a parent: copy the parent's context (the parent is
\* the active span, or a snapshot of it, which may outlive the span) and draw
\* the next id of that segment with one atomic add.
CopyContext(s, p) ==
  /\ stage[s] = "unborn"
  /\ stage[p] \in Born
  /\ stage' = [stage EXCEPT ![s] = "numbered"]
  /\ seg' = [seg EXCEPT ![s] = seg[p]]
  /\ parentSpanId' = [parentSpanId EXCEPT ![s] = spanId[p]]
  /\ spanId' = [spanId EXCEPT ![s] = idGen[seg[p]] + 1]
  /\ idGen' = [idGen EXCEPT ![seg[p]] = @ + 1]
  /\ UNCHANGED <<seen, refNum, count, collectorVars>>

\* segmentRegister: the Load. A negative value means the root has ended, and
\* the span starts a segment of its own.
LoadRef(s) ==
  /\ stage[s] = "numbered"
  /\ \/ /\ refNum[seg[s]] < 0
        /\ BecomeRoot(s)
     \/ /\ refNum[seg[s]] >= 0
        /\ seen' = [seen EXCEPT ![s] = refNum[seg[s]]]
        /\ stage' = [stage EXCEPT ![s] = "loaded"]
        /\ UNCHANGED <<seg, spanId, parentSpanId, rootVars, collectorVars>>

\* Mutant of CasRef: a plain store in place of the compare-and-swap.
CasRefBlind(s) ==
  /\ stage[s] = "loaded"
  /\ refNum' = [refNum EXCEPT ![seg[s]] = seen[s] + 1]
  /\ stage' = [stage EXCEPT ![s] = "open"]
  /\ UNCHANGED <<seg, spanId, parentSpanId, seen, idGen, count, collectorVars>>

\* segmentRegister: the CompareAndSwap, back to the Load when it fails.
CasRef(s) ==
  /\ stage[s] = "loaded"
  /\ \/ /\ refNum[seg[s]] = seen[s]
        /\ refNum' = [refNum EXCEPT ![seg[s]] = seen[s] + 1]
        /\ stage' = [stage EXCEPT ![s] = "open"]
     \/ /\ refNum[seg[s]] # seen[s]
        /\ stage' = [stage EXCEPT ![s] = "numbered"]
        /\ UNCHANGED refNum
  /\ UNCHANGED <<seg, spanId, parentSpanId, seen, idGen, count, collectorVars>>
-----------------------------------------------------------------------------
(* End and AsyncFinish *)

\* endSyncAndFreeze or endAndFreeze returned TRUE: ended is set, end0 is called.
\* From here a child waits in end0's goroutine to hand itself over.
Freeze(s) ==
  /\ stage[s] = "open"
  /\ stage' = [stage EXCEPT ![s] = "frozen"]
  /\ UNCHANGED <<seg, spanId, parentSpanId, seen, rootVars, collectorVars>>

\* Mutant of SwapRef: the count is read and refNum left in place.
SwapRefLoad(r) ==
  /\ stage[r] = "frozen"
  /\ IsRoot(r)
  /\ count' = [count EXCEPT ![r] = refNum[r]]
  /\ stage' = [stage EXCEPT ![r] = "swapped"]
  /\ UNCHANGED <<seg, spanId, parentSpanId, seen, refNum, idGen, collectorVars>>

\* RootSegmentSpan.end0: atomic.SwapInt32(refNum, -1); the root now waits to
\* send the value it took out.
SwapRef(r) ==
  /\ stage[r] = "frozen"
  /\ IsRoot(r)
  /\ count' = [count EXCEPT ![r] = refNum[r]]
  /\ refNum' = [refNum EXCEPT ![r] = -1]
  /\ stage' = [stage EXCEPT ![r] = "swapped"]
  /\ UNCHANGED <<seg, spanId, parentSpanId, seen, idGen, collectorVars>>
-----------------------------------------------------------------------------
(* The collector goroutine of newSegmentRoot. The branch of end0 that gives  *)
(* up because collectorDone is closed is not an action: NeverStranded says   *)
(* it cannot be taken.                                                       *)

\* Mutant of AfterReceive: leaves the loop as soon as the total is known.
AfterReceiveTotal(r, n, len) ==
  collector' = [collector EXCEPT ![r] = IF n # -1 THEN "drained" ELSE "collecting"]

\* if total == len(s.segment) { break }, after every receive
AfterReceive(r, n, len) ==
  collector' = [collector EXCEPT ![r] = IF n = len THEN "drained" ELSE "collecting"]

\* case span := <-s.notify
CollectSpan(s) ==
  LET r == seg[s] IN
  /\ stage[s] = "frozen"
  /\ ~IsRoot(s)
  /\ collector[r] = "collecting"
  /\ segment' = [segment EXCEPT ![r] = @ \cup {s}]
  /\ segLen' = [segLen EXCEPT ![r] = @ + 1]
  /\ stage' = [stage EXCEPT ![s] = "sent"]
  /\ AfterReceive(r, total[r], segLen[r] + 1)
  /\ UNCHANGED <<seg, spanId, parentSpanId, seen, rootVars, total, reports>>

\* Mutant of CollectDone: the lengths are compared only when a span arrives.
CollectDoneUnchecked(r) ==
  /\ stage[r] = "swapped"
  /\ collector[r] = "collecting"
  /\ total' = [total EXCEPT ![r] = count[r]]
  /\ stage' = [stage EXCEPT ![r] = "sent"]
  /\ UNCHANGED <<seg, spanId, parentSpanId, seen, rootVars, segment, segLen,
                 collector, reports>>

\* case n := <-s.doneCh
CollectDone(r) ==
  /\ stage[r] = "swapped"
  /\ collector[r] = "collecting"
  /\ total' = [total EXCEPT ![r] = count[r]]
  /\ stage' = [stage EXCEPT ![r] = "sent"]
  /\ AfterReceive(r, count[r], segLen[r])
  /\ UNCHANGED <<seg, spanId, parentSpanId, seen, rootVars, segment, segLen, reports>>

\* closeDone(): senders that came too late would give up from here on
CloseDone(r) ==
  /\ collector[r] = "drained"
  /\ collector' = [collector EXCEPT ![r] = "closed"]
  /\ UNCHANGED <<spanVars, rootVars, total, segment, segLen, reports>>

\* Reporter.SendTracing(append(s.segment, s))
SendTracing(r) ==
  /\ collector[r] = "closed"
  /\ collector' = [collector EXCEPT ![r] = "reported"]
  /\ reports' = [reports EXCEPT ![r] = segment[r] \cup {r}]
  /\ UNCHANGED <<spanVars, rootVars, total, segment, segLen>>

Register(s) == LoadRef(s) \/ CasRef(s)
Collect(r)  == CollectDone(r) \/ CloseDone(r) \/ SendTracing(r)

Next ==
  \/ \E s \in Span : NewRoot(s) \/ Register(s) \/ Freeze(s) \/ CollectSpan(s)
  \/ \E s, p \in Span : CopyContext(s, p)
  \/ \E r \in Span : SwapRef(r) \/ Collect(r)

Spec == Init /\ [][Next]_vars

\* A goroutine inside segmentRegister or end0 keeps running, and so does the
\* collector; nothing makes the program create or end a span.
Fairness == \A s \in Span :
  /\ WF_vars(Register(s))
  /\ WF_vars(CollectSpan(s))
  /\ WF_vars(SwapRef(s))
  /\ WF_vars(Collect(s))

FairSpec == Spec /\ Fairness
-----------------------------------------------------------------------------
(* The inductive invariant *)

\* Who belongs where: a span past createSegmentContext sits in the segment of
\* a root that is born; while it registers it is not a root itself.
SegInv == \A s \in Span :
  /\ stage[s] = "unborn" => seg[s] = NoSpan
  /\ stage[s] # "unborn" => seg[s] \in Span /\ IsRoot(seg[s]) /\ stage[seg[s]] \in Born
  /\ stage[s] \in {"numbered", "loaded"} => ~IsRoot(s)
  /\ stage[s] = "swapped" => IsRoot(s)

\* refNum counts the children until the root swaps it out; then count does, and
\* the collector's total once it got it.
RootCounts(r) ==
  /\ stage[r] \in {"open", "frozen"} => refNum[r] = Cardinality(Children(r))
  /\ stage[r] \in {"swapped", "sent"} =>
        refNum[r] = -1 /\ count[r] = Cardinality(Children(r))
  /\ total[r] = IF stage[r] = "sent" THEN count[r] ELSE -1

CountInv == \A r \in Span : IsRoot(r) => RootCounts(r)

\* The collector's slice holds the children it received, once each; it stops
\* receiving exactly when it has as many as the total announced.
CollectorRuns(r) ==
  /\ segment[r] = {s \in Children(r) : stage[s] = "sent"}
  /\ segLen[r] = Cardinality(segment[r])
  /\ collector[r] # "none"
  /\ collector[r] = "collecting" <=> total[r] # segLen[r]
  /\ reports[r] = IF collector[r] = "reported" THEN segment[r] \cup {r} ELSE {}

NoCollector(r) ==
  /\ segment[r] = {} /\ segLen[r] = 0 /\ total[r] = -1
  /\ collector[r] = "none" /\ reports[r] = {}

CollectorInv ==
  \A r \in Span : IF IsRoot(r) THEN CollectorRuns(r) ELSE NoCollector(r)

IInv == TypeOK /\ SegInv /\ CountInv /\ CollectorInv
-----------------------------------------------------------------------------
(* Properties *)

\* A segment that reached the reporter consists of its root and of every span
\* that registered with it, each of them frozen and each collected once (newSegmentRoot).
ReportIsWholeSegment ==
  \A r \in Span : collector[r] = "reported" =>
    /\ reports[r] = Members(r)
    /\ segLen[r] = Cardinality(Children(r))
    /\ \A s \in Members(r) : stage[s] = "sent"

\* No end0 ever meets a collector that stopped receiving: the give-up branch of
\* its select is, as the code's comment claims, unreachable.
NeverStranded ==
  \A s \in Span :
    stage[s] \in {"frozen", "swapped"} => collector[seg[s]] = "collecting"

\* In a reported segment the span ids are distinct and the parent id of every
\* span but the root names a span of the same segment, created before it:
\* spanIDGenerator and the copied context survive spans that move away to a
\* segment of their own between the two.
ReportIsSpanTree ==
  \A r \in Span : \A s \in reports[r] :
    /\ \A t \in reports[r] : spanId[s] = spanId[t] => s = t
    /\ IF s = r THEN parentSpanId[s] = -1
       ELSE \E p \in reports[r] : spanId[p] = parentSpanId[s] /\ spanId[p] < spanId[s]

\* Once the root swapped refNum out, no registration that was under way, whatever
\* it had loaded before, adds a member to the segment or revives the counter.
SealedForGood ==
  [][\A r \in Span : IsRoot(r) /\ refNum[r] = -1 =>
        refNum'[r] = -1 /\ Members(r)' = Members(r)]_vars

AllEnded(r) == IsRoot(r) /\ \A s \in Members(r) : stage[s] \in Ended

\* When the root and all its children have ended the segment is reported, unless
\* another span registers before the root has sealed it.
EndedSegmentIsReported ==
  \A r \in Span : AllEnded(r) ~> (collector[r] = "reported" \/ ~AllEnded(r))

\* Every step of the collector is a step, or no step, of the promised segment
\* report (module SegmentReport).
Report == INSTANCE SegmentReport WITH
  member    <- [s \in Span |-> IF stage[s] \in Born THEN seg[s] ELSE NoSpan],
  ended     <- {s \in Span : stage[s] \in Ended},
  sealed    <- {r \in Span : IsRoot(r) /\ stage[r] \in {"swapped", "sent"}},
  published <- reports

ReportSpec == Report!Spec
=============================================================================

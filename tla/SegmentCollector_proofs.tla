----------------------- MODULE SegmentCollector_proofs -----------------------
(***************************************************************************)
(* Proofs about SegmentCollector, for every finite set of spans.  IInv is  *)
(* inductive; ReportIsWholeSegment, NeverStranded and SealedForGood follow *)
(* from it, and so does the refinement of SegmentReport.  With TreeInv,    *)
(* which is about the ids, so does ReportIsSpanTree.                       *)
(***************************************************************************)
EXTENDS SegmentCollector, FiniteSetTheorems, TLAPS

\* Membership sets are finite and their sizes are natural numbers.
LEMMA MembersFinite ==
  ASSUME NEW r \in Span, NEW T \in SUBSET Members(r)
  PROVE  IsFiniteSet(T) /\ Cardinality(T) \in Nat
<1>1. T \in SUBSET Span
  BY DEF Members
<1>2. IsFiniteSet(T)
  BY <1>1, SpanAssumption, FS_Subset
<1> QED
  BY <1>2, FS_CardinalityType

\* The initial state satisfies the invariant.
LEMMA InitIInv == Init => IInv
<1> SUFFICES ASSUME Init PROVE IInv
  OBVIOUS
<1>1. TypeOK
  BY DEF Init, TypeOK, Stage, Collector
<1>2. \A r \in Span : ~IsRoot(r)
  BY SpanAssumption DEF Init, IsRoot
<1>3. SegInv
  BY <1>2 DEF Init, SegInv
<1>4. CountInv
  BY <1>2 DEF CountInv
<1>5. CollectorInv
  BY <1>2 DEF Init, CollectorInv, NoCollector
<1> QED
  BY <1>1, <1>3, <1>4, <1>5 DEF IInv

\* A step keeps the types.
LEMMA TypeStep == TypeOK /\ SegInv /\ CountInv /\ [Next]_vars => TypeOK'
<1> SUFFICES ASSUME TypeOK, SegInv, CountInv, [Next]_vars PROVE TypeOK'
  OBVIOUS
<1> USE DEF TypeOK, Stage, Collector, Born, spanVars, rootVars, collectorVars
<1>a. ASSUME NEW s \in Span, BecomeRoot(s) PROVE TypeOK'
  BY <1>a DEF BecomeRoot
<1>1. ASSUME NEW s \in Span, NewRoot(s) PROVE TypeOK'
  BY <1>1, <1>a DEF NewRoot
<1>2. ASSUME NEW s \in Span, NEW p \in Span, CopyContext(s, p) PROVE TypeOK'
  <2>1. seg[p] \in Span
    BY <1>2 DEF CopyContext, SegInv
  <2> QED
    BY <1>2, <2>1 DEF CopyContext
<1>3. ASSUME NEW s \in Span, LoadRef(s) PROVE TypeOK'
  <2>1. seg[s] \in Span
    BY <1>3 DEF LoadRef, SegInv
  <2> QED
    BY <1>3, <1>a, <2>1 DEF LoadRef
<1>4. ASSUME NEW s \in Span, CasRef(s) PROVE TypeOK'
  <2>1. seg[s] \in Span
    BY <1>4 DEF CasRef, SegInv
  <2> QED
    BY <1>4, <2>1 DEF CasRef
<1>5. ASSUME NEW s \in Span, Freeze(s) PROVE TypeOK'
  BY <1>5 DEF Freeze
<1>6. ASSUME NEW r \in Span, SwapRef(r) PROVE TypeOK'
  <2>1. Cardinality(Children(r)) \in Nat
    BY MembersFinite DEF Children
  <2>2. refNum[r] \in Nat
    BY <1>6, <2>1 DEF SwapRef, CountInv, RootCounts
  <2> QED
    BY <1>6, <2>2 DEF SwapRef
<1>7. ASSUME NEW s \in Span, CollectSpan(s) PROVE TypeOK'
  <2>1. seg[s] \in Span
    BY <1>7 DEF CollectSpan, SegInv
  <2> QED
    BY <1>7, <2>1 DEF CollectSpan, AfterReceive
<1>8. ASSUME NEW r \in Span, Collect(r) PROVE TypeOK'
  BY <1>8 DEF Collect, CollectDone, CloseDone, SendTracing, AfterReceive
<1>9. CASE UNCHANGED vars
  BY <1>9 DEF vars
<1> QED
  BY <1>1, <1>2, <1>3, <1>4, <1>5, <1>6, <1>7, <1>8, <1>9 DEF Next, Register

\* A step keeps every span in the segment of a root that is born.
LEMMA SegStep == TypeOK /\ SegInv /\ [Next]_vars => SegInv'
<1> SUFFICES ASSUME TypeOK, SegInv, [Next]_vars PROVE SegInv'
  OBVIOUS
<1> USE SpanAssumption DEF TypeOK, SegInv, IsRoot, Born, Stage, spanVars, rootVars, collectorVars
<1>a. ASSUME NEW s \in Span, stage[s] \notin Born, BecomeRoot(s) PROVE SegInv'
  BY <1>a DEF BecomeRoot
<1>1. ASSUME NEW s \in Span, NewRoot(s) PROVE SegInv'
  BY <1>1, <1>a DEF NewRoot
<1>2. ASSUME NEW s \in Span, NEW p \in Span, CopyContext(s, p) PROVE SegInv'
  BY <1>2 DEF CopyContext
<1>3. ASSUME NEW s \in Span, LoadRef(s) PROVE SegInv'
  BY <1>3, <1>a DEF LoadRef
<1>4. ASSUME NEW s \in Span, CasRef(s) PROVE SegInv'
  BY <1>4 DEF CasRef
<1>5. ASSUME NEW s \in Span, Freeze(s) PROVE SegInv'
  BY <1>5 DEF Freeze
<1>6. ASSUME NEW r \in Span, SwapRef(r) PROVE SegInv'
  BY <1>6 DEF SwapRef
<1>7. ASSUME NEW s \in Span, CollectSpan(s) PROVE SegInv'
  BY <1>7 DEF CollectSpan
<1>8. ASSUME NEW r \in Span, Collect(r) PROVE SegInv'
  BY <1>8 DEF Collect, CollectDone, CloseDone, SendTracing
<1>9. CASE UNCHANGED vars
  BY <1>9 DEF vars
<1> QED
  BY <1>1, <1>2, <1>3, <1>4, <1>5, <1>6, <1>7, <1>8, <1>9 DEF Next, Register

\* How each kind of step changes the children of a segment: a new root has none,
\* a successful registration adds one, nothing else changes them.
LEMMA RootMembers ==
  ASSUME TypeOK, SegInv, NEW s \in Span, stage[s] \notin Born, BecomeRoot(s), NEW r \in Span
  PROVE  Children(r)' = IF r = s THEN {} ELSE Children(r)
BY SpanAssumption DEF TypeOK, SegInv, BecomeRoot, Members, Children, Born, Stage, IsRoot

LEMMA CasMembers ==
  ASSUME TypeOK, SegInv, NEW s \in Span, CasRef(s), NEW r \in Span
  PROVE  Children(r)' = IF r = seg[s] /\ refNum[r] = seen[s]
                        THEN Children(r) \cup {s} ELSE Children(r)
BY SpanAssumption DEF TypeOK, SegInv, CasRef, Members, Children, Born, Stage, IsRoot

LEMMA SameMembers ==
  ASSUME TypeOK, seg' = seg, \A s \in Span : stage[s] \in Born <=> stage'[s] \in Born,
         NEW r \in Span
  PROVE  Children(r)' = Children(r)
BY DEF Members, Children

LEMMA CopyMembers ==
  ASSUME TypeOK, NEW s \in Span, NEW p \in Span, CopyContext(s, p), NEW r \in Span
  PROVE  Children(r)' = Children(r)
BY DEF TypeOK, CopyContext, Members, Children, Born, Stage

\* A step that neither changes membership nor a root's counters keeps CountInv.
LEMMA CountFrame ==
  ASSUME TypeOK, CountInv, NEW r \in Span, IsRoot(r), IsRoot(r)',
         Children(r)' = Children(r), UNCHANGED <<refNum[r], count[r], total[r]>>,
         stage[r]' = stage[r] \/ (stage[r] = "open" /\ stage[r]' = "frozen")
  PROVE  RootCounts(r)'
BY DEF TypeOK, CountInv, RootCounts, IsRoot

\* A step keeps the counters equal to the number of children.
LEMMA CountStep == TypeOK /\ SegInv /\ CountInv /\ CollectorInv /\ [Next]_vars => CountInv'
<1> SUFFICES ASSUME TypeOK, SegInv, CountInv, CollectorInv, [Next]_vars,
                    NEW r \in Span, IsRoot(r)'
             PROVE  RootCounts(r)'
  BY DEF CountInv
<1> USE DEF TypeOK, IsRoot
<1>e. Cardinality({}) = 0
  BY FS_EmptySet
<1>f. IsFiniteSet(Children(r))
  BY MembersFinite DEF Children
<1>a. ASSUME NEW s \in Span, stage[s] \notin Born, BecomeRoot(s) PROVE RootCounts(r)'
  <2>1. Children(r)' = IF r = s THEN {} ELSE Children(r)
    BY <1>a, RootMembers
  <2>2. CASE r = s
    <3>1. ~IsRoot(s)
      BY <1>a, SpanAssumption DEF SegInv, Stage, Born
    <3> QED
      BY <1>a, <1>e, <2>1, <2>2, <3>1 DEF BecomeRoot, RootCounts, CollectorInv, NoCollector
  <2>3. CASE r # s
    BY <1>a, <2>1, <2>3, CountFrame DEF BecomeRoot
  <2> QED
    BY <2>2, <2>3
<1>1. ASSUME NEW s \in Span, NewRoot(s) PROVE RootCounts(r)'
  BY <1>1, <1>a DEF NewRoot, Born
<1>2. ASSUME NEW s \in Span, NEW p \in Span, CopyContext(s, p) PROVE RootCounts(r)'
  <2>1. r # s
    BY <1>2 DEF CopyContext, SegInv, Born
  <2>2. Children(r)' = Children(r)
    BY <1>2, CopyMembers
  <2> QED
    BY <1>2, <2>1, <2>2, CountFrame DEF CopyContext, collectorVars
<1>3. ASSUME NEW s \in Span, LoadRef(s) PROVE RootCounts(r)'
  <2>1. CASE BecomeRoot(s)
    BY <1>3, <1>a, <2>1 DEF LoadRef, Born
  <2>2. CASE ~BecomeRoot(s)
    <3>1. Children(r)' = Children(r)
      BY <1>3, <2>2, SameMembers DEF LoadRef, Born
    <3>2. r # s
      BY <1>3, <2>2 DEF LoadRef, SegInv
    <3> QED
      BY <1>3, <2>2, <3>1, <3>2, CountFrame DEF LoadRef, rootVars, collectorVars
  <2> QED
    BY <2>1, <2>2
<1>4. ASSUME NEW s \in Span, CasRef(s) PROVE RootCounts(r)'
  <2>1. r # s /\ stage[r]' = stage[r] /\ IsRoot(r)
    BY <1>4 DEF CasRef, SegInv
  <2>2. CASE r = seg[s] /\ refNum[r] = seen[s]
    <3>1. Children(r)' = Children(r) \cup {s}
      BY <1>4, <2>2, CasMembers
    <3>2. s \notin Children(r)
      BY <1>4 DEF CasRef, Children, Members, Born
    <3>3. Cardinality(Children(r)') = Cardinality(Children(r)) + 1
      <4> DEFINE C == Children(r)
      <4>1. IsFiniteSet(C) /\ s \notin C
        BY <1>f, <3>2
      <4>2. Cardinality(C \cup {s}) = Cardinality(C) + 1
        <5> HIDE DEF C
        <5> QED
          BY <4>1, FS_AddElement
      <4> QED
        BY <3>1, <4>2
    <3>4. refNum[r] \in Nat /\ refNum'[r] = refNum[r] + 1 /\ count'[r] = count[r] /\ total'[r] = total[r]
      BY <1>4, <2>2 DEF CasRef, collectorVars
    <3>5. stage[r] \in {"open", "frozen"}
      <4>1. RootCounts(r) /\ stage[r] \in Born
        BY <1>4, <2>1, <2>2 DEF CountInv, SegInv, CasRef
      <4> QED
        BY <3>4, <4>1 DEF RootCounts, Born
    <3> QED
      BY <2>1, <3>3, <3>4, <3>5 DEF CountInv, RootCounts
  <2>3. CASE ~(r = seg[s] /\ refNum[r] = seen[s])
    <3>1. Children(r)' = Children(r)
      BY <1>4, <2>3, CasMembers
    <3>2. UNCHANGED <<refNum[r], count[r], total[r]>>
      BY <1>4, <2>3 DEF CasRef, collectorVars
    <3> QED
      BY <2>1, <3>1, <3>2, CountFrame
  <2> QED
    BY <2>2, <2>3
<1>5. ASSUME NEW s \in Span, Freeze(s) PROVE RootCounts(r)'
  <2>1. Children(r)' = Children(r)
    BY <1>5, SameMembers DEF Freeze, Born
  <2> QED
    BY <1>5, <2>1, CountFrame DEF Freeze, rootVars, collectorVars
<1>6. ASSUME NEW s \in Span, SwapRef(s) PROVE RootCounts(r)'
  <2>1. Children(r)' = Children(r)
    BY <1>6, SameMembers DEF SwapRef, Born
  <2>2. CASE r = s
    BY <1>6, <2>1, <2>2 DEF SwapRef, CountInv, RootCounts, collectorVars
  <2>3. CASE r # s
    BY <1>6, <2>1, <2>3, CountFrame DEF SwapRef, collectorVars
  <2> QED
    BY <2>2, <2>3
<1>7. ASSUME NEW s \in Span, CollectSpan(s) PROVE RootCounts(r)'
  <2>1. Children(r)' = Children(r)
    BY <1>7, SameMembers DEF CollectSpan, Born
  <2>2. r # s
    BY <1>7 DEF CollectSpan
  <2> QED
    BY <1>7, <2>1, <2>2, CountFrame DEF CollectSpan, rootVars
<1>8. ASSUME NEW s \in Span, CollectDone(s) PROVE RootCounts(r)'
  <2>1. Children(r)' = Children(r)
    BY <1>8, SameMembers DEF CollectDone, Born
  <2>2. CASE r = s
    BY <1>8, <2>1, <2>2 DEF CollectDone, CountInv, RootCounts, rootVars
  <2>3. CASE r # s
    BY <1>8, <2>1, <2>3, CountFrame DEF CollectDone, rootVars
  <2> QED
    BY <2>2, <2>3
<1>9. ASSUME NEW s \in Span, CloseDone(s) \/ SendTracing(s) PROVE RootCounts(r)'
  <2>1. Children(r)' = Children(r)
    BY <1>9, SameMembers DEF CloseDone, SendTracing, spanVars
  <2> QED
    BY <1>9, <2>1, CountFrame DEF CloseDone, SendTracing, spanVars, rootVars
<1>10. CASE UNCHANGED vars
  <2>1. Children(r)' = Children(r)
    BY <1>10, SameMembers DEF vars, spanVars
  <2> QED
    BY <1>10, <2>1, CountFrame DEF vars, spanVars, rootVars, collectorVars
<1> QED
  BY <1>1, <1>2, <1>3, <1>4, <1>5, <1>6, <1>7, <1>8, <1>9, <1>10 DEF Next, Register, Collect

\* A step that touches nothing of segment r's collector keeps its invariant.
LEMMA CollectorFrame ==
  ASSUME TypeOK, CollectorInv, NEW r \in Span, IsRoot(r), IsRoot(r)',
         {s \in Children(r) : stage[s] = "sent"}' = {s \in Children(r) : stage[s] = "sent"},
         UNCHANGED <<segment[r], segLen[r], total[r], collector[r], reports[r]>>
  PROVE  CollectorRuns(r)'
BY DEF TypeOK, CollectorInv, CollectorRuns, IsRoot

\* The sizes a collector compares are natural numbers.
LEMMA SegmentFinite ==
  ASSUME TypeOK, CollectorInv, NEW r \in Span
  PROVE  IsFiniteSet(segment[r]) /\ Cardinality(segment[r]) \in Nat
BY SpanAssumption, FS_Subset, FS_CardinalityType DEF TypeOK

\* A collector that received the total has received every child.
LEMMA AllCollected ==
  ASSUME TypeOK, CountInv, CollectorInv, NEW r \in Span, IsRoot(r),
         collector[r] # "collecting"
  PROVE  /\ stage[r] = "sent"
         /\ segment[r] = Children(r)
         /\ \A s \in Children(r) : stage[s] = "sent"
<1>1. CollectorRuns(r) /\ RootCounts(r)
  BY DEF CountInv, CollectorInv
<1>2. segLen[r] \in Nat /\ total[r] = segLen[r]
  BY <1>1 DEF CollectorRuns, TypeOK
<1>3. stage[r] = "sent" /\ total[r] = Cardinality(Children(r))
  BY <1>1, <1>2 DEF RootCounts
<1>4. segment[r] \subseteq Children(r) /\ Cardinality(segment[r]) = Cardinality(Children(r))
  BY <1>1, <1>2, <1>3 DEF CollectorRuns
<1>5. IsFiniteSet(Children(r))
  BY MembersFinite DEF Children
<1>6. segment[r] = Children(r)
  <2> DEFINE T == segment[r]  C == Children(r)
  <2>1. IsFiniteSet(C) /\ T \in SUBSET C /\ Cardinality(C) = Cardinality(T)
    BY <1>4, <1>5
  <2>2. C = T
    <3> HIDE DEF C, T
    <3> QED
      BY <2>1, FS_Subset
  <2> QED
    BY <2>2
<1> QED
  BY <1>1, <1>3, <1>6 DEF CollectorRuns

\* A step keeps the collectors consistent with what they received.
LEMMA CollectorStep ==
  TypeOK /\ SegInv /\ CountInv /\ CollectorInv /\ [Next]_vars => CollectorInv'
<1> SUFFICES ASSUME TypeOK, SegInv, CountInv, CollectorInv, [Next]_vars, NEW r \in Span
             PROVE  IF IsRoot(r)' THEN CollectorRuns(r)' ELSE NoCollector(r)'
  BY DEF CollectorInv
<1> DEFINE Goal == IF IsRoot(r)' THEN CollectorRuns(r)' ELSE NoCollector(r)'
<1> USE DEF TypeOK, IsRoot
<1>a. ASSUME NEW s \in Span, stage[s] \notin Born, BecomeRoot(s) PROVE Goal
  <2>1. ~IsRoot(s)
    BY <1>a, SpanAssumption DEF SegInv, Stage, Born
  <2>2. Children(r)' = IF r = s THEN {} ELSE Children(r)
    BY <1>a, RootMembers
  <2>3. CASE r = s
    <3>1. NoCollector(r)
      BY <2>1, <2>3 DEF CollectorInv
    <3>2. UNCHANGED <<segment, segLen, total, reports>> /\ collector'[r] = "collecting"
      BY <1>a, <2>3 DEF BecomeRoot
    <3>3. {x \in Children(r) : stage[x] = "sent"}' = {}
      BY <2>2, <2>3
    <3>4. Cardinality({}) = 0 /\ IsRoot(r)'
      BY <1>a, <2>3, FS_EmptySet DEF BecomeRoot
    <3>5. segment'[r] = {} /\ segLen'[r] = 0 /\ total'[r] = -1 /\ reports'[r] = {}
      BY <3>1, <3>2 DEF NoCollector
    <3>6. segLen'[r] = Cardinality(segment'[r])
      BY <3>4, <3>5
    <3>7. CollectorRuns(r)'
      BY <3>2, <3>3, <3>5, <3>6 DEF CollectorRuns
    <3> QED
      BY <3>4, <3>7
  <2>4. CASE r # s /\ IsRoot(r)
    <3>1. {x \in Children(r) : stage[x] = "sent"}' = {x \in Children(r) : stage[x] = "sent"}
      BY <1>a, <2>2, <2>4 DEF BecomeRoot, Children, Members
    <3> QED
      BY <1>a, <2>4, <3>1, CollectorFrame DEF BecomeRoot
  <2>5. CASE r # s /\ ~IsRoot(r)
    BY <1>a, <2>5 DEF BecomeRoot, CollectorInv, NoCollector
  <2> QED
    BY <2>3, <2>4, <2>5
<1>1. ASSUME NEW s \in Span, NewRoot(s) PROVE Goal
  BY <1>1, <1>a DEF NewRoot, Born
<1>2. ASSUME NEW s \in Span, NEW p \in Span, CopyContext(s, p) PROVE Goal
  <2>1. Children(r)' = Children(r)
    BY <1>2, CopyMembers
  <2>2. CASE r = s
    BY <1>2, <2>2, SpanAssumption DEF CopyContext, SegInv, CollectorInv, NoCollector, collectorVars, Born
  <2>3. CASE r # s /\ IsRoot(r)
    <3>1. {x \in Children(r) : stage[x] = "sent"}' = {x \in Children(r) : stage[x] = "sent"}
      BY <1>2, <2>1 DEF CopyContext, Children, Members, Born
    <3> QED
      BY <1>2, <2>3, <3>1, CollectorFrame DEF CopyContext, collectorVars
  <2>4. CASE r # s /\ ~IsRoot(r)
    BY <1>2, <2>4 DEF CopyContext, CollectorInv, NoCollector, collectorVars
  <2> QED
    BY <2>2, <2>3, <2>4
\* steps that leave the collectors alone and send no span
<1>b. ASSUME seg' = seg, UNCHANGED collectorVars,
             \A x \in Span : stage[x] \in Born <=> stage'[x] \in Born,
             \A x \in Span : stage[x] = "sent" <=> stage'[x] = "sent"
      PROVE  Goal
  <2>1. Children(r)' = Children(r)
    BY <1>b, SameMembers
  <2>2. CASE IsRoot(r)
    <3>1. {x \in Children(r) : stage[x] = "sent"}' = {x \in Children(r) : stage[x] = "sent"}
      BY <1>b, <2>1 DEF Children, Members
    <3> QED
      BY <1>b, <2>2, <3>1, CollectorFrame DEF collectorVars
  <2>3. CASE ~IsRoot(r)
    BY <1>b, <2>3 DEF CollectorInv, NoCollector, collectorVars
  <2> QED
    BY <2>2, <2>3
<1>3. ASSUME NEW s \in Span, LoadRef(s) PROVE Goal
  <2>1. CASE BecomeRoot(s)
    BY <1>3, <1>a, <2>1 DEF LoadRef, Born
  <2>2. CASE ~BecomeRoot(s)
    BY <1>3, <1>b, <2>2 DEF LoadRef, Born
  <2> QED
    BY <2>1, <2>2
<1>4. ASSUME NEW s \in Span, CasRef(s) PROVE Goal
  <2>1. Children(r)' = IF r = seg[s] /\ refNum[r] = seen[s] THEN Children(r) \cup {s} ELSE Children(r)
    BY <1>4, CasMembers
  <2>2. stage'[s] # "sent" /\ stage[s] # "sent" /\ \A x \in Span \ {s} : stage'[x] = stage[x]
    BY <1>4 DEF CasRef
  <2>3. {x \in Children(r) : stage[x] = "sent"}' = {x \in Children(r) : stage[x] = "sent"}
    BY <2>1, <2>2 DEF Children, Members
  <2>4. CASE IsRoot(r)
    BY <1>4, <2>3, <2>4, CollectorFrame DEF CasRef, collectorVars
  <2>5. CASE ~IsRoot(r)
    BY <1>4, <2>5 DEF CasRef, CollectorInv, NoCollector, collectorVars
  <2> QED
    BY <2>4, <2>5
<1>5. ASSUME NEW s \in Span, Freeze(s) PROVE Goal
  BY <1>5, <1>b DEF Freeze, Born
<1>6. ASSUME NEW s \in Span, SwapRef(s) PROVE Goal
  BY <1>6, <1>b DEF SwapRef, Born
<1>7. ASSUME NEW s \in Span, CollectSpan(s) PROVE Goal
  <2>0. Children(r)' = Children(r)
    BY <1>7, SameMembers DEF CollectSpan, Born
  <2>1. seg[s] \in Span /\ IsRoot(seg[s]) /\ s \in Children(seg[s])
    BY <1>7 DEF CollectSpan, SegInv, Children, Members, Born
  <2>2. CASE r = seg[s]
    <3>1. CollectorRuns(r) /\ s \notin segment[r]
      BY <1>7, <2>1, <2>2 DEF CollectorInv, CollectorRuns, CollectSpan
    <3>2. segment'[r] = segment[r] \cup {s} /\ segLen'[r] = segLen[r] + 1
          /\ total'[r] = total[r] /\ reports'[r] = reports[r] /\ collector[r] = "collecting"
          /\ collector'[r] = IF total[r] = segLen[r] + 1 THEN "drained" ELSE "collecting"
      BY <1>7, <2>2 DEF CollectSpan, AfterReceive
    <3>3. {x \in Children(r) : stage[x] = "sent"}' = {x \in Children(r) : stage[x] = "sent"} \cup {s}
      BY <1>7, <2>0, <2>1, <2>2 DEF CollectSpan, Children, Members
    <3>4. Cardinality(segment[r] \cup {s}) = Cardinality(segment[r]) + 1
      BY <3>1, SegmentFinite, FS_AddElement
    <3>5. IsRoot(r)'
      BY <1>7, <2>1, <2>2 DEF CollectSpan
    <3> QED
      BY <3>1, <3>2, <3>3, <3>4, <3>5 DEF CollectorRuns
  <2>3. CASE r # seg[s] /\ IsRoot(r)
    <3>1. {x \in Children(r) : stage[x] = "sent"}' = {x \in Children(r) : stage[x] = "sent"}
      BY <1>7, <2>0, <2>3 DEF CollectSpan, Children, Members
    <3> QED
      BY <1>7, <2>3, <3>1, CollectorFrame DEF CollectSpan, AfterReceive
  <2>4. CASE r # seg[s] /\ ~IsRoot(r)
    BY <1>7, <2>4 DEF CollectSpan, AfterReceive, CollectorInv, NoCollector
  <2> QED
    BY <2>2, <2>3, <2>4
<1>8. ASSUME NEW s \in Span, CollectDone(s) PROVE Goal
  <2>0. Children(r)' = Children(r)
    BY <1>8, SameMembers DEF CollectDone, Born
  <2>1. IsRoot(s) /\ RootCounts(s)
    BY <1>8 DEF CollectDone, SegInv, CountInv
  <2>2. {x \in Children(r) : stage[x] = "sent"}' = {x \in Children(r) : stage[x] = "sent"}
    BY <1>8, <2>0, <2>1 DEF CollectDone, Children, Members
  <2>3. CASE r = s
    <3>1. CollectorRuns(r)
      BY <2>1, <2>3 DEF CollectorInv
    <3> QED
      BY <1>8, <2>1, <2>2, <2>3, <3>1 DEF CollectDone, AfterReceive, CollectorRuns
  <2>4. CASE r # s /\ IsRoot(r)
    BY <1>8, <2>2, <2>4, CollectorFrame DEF CollectDone, AfterReceive
  <2>5. CASE r # s /\ ~IsRoot(r)
    BY <1>8, <2>5 DEF CollectDone, AfterReceive, CollectorInv, NoCollector
  <2> QED
    BY <2>3, <2>4, <2>5
<1>9. ASSUME NEW s \in Span, CloseDone(s) \/ SendTracing(s) PROVE Goal
  <2>0. Children(r)' = Children(r)
    BY <1>9, SameMembers DEF CloseDone, SendTracing, spanVars
  <2>1. {x \in Children(r) : stage[x] = "sent"}' = {x \in Children(r) : stage[x] = "sent"}
    BY <1>9, <2>0 DEF CloseDone, SendTracing, spanVars
  <2>2. IsRoot(s)
    BY <1>9 DEF CollectorInv, NoCollector, CloseDone, SendTracing
  <2>3. CASE r = s
    <3>1. CASE CloseDone(s)
      BY <2>1, <2>2, <2>3, <3>1 DEF CloseDone, CollectorInv, CollectorRuns, spanVars
    <3>2. CASE SendTracing(s)
      BY <2>1, <2>2, <2>3, <3>2 DEF SendTracing, CollectorInv, CollectorRuns, spanVars
    <3> QED
      BY <1>9, <3>1, <3>2
  <2>4. CASE r # s /\ IsRoot(r)
    BY <1>9, <2>1, <2>4, CollectorFrame DEF CloseDone, SendTracing, spanVars
  <2>5. CASE r # s /\ ~IsRoot(r)
    BY <1>9, <2>5 DEF CloseDone, SendTracing, CollectorInv, NoCollector, spanVars
  <2> QED
    BY <2>3, <2>4, <2>5
<1>10. CASE UNCHANGED vars
  BY <1>10, <1>b DEF vars, spanVars
<1> QED
  BY <1>1, <1>2, <1>3, <1>4, <1>5, <1>6, <1>7, <1>8, <1>9, <1>10 DEF Next, Register, Collect

\* IInv is inductive, and so holds in every reachable state.
LEMMA StepIInv == IInv /\ [Next]_vars => IInv'
BY TypeStep, SegStep, CountStep, CollectorStep DEF IInv

\* So IInv holds in every reachable state, for any finite set of spans.
THEOREM Invariance == Spec => []IInv
BY InitIInv, StepIInv, PTL DEF Spec

\* Types are kept.
THEOREM TypeCorrect == Spec => []TypeOK
<1>1. IInv => TypeOK
  BY DEF IInv
<1> QED
  BY <1>1, Invariance, PTL

\* Whatever the interleaving of creations, registrations and ends, a reported
\* segment holds its root and every registered span, all of them frozen.
THEOREM WholeSegments == Spec => []ReportIsWholeSegment
<1>1. IInv => ReportIsWholeSegment
  <2> SUFFICES ASSUME IInv, NEW r \in Span, collector[r] = "reported"
               PROVE  /\ reports[r] = Members(r)
                      /\ segLen[r] = Cardinality(Children(r))
                      /\ \A s \in Members(r) : stage[s] = "sent"
    BY DEF ReportIsWholeSegment
  <2>1. IsRoot(r)
    BY DEF IInv, CollectorInv, NoCollector
  <2>2. stage[r] = "sent" /\ segment[r] = Children(r) /\ \A s \in Children(r) : stage[s] = "sent"
    BY <2>1, AllCollected DEF IInv
  <2>3. CollectorRuns(r)
    BY <2>1 DEF IInv, CollectorInv
  <2>4. Members(r) = Children(r) \cup {r}
    BY <2>1, <2>2 DEF Children, Members, IsRoot, Born
  <2> QED
    BY <2>2, <2>3, <2>4 DEF CollectorRuns
<1> QED
  BY <1>1, Invariance, PTL

\* Nobody ever waits on a collector that stopped receiving: the branches of end0
\* that give up on collectorDone are unreachable.
THEOREM Unstranded == Spec => []NeverStranded
<1>1. IInv => NeverStranded
  <2> SUFFICES ASSUME IInv, NEW s \in Span, stage[s] \in {"frozen", "swapped"},
                      collector[seg[s]] # "collecting"
               PROVE  FALSE
    BY DEF NeverStranded
  <2>1. seg[s] \in Span /\ IsRoot(seg[s])
    BY DEF IInv, SegInv
  <2>2. stage[seg[s]] = "sent" /\ \A x \in Children(seg[s]) : stage[x] = "sent"
    BY <2>1, AllCollected DEF IInv
  <2>3. s \in Children(seg[s]) \/ s = seg[s]
    BY DEF Children, Members, Born
  <2> QED
    BY <2>2, <2>3
<1> QED
  BY <1>1, Invariance, PTL

\* After the root's swap no registration in flight adds a member.
THEOREM Sealed == Spec => SealedForGood
<1> DEFINE Keeps == \A r \in Span : IsRoot(r) /\ refNum[r] = -1 =>
                      refNum'[r] = -1 /\ Members(r)' = Members(r)
<1>1. IInv /\ [Next]_vars => Keeps
  <2> SUFFICES ASSUME IInv, [Next]_vars, NEW r \in Span, IsRoot(r), refNum[r] = -1
               PROVE  refNum'[r] = -1 /\ Members(r)' = Members(r)
    OBVIOUS
  <2>0. TypeOK /\ SegInv /\ RootCounts(r) /\ Cardinality(Children(r)) \in Nat
    BY MembersFinite DEF IInv, CountInv, Children
  <2>r. stage[r] \in {"swapped", "sent"}
    BY <2>0, SpanAssumption DEF RootCounts, SegInv, TypeOK, IsRoot, Born
  <2>a. ASSUME seg' = seg, refNum' = refNum \/ refNum'[r] = refNum[r],
               \A s \in Span : stage[s] \in Born <=> stage'[s] \in Born
        PROVE  refNum'[r] = -1 /\ Members(r)' = Members(r)
    BY <2>a DEF Members
  <2> USE <2>0 DEF TypeOK, IsRoot
  <2>b. ASSUME NEW s \in Span, stage[s] \notin Born, BecomeRoot(s)
        PROVE  refNum'[r] = -1 /\ Members(r)' = Members(r)
    BY <2>b, <2>r DEF BecomeRoot, Members, Born
  <2>1. ASSUME NEW s \in Span, NewRoot(s)
        PROVE  refNum'[r] = -1 /\ Members(r)' = Members(r)
    BY <2>1, <2>b DEF NewRoot, Born
  <2>2. ASSUME NEW s \in Span, NEW p \in Span, CopyContext(s, p)
        PROVE  refNum'[r] = -1 /\ Members(r)' = Members(r)
    BY <2>2 DEF CopyContext, Members, Born
  <2>3. ASSUME NEW s \in Span, LoadRef(s)
        PROVE  refNum'[r] = -1 /\ Members(r)' = Members(r)
    <3>1. CASE BecomeRoot(s)
      BY <2>3, <2>b, <3>1 DEF LoadRef, Born
    <3>2. CASE ~BecomeRoot(s)
      BY <2>3, <2>a, <3>2 DEF LoadRef, rootVars, Born
    <3> QED
      BY <3>1, <3>2
  <2>4. ASSUME NEW s \in Span, CasRef(s)
        PROVE  refNum'[r] = -1 /\ Members(r)' = Members(r)
    <3>1. seg[s] = r => refNum[seg[s]] # seen[s]
      OBVIOUS
    <3> QED
      BY <2>4, <3>1 DEF CasRef, Members, Born
  <2>5. ASSUME NEW s \in Span, Freeze(s)
        PROVE  refNum'[r] = -1 /\ Members(r)' = Members(r)
    BY <2>5, <2>a DEF Freeze, rootVars, Born
  <2>6. ASSUME NEW s \in Span, SwapRef(s)
        PROVE  refNum'[r] = -1 /\ Members(r)' = Members(r)
    BY <2>6, <2>a, <2>r DEF SwapRef, Born
  <2>7. ASSUME NEW s \in Span, CollectSpan(s)
        PROVE  refNum'[r] = -1 /\ Members(r)' = Members(r)
    BY <2>7, <2>a DEF CollectSpan, rootVars, Born
  <2>8. ASSUME NEW s \in Span, Collect(s)
        PROVE  refNum'[r] = -1 /\ Members(r)' = Members(r)
    BY <2>8, <2>a DEF Collect, CollectDone, CloseDone, SendTracing, spanVars, rootVars, Born
  <2>9. CASE UNCHANGED vars
    BY <2>9, <2>a DEF vars, spanVars, rootVars
  <2> QED
    BY <2>1, <2>2, <2>3, <2>4, <2>5, <2>6, <2>7, <2>8, <2>9 DEF Next, Register
<1>2. IInv /\ [Next]_vars => [\A r \in Span : IsRoot(r) /\ refNum[r] = -1 =>
                      refNum'[r] = -1 /\ Members(r)' = Members(r)]_vars
  BY <1>1
<1> QED
  BY <1>2, Invariance, PTL DEF Spec, SealedForGood
-----------------------------------------------------------------------------
(* The ids of a segment: the root has 0, and an id drawn from the generator   *)
(* stays with the span, also while it is not registered yet.                  *)

Numbered(s) == stage[s] # "unborn"

\* A span below the root has an id that was drawn, greater than the one of a
\* member, its parent.
Placed(s) ==
  /\ spanId[s] \in 1..idGen[seg[s]]
  /\ \E p \in Members(seg[s]) : spanId[p] = parentSpanId[s] /\ spanId[p] < spanId[s]

TreeInv ==
  /\ \A r \in Span : ~IsRoot(r) => idGen[r] = 0
  /\ \A s \in Span : Numbered(s) =>
       IF IsRoot(s) THEN spanId[s] = 0 /\ parentSpanId[s] = -1 ELSE Placed(s)
  /\ \A s, t \in Span : Numbered(s) /\ Numbered(t) /\ seg[s] = seg[t] /\ spanId[s] = spanId[t]
                        => s = t

\* A step that numbers no span and takes none away
LEMMA TreeFrame ==
  ASSUME TypeOK, TreeInv, UNCHANGED <<seg, spanId, parentSpanId, idGen>>,
         \A s \in Span : /\ stage'[s] = "unborn" <=> stage[s] = "unborn"
                         /\ stage[s] \in Born => stage'[s] \in Born
  PROVE  TreeInv'
<1>1. \A r : Members(r) \subseteq Members(r)'
  BY DEF Members
<1>2. \A s \in Span : Numbered(s)' <=> Numbered(s)
  BY DEF Numbered
<1>3. \A s \in Span : Placed(s) => Placed(s)'
  BY <1>1 DEF Placed
<1> QED
  BY <1>2, <1>3 DEF TreeInv, IsRoot

\* A span that becomes a root has the id 0 and nobody in its segment; where it
\* was it had no child.
LEMMA TreeRoot ==
  ASSUME TypeOK, SegInv, TreeInv, NEW s \in Span, stage[s] \notin Born, BecomeRoot(s)
  PROVE  TreeInv'
<1>1. /\ seg' = [seg EXCEPT ![s] = s] /\ spanId' = [spanId EXCEPT ![s] = 0]
      /\ parentSpanId' = [parentSpanId EXCEPT ![s] = -1] /\ idGen' = idGen
      /\ stage' = [stage EXCEPT ![s] = "open"]
  BY DEF BecomeRoot
<1>2. ~IsRoot(s) /\ \A t \in Span : seg[t] # s
  BY SpanAssumption DEF SegInv, IsRoot, Born, Stage, TypeOK
<1>3. /\ seg'[s] = s /\ spanId'[s] = 0 /\ parentSpanId'[s] = -1
      /\ \A t \in Span \ {s} : /\ seg'[t] = seg[t] /\ spanId'[t] = spanId[t]
                               /\ parentSpanId'[t] = parentSpanId[t] /\ stage'[t] = stage[t]
  BY <1>1 DEF TypeOK
<1>4. ASSUME NEW t \in Span \ {s} PROVE (IsRoot(t)' <=> IsRoot(t)) /\ (Numbered(t)' <=> Numbered(t))
  BY <1>3 DEF IsRoot, Numbered
<1>6. ASSUME NEW t \in Span \ {s}, Placed(t) PROVE Placed(t)'
  <2>1. PICK p \in Members(seg[t]) : spanId[p] = parentSpanId[t] /\ spanId[p] < spanId[t]
    BY <1>6 DEF Placed
  <2>2. p \in Members(seg[t])' /\ p \in Span \ {s}
    <3>1. p \in Span /\ stage[p] \in Born /\ seg[p] = seg[t] /\ p # s
      BY <2>1 DEF Members
    <3> QED
      BY <1>3, <3>1 DEF Members
  <2> QED
    BY <1>1, <1>3, <1>6, <2>1, <2>2 DEF Placed
<1>7. ASSUME NEW r \in Span, ~IsRoot(r)' PROVE idGen'[r] = 0
  <2>1. r # s
    BY <1>3, <1>7 DEF IsRoot
  <2> QED
    BY <1>1, <1>4, <1>7, <2>1 DEF TreeInv
<1>8. ASSUME NEW t \in Span, Numbered(t)'
      PROVE  IF IsRoot(t)' THEN spanId'[t] = 0 /\ parentSpanId'[t] = -1 ELSE Placed(t)'
  <2>1. CASE t = s
    BY <1>3, <2>1 DEF IsRoot
  <2>2. CASE t # s
    BY <1>3, <1>4, <1>6, <1>8, <2>2 DEF TreeInv
  <2> QED
    BY <2>1, <2>2
<1>9. ASSUME NEW t \in Span, NEW u \in Span, Numbered(t)', Numbered(u)',
             seg'[t] = seg'[u], spanId'[t] = spanId'[u]
      PROVE  t = u
  <2>1. CASE t # s /\ u # s
    BY <1>3, <1>4, <1>9, <2>1 DEF TreeInv
  <2>2. CASE t = s \/ u = s
    BY <1>2, <1>3, <1>9, <2>2
  <2> QED
    BY <2>1, <2>2
<1> QED
  BY <1>7, <1>8, <1>9 DEF TreeInv

\* A span that copies p's context gets an id greater than all in the segment.
LEMMA TreeCopy ==
  ASSUME TypeOK, SegInv, TreeInv, NEW s \in Span, NEW p \in Span, CopyContext(s, p)
  PROVE  TreeInv'
<1> DEFINE r == seg[p]
<1>1. /\ stage[s] = "unborn" /\ stage[p] \in Born /\ r \in Span /\ IsRoot(r)
      /\ s # p /\ s # r /\ seg[s] = NoSpan
  BY SpanAssumption DEF CopyContext, SegInv, Born, IsRoot
<1>2. /\ seg'[s] = r /\ spanId'[s] = idGen[r] + 1 /\ parentSpanId'[s] = spanId[p]
      /\ idGen'[r] = idGen[r] + 1 /\ stage'[s] = "numbered"
      /\ \A t \in Span \ {s} : /\ seg'[t] = seg[t] /\ spanId'[t] = spanId[t]
                               /\ parentSpanId'[t] = parentSpanId[t] /\ stage'[t] = stage[t]
      /\ \A t \in Span \ {r} : idGen'[t] = idGen[t]
  BY <1>1 DEF CopyContext, TypeOK
<1>3. idGen[r] \in Nat
  BY <1>1 DEF TypeOK
<1>4. ASSUME NEW t \in Span, Numbered(t), seg[t] = r
      PROVE  spanId[t] \in Nat /\ spanId[t] <= idGen[r]
  BY <1>3, <1>4 DEF TreeInv, Placed, TypeOK
<1>5. ASSUME NEW t \in Span \ {s} PROVE (IsRoot(t)' <=> IsRoot(t)) /\ (Numbered(t)' <=> Numbered(t))
  BY <1>2 DEF IsRoot, Numbered
<1>6. ~IsRoot(s)' /\ ~IsRoot(s) /\ Numbered(p)
  BY <1>1, <1>2, SpanAssumption DEF IsRoot, Numbered, Born
<1>7. ASSUME NEW x PROVE Members(x) \subseteq Members(x)' /\ s \notin Members(x)
  BY <1>1, <1>2 DEF Members, Born
<1>8. Placed(s)'
  <2>1. p \in Members(r)' /\ spanId'[p] = spanId[p] /\ spanId[p] <= idGen[r] /\ spanId[p] \in Nat
    BY <1>1, <1>2, <1>4, <1>6, <1>7 DEF Members
  <2>2. spanId'[s] \in 1..idGen'[seg'[s]] /\ spanId'[p] < spanId'[s]
    BY <1>2, <1>3, <2>1
  <2> QED
    BY <1>2, <2>1, <2>2 DEF Placed
<1>9. ASSUME NEW t \in Span \ {s}, Numbered(t), Placed(t) PROVE Placed(t)'
  <2>1. PICK q \in Members(seg[t]) : spanId[q] = parentSpanId[t] /\ spanId[q] < spanId[t]
    BY <1>9 DEF Placed
  <2>2. q \in Members(seg[t])' /\ q \in Span \ {s}
    <3>1. q \in Span /\ stage[q] \in Born /\ seg[q] = seg[t] /\ q # s
      BY <1>1, <2>1 DEF Members, Born
    <3> QED
      BY <1>2, <3>1 DEF Members
  <2>3. seg[t] \in Span /\ idGen[seg[t]] \in Nat
    BY <1>9 DEF SegInv, Numbered, TypeOK
  <2>4. spanId'[t] \in 1..idGen'[seg'[t]]
    BY <1>2, <1>3, <1>9, <2>3 DEF Placed
  <2> QED
    BY <1>2, <2>1, <2>2, <2>4 DEF Placed
<1>10. ASSUME NEW x \in Span, ~IsRoot(x)' PROVE idGen'[x] = 0
  <2>1. x # r /\ ~IsRoot(x)
    BY <1>1, <1>5, <1>6, <1>10
  <2> QED
    BY <1>2, <2>1 DEF TreeInv
<1>11. ASSUME NEW t \in Span, Numbered(t)'
       PROVE  IF IsRoot(t)' THEN spanId'[t] = 0 /\ parentSpanId'[t] = -1 ELSE Placed(t)'
  <2>1. CASE t = s
    BY <1>6, <1>8, <2>1
  <2>2. CASE t # s
    <3>1. IF IsRoot(t) THEN spanId[t] = 0 /\ parentSpanId[t] = -1 ELSE Placed(t)
      BY <1>5, <1>11, <2>2 DEF TreeInv
    <3> QED
      BY <1>2, <1>5, <1>9, <1>11, <2>2, <3>1
  <2> QED
    BY <2>1, <2>2
<1>12. ASSUME NEW t \in Span \ {s}, Numbered(t), seg[t] = r PROVE spanId[t] # idGen[r] + 1
  BY <1>3, <1>4, <1>12
<1>13. ASSUME NEW t \in Span, NEW u \in Span, Numbered(t)', Numbered(u)',
              seg'[t] = seg'[u], spanId'[t] = spanId'[u]
       PROVE  t = u
  <2>1. CASE t # s /\ u # s
    BY <1>2, <1>5, <1>13, <2>1 DEF TreeInv
  <2>2. CASE t = s \/ u = s
    BY <1>2, <1>5, <1>12, <1>13, <2>2
  <2> QED
    BY <2>1, <2>2
<1> QED
  BY <1>10, <1>11, <1>13 DEF TreeInv

LEMMA TreeStep == TypeOK /\ SegInv /\ TreeInv /\ [Next]_vars => TreeInv'
<1> SUFFICES ASSUME TypeOK, SegInv, TreeInv, [Next]_vars PROVE TreeInv'
  OBVIOUS
<1> USE DEF TypeOK, Born
<1>1. ASSUME NEW s \in Span, NewRoot(s) PROVE TreeInv'
  BY <1>1, TreeRoot DEF NewRoot
<1>2. ASSUME NEW s \in Span, NEW p \in Span, CopyContext(s, p) PROVE TreeInv'
  BY <1>2, TreeCopy
<1>3. ASSUME NEW s \in Span, LoadRef(s) PROVE TreeInv'
  <2>1. CASE BecomeRoot(s)
    BY <1>3, <2>1, TreeRoot DEF LoadRef
  <2>2. CASE ~BecomeRoot(s)
    BY <1>3, <2>2, TreeFrame DEF LoadRef, rootVars
  <2> QED
    BY <2>1, <2>2
<1>4. ASSUME NEW s \in Span, CasRef(s) PROVE TreeInv'
  BY <1>4, TreeFrame DEF CasRef
<1>5. ASSUME NEW s \in Span, Freeze(s) PROVE TreeInv'
  BY <1>5, TreeFrame DEF Freeze, rootVars
<1>6. ASSUME NEW s \in Span, SwapRef(s) PROVE TreeInv'
  BY <1>6, TreeFrame DEF SwapRef
<1>7. ASSUME NEW s \in Span, CollectSpan(s) PROVE TreeInv'
  BY <1>7, TreeFrame DEF CollectSpan, rootVars
<1>8. ASSUME NEW s \in Span, Collect(s) PROVE TreeInv'
  BY <1>8, TreeFrame DEF Collect, CollectDone, CloseDone, SendTracing, spanVars, rootVars
<1>9. CASE UNCHANGED vars
  BY <1>9, TreeFrame DEF vars, spanVars, rootVars
<1> QED
  BY <1>1, <1>2, <1>3, <1>4, <1>5, <1>6, <1>7, <1>8, <1>9 DEF Next, Register

LEMMA TreeSafe == Spec => []TreeInv
<1>1. Init => TreeInv
  BY SpanAssumption DEF Init, TreeInv, Numbered, IsRoot
<1> QED
  BY <1>1, TreeStep, Invariance, PTL DEF Spec, IInv

\* A reported segment is a tree: however registrations, moves to a segment of
\* their own and ends interleave, ids are distinct in it and every parent id names
\* a span of the report with a smaller id.
THEOREM SpanTrees == Spec => []ReportIsSpanTree
<1>1. IInv /\ TreeInv => ReportIsSpanTree
  <2> SUFFICES ASSUME IInv, TreeInv, NEW r \in Span, NEW s \in reports[r]
               PROVE  /\ \A t \in reports[r] : spanId[s] = spanId[t] => s = t
                      /\ IF s = r THEN parentSpanId[s] = -1
                         ELSE \E p \in reports[r] : /\ spanId[p] = parentSpanId[s]
                                                    /\ spanId[p] < spanId[s]
    BY DEF ReportIsSpanTree
  <2>1. IsRoot(r) /\ collector[r] = "reported"
    BY DEF IInv, CollectorInv, CollectorRuns, NoCollector
  <2>2. stage[r] = "sent" /\ segment[r] = Children(r)
    BY <2>1, AllCollected DEF IInv
  <2>3. reports[r] = segment[r] \cup {r}
    BY <2>1 DEF IInv, CollectorInv, CollectorRuns
  <2>4. reports[r] = Members(r)
    BY <2>1, <2>2, <2>3 DEF Children, Members, IsRoot, Born
  <2>5. \A t \in reports[r] : t \in Span /\ Numbered(t) /\ seg[t] = r
    BY <2>4 DEF Members, Numbered, Born
  <2>6. \A t \in reports[r] : spanId[s] = spanId[t] => s = t
    BY <2>5 DEF TreeInv
  <2>7. s = r => parentSpanId[s] = -1
    BY <2>1, <2>5 DEF TreeInv
  <2>8. s # r => Placed(s)
    BY <2>5 DEF TreeInv, IsRoot
  <2> QED
    BY <2>4, <2>5, <2>6, <2>7, <2>8 DEF Placed
<1> QED
  BY <1>1, Invariance, TreeSafe, PTL
-----------------------------------------------------------------------------
(* Refinement of SegmentReport. The abstract variables are abbreviated:      *)

member0 == [s \in Span |-> IF stage[s] \in Born THEN seg[s] ELSE NoSpan]
ended0  == {s \in Span : stage[s] \in Ended}
sealed0 == {r \in Span : IsRoot(r) /\ stage[r] \in {"swapped", "sent"}}

\* A step that changes none of the abstract variables is a stutter.
LEMMA Stutter ==
  ASSUME UNCHANGED <<member0, ended0, sealed0, reports>>
  PROVE  UNCHANGED Report!vars
BY DEF Report!vars, member0, ended0, sealed0

\* Becoming a root begins a segment.
LEMMA RootBegins ==
  ASSUME IInv, NEW s \in Span, stage[s] \notin Born, BecomeRoot(s)
  PROVE  Report!Begin(s)
<1> USE SpanAssumption DEF IInv, TypeOK, IsRoot, Born, Ended
<1>1. member0[s] = NoSpan /\ member0' = [member0 EXCEPT ![s] = s]
  BY DEF BecomeRoot, member0
<1>2. UNCHANGED <<ended0, sealed0, reports>>
  BY DEF BecomeRoot, ended0, sealed0
<1> QED
  BY <1>1, <1>2 DEF Report!Begin, member0, ended0, sealed0

\* Every step of the collector is a step of the promised report or a stutter.
LEMMA StepSimulation == IInv /\ [Next]_vars => [Report!Next]_(Report!vars)
<1> SUFFICES ASSUME IInv, [Next]_vars PROVE Report!Next \/ UNCHANGED Report!vars
  OBVIOUS
<1>t. TypeOK /\ SegInv /\ CountInv /\ CollectorInv
  BY DEF IInv
<1> USE <1>t, SpanAssumption DEF TypeOK, IsRoot, Ended
<1> DEFINE Goal == Report!Next \/ UNCHANGED Report!vars
<1>1. ASSUME NEW s \in Span, NewRoot(s) PROVE Goal
  BY <1>1, RootBegins DEF NewRoot, Born, Report!Next
<1>2. ASSUME NEW s \in Span, NEW p \in Span, CopyContext(s, p) PROVE Goal
  <2>1. UNCHANGED <<member0, ended0, reports>>
    BY <1>2 DEF CopyContext, collectorVars, member0, ended0, Born
  <2>2. UNCHANGED sealed0
    BY <1>2 DEF CopyContext, sealed0
  <2> QED
    BY <2>1, <2>2, Stutter
<1>3. ASSUME NEW s \in Span, LoadRef(s) PROVE Goal
  <2>1. CASE BecomeRoot(s)
    BY <1>3, <2>1, RootBegins DEF LoadRef, Born, Report!Next
  <2>2. CASE ~BecomeRoot(s)
    BY <1>3, <2>2, Stutter DEF LoadRef, collectorVars, member0, ended0, sealed0, Born
  <2> QED
    BY <2>1, <2>2
<1>4. ASSUME NEW s \in Span, CasRef(s) PROVE Goal
  <2>1. CASE refNum[seg[s]] = seen[s]
    <3> DEFINE r == seg[s]
    <3>1. r \in Span /\ IsRoot(r) /\ stage[r] \in Born /\ s # r
      BY <1>4 DEF CasRef, SegInv
    <3>2. r \notin sealed0
      BY <2>1, <3>1 DEF sealed0, CountInv, RootCounts
    <3>3. member0[s] = NoSpan /\ member0[r] = r /\ member0' = [member0 EXCEPT ![s] = r]
      BY <1>4, <2>1, <3>1 DEF CasRef, member0, Born
    <3>4. UNCHANGED <<ended0, sealed0, reports>>
      BY <1>4, <2>1 DEF CasRef, collectorVars, ended0, sealed0
    <3>5. Report!Join(s, r)
      BY <3>1, <3>2, <3>3, <3>4 DEF Report!Join, member0, ended0, sealed0
    <3>6. \E x, y \in Span : Report!Join(x, y)
      BY <3>1, <3>5 DEF Report!Join
    <3> QED
      BY <3>6 DEF Report!Next
  <2>2. CASE refNum[seg[s]] # seen[s]
    BY <1>4, <2>2, Stutter DEF CasRef, collectorVars, member0, ended0, sealed0, Born
  <2> QED
    BY <2>1, <2>2
<1>5. ASSUME NEW s \in Span, Freeze(s) PROVE Goal
  <2>1. seg[s] \in Span /\ member0[s] = seg[s] /\ s \notin ended0
    BY <1>5 DEF Freeze, SegInv, member0, ended0, Born
  <2>2. UNCHANGED <<member0, sealed0, reports>> /\ ended0' = ended0 \cup {s}
    BY <1>5 DEF Freeze, collectorVars, member0, ended0, sealed0, Born
  <2>3. Report!Finish(s)
    BY <2>1, <2>2 DEF Report!Finish, member0, ended0, sealed0
  <2> QED
    BY <2>3 DEF Report!Next
<1>6. ASSUME NEW r \in Span, SwapRef(r) PROVE Goal
  <2>1. member0[r] = r /\ r \in ended0 \ sealed0
    BY <1>6 DEF SwapRef, member0, ended0, sealed0, Born
  <2>2. UNCHANGED <<member0, ended0, reports>> /\ sealed0' = sealed0 \cup {r}
    BY <1>6 DEF SwapRef, collectorVars, member0, ended0, sealed0, Born
  <2>3. Report!Seal(r)
    BY <2>1, <2>2 DEF Report!Seal, member0, ended0, sealed0
  <2> QED
    BY <2>3 DEF Report!Next
<1>7. ASSUME NEW s \in Span, CollectSpan(s) PROVE Goal
  BY <1>7, Stutter DEF CollectSpan, member0, ended0, sealed0, Born
<1>8. ASSUME NEW r \in Span, CollectDone(r) PROVE Goal
  BY <1>8, Stutter DEF CollectDone, member0, ended0, sealed0, Born
<1>9. ASSUME NEW r \in Span, CloseDone(r) PROVE Goal
  BY <1>9, Stutter DEF CloseDone, spanVars, member0, ended0, sealed0
<1>10. ASSUME NEW r \in Span, SendTracing(r) PROVE Goal
  <2>1. IsRoot(r) /\ CollectorRuns(r)
    BY <1>10 DEF SendTracing, CollectorInv, NoCollector
  <2>2. stage[r] = "sent" /\ segment[r] = Children(r) /\ \A s \in Children(r) : stage[s] = "sent"
    BY <1>10, <2>1, AllCollected DEF SendTracing
  <2>3. Members(r) = Children(r) \cup {r} /\ r \in sealed0 /\ Members(r) \subseteq ended0
    BY <2>1, <2>2 DEF Children, Members, Born, sealed0, ended0
  <2>4. Report!MembersOf(r) = Members(r)
    BY DEF Report!MembersOf, Members
  <2>5. reports[r] = {} /\ reports' = [reports EXCEPT ![r] = Members(r)]
    BY <1>10, <2>1, <2>2, <2>3 DEF SendTracing, CollectorRuns
  <2>6. UNCHANGED <<member0, ended0, sealed0>>
    BY <1>10 DEF SendTracing, spanVars, member0, ended0, sealed0
  <2>7. Report!Publish(r)
    BY <2>3, <2>4, <2>5, <2>6 DEF Report!Publish, member0, ended0, sealed0
  <2> QED
    BY <2>7 DEF Report!Next
<1>11. CASE UNCHANGED vars
  BY <1>11, Stutter DEF vars, spanVars, collectorVars, member0, ended0, sealed0
<1> QED
  BY <1>1, <1>2, <1>3, <1>4, <1>5, <1>6, <1>7, <1>8, <1>9, <1>10, <1>11
     DEF Next, Register, Collect

\* The collector implements the promised report, for any number of spans.
THEOREM Refinement == Spec => ReportSpec
<1>1. Init => Report!Init
  BY SpanAssumption DEF Init, Report!Init, Born, Ended, IsRoot
<1> QED
  BY <1>1, StepSimulation, Invariance, PTL DEF Spec, ReportSpec, Report!Spec
=============================================================================

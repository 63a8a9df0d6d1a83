---------------------------- MODULE NoopSpans_proofs ----------------------------
(* Proofs about NoopSpans, for any goroutines and any bounds.  What a        *)
(* goroutine holds is an invariant of its own: the lemmas are about one      *)
(* goroutine's calls n, active span cur, origin org and context gl.          *)
EXTENDS NoopSpans, FiniteSetTheorems, SequenceTheorems, TLAPS

Frame == [span : AnySpan, carry : Carry \cup {"any"}, under : AnySpan,
          by : {"active", "tracer", "ignored", "sampler"}]
Traces(s) == s[1] \in {"real", "snapshot"}

\* A real span was made by one of the first m calls.
RealOk(n, s, m) == s[1] = "real" => s[2] \in 1..m /\ n[s[2]].span = s

\* Every span goes back to an earlier call or to the origin, and one of a traced
\* goroutine is below real spans and the snapshot only.
RoutineOk(n, cur, org, gl) ==
  /\ n \in Seq(Frame) /\ cur \in AnySpan /\ org \in AnySpan /\ gl \in BOOLEAN
  /\ \A i \in 1..Len(n) : /\ RealOk(n, n[i].span, i) /\ RealOk(n, n[i].under, i - 1)
                          /\ n[i].under # None => gl
  /\ RealOk(n, cur, Len(n))
  /\ cur # None => gl
  /\ org = Snapshot => /\ Traces(cur)
                       /\ \A i \in 1..Len(n) : n[i].span[1] = "real" /\ Traces(n[i].under)

NoopInv ==
  /\ ready \in BOOLEAN
  /\ nest \in [Routine -> Seq(Frame)] /\ gls \in [Routine -> BOOLEAN]
  /\ current \in [Routine -> AnySpan] /\ origin \in [Routine -> AnySpan]
  /\ \A g \in Routine : RoutineOk(nest[g], current[g], origin[g], gls[g])

LEMMA Spans ==
  ASSUME NEW s \in AnySpan
  PROVE  /\ s[1] \in {"none", "snapshot", "noop", "real"}
         /\ s[1] = "none" <=> s = None
         /\ s[1] = "noop" => \E k \in 1..MaxNoop : s = Noop(k)
         /\ s[1] = "real" => s[2] \in Nat /\ s = Real(s[2])
         /\ s[1] = "snapshot" => s = Snapshot
BY DEF AnySpan, None, Snapshot, Noop, Real

LEMMA Made ==
  /\ None \in AnySpan /\ Snapshot \in AnySpan
  /\ \A k \in 1..MaxNoop : Noop(k) \in AnySpan /\ Noop(k)[1] = "noop" /\ Noop(k) # None
  /\ \A i \in Nat : Real(i) \in AnySpan /\ Real(i)[1] = "real" /\ Real(i)[2] = i
  /\ None[1] = "none" /\ Snapshot[1] = "snapshot" /\ Snapshot # None
BY DEF AnySpan, None, Snapshot, Noop, Real

\* A Create: call f is added, and c is active then.
LEMMA Push ==
  ASSUME NEW n, NEW cur, NEW org, NEW gl, RoutineOk(n, cur, org, gl),
         NEW f \in Frame, f.under = cur,
         f.span[1] = "real" => f.span = Real(Len(n) + 1) \/ f.span = cur,
         NEW c \in {cur, f.span}, NEW gl2 \in BOOLEAN, gl => gl2, c # None => gl2,
         org = Snapshot => f.span[1] = "real"
  PROVE  RoutineOk(Append(n, f), c, org, gl2)
<1> DEFINE m == Append(n, f)
<1>1. /\ n \in Seq(Frame) /\ cur \in AnySpan /\ org \in AnySpan /\ f.span \in AnySpan
      /\ RealOk(n, cur, Len(n)) /\ (cur # None => gl)
  BY DEF RoutineOk, Frame
<1>2. /\ m \in Seq(Frame) /\ Len(m) = Len(n) + 1 /\ Len(n) \in Nat /\ m[Len(n) + 1] = f
      /\ \A i \in 1..Len(n) : m[i] = n[i]
  BY <1>1
<1> HIDE DEF m
<1>3. c \in AnySpan
  BY <1>1
<1>4. ASSUME NEW s, NEW k \in 0..Len(n), RealOk(n, s, k) PROVE RealOk(m, s, k)
  BY <1>2, <1>4 DEF RealOk
<1>5. RealOk(m, f.under, Len(n))
  <2>1. Len(n) \in 0..Len(n)
    BY <1>2
  <2> QED
    BY <1>1, <1>4, <2>1
<1>6. RealOk(m, f.span, Len(n) + 1)
  <2>1. CASE f.span[1] = "real" /\ f.span = Real(Len(n) + 1)
    BY <1>2, <2>1 DEF RealOk, Real
  <2>2. CASE f.span[1] = "real" /\ f.span = cur
    BY <1>2, <1>5, <2>2 DEF RealOk
  <2>3. CASE f.span[1] # "real"
    BY <2>3 DEF RealOk
  <2> QED
    BY <2>1, <2>2, <2>3
<1>7. ASSUME NEW i \in 1..Len(m)
      PROVE  /\ RealOk(m, m[i].span, i) /\ RealOk(m, m[i].under, i - 1)
             /\ m[i].under # None => gl2
  <2>1. CASE i = Len(n) + 1
    BY <1>1, <1>2, <1>5, <1>6, <2>1
  <2>2. CASE i # Len(n) + 1
    <3>1. i \in 1..Len(n) /\ i - 1 \in 0..Len(n) /\ i \in 0..Len(n)
      BY <1>2, <2>2
    <3>2. /\ RealOk(n, n[i].span, i) /\ RealOk(n, n[i].under, i - 1)
          /\ n[i].under # None => gl
      BY <3>1 DEF RoutineOk
    <3>3. m[i] = n[i] /\ (n[i].under # None => gl2)
      BY <1>2, <3>1, <3>2
    <3>4. RealOk(m, n[i].span, i) /\ RealOk(m, n[i].under, i - 1)
      BY <1>4, <3>1, <3>2
    <3> QED
      BY <3>3, <3>4
  <2> QED
    BY <2>1, <2>2
<1>8. RealOk(m, c, Len(m))
  <2>1. CASE c = cur
    BY <1>2, <1>5, <2>1 DEF RealOk
  <2>2. CASE c = f.span
    BY <1>2, <1>6, <2>2
  <2> QED
    BY <2>1, <2>2
<1>9. ASSUME org = Snapshot
      PROVE  Traces(c) /\ \A i \in 1..Len(m) : m[i].span[1] = "real" /\ Traces(m[i].under)
  <2>1. Traces(cur) /\ \A i \in 1..Len(n) : n[i].span[1] = "real" /\ Traces(n[i].under)
    BY <1>9 DEF RoutineOk
  <2>2. f.span[1] = "real"
    BY <1>9
  <2> QED
    BY <1>2, <2>1, <2>2 DEF Traces
<1> QED
  BY <1>1, <1>2, <1>3, <1>7, <1>8, <1>9 DEF RoutineOk, m

LEMMA PopFrames ==
  ASSUME NEW n \in Seq(Frame), n # <<>>
  PROVE  LET m == SubSeq(n, 1, Len(n) - 1)
         IN  /\ m \in Seq(Frame) /\ Len(m) = Len(n) - 1 /\ Len(n) \in Nat \ {0}
             /\ \A i \in 1..(Len(n) - 1) : m[i] = n[i]
<1> DEFINE m == SubSeq(n, 1, Len(n) - 1)
<1>1. Len(n) \in Nat \ {0} /\ Len(n) - 1 \in Nat
  OBVIOUS
<1>2. /\ 1 \in Int /\ Len(n) - 1 \in Int
      /\ \A i \in 1..(Len(n) - 1) : n[i] \in Frame
  BY <1>1
<1>3. /\ m \in Seq(Frame)
      /\ Len(m) = IF 1 <= Len(n) - 1 THEN (Len(n) - 1) - 1 + 1 ELSE 0
      /\ \A i \in 1..((Len(n) - 1) - 1 + 1) : m[i] = n[1 + i - 1]
  BY <1>2, SubSeqProperties
<1>4. \A i \in 1..(Len(n) - 1) : i \in 1..((Len(n) - 1) - 1 + 1) /\ 1 + i - 1 = i
  BY <1>1
<1> HIDE DEF m
<1>5. (IF 1 <= Len(n) - 1 THEN (Len(n) - 1) - 1 + 1 ELSE 0) = Len(n) - 1
  <2>1. \A l \in Nat \ {0} : (IF 1 <= l - 1 THEN (l - 1) - 1 + 1 ELSE 0) = l - 1
    OBVIOUS
  <2> QED
    BY <1>1, <2>1, Zenon
<1>6. Len(m) = Len(n) - 1
  BY <1>3, <1>5
<1> QED
  BY <1>3, <1>4, <1>6

\* An End: the last call is gone, and c is active then.
LEMMA Pop ==
  ASSUME NEW n, NEW cur, NEW org, NEW gl, RoutineOk(n, cur, org, gl), n # <<>>,
         NEW c \in AnySpan, RealOk(n, c, Len(n) - 1), c # None => gl,
         org = Snapshot => Traces(c)
  PROVE  RoutineOk(SubSeq(n, 1, Len(n) - 1), c, org, gl)
<1> DEFINE m == SubSeq(n, 1, Len(n) - 1)
<1>1. n \in Seq(Frame) /\ org \in AnySpan /\ gl \in BOOLEAN
  BY DEF RoutineOk
<1>2. Len(n) \in Nat \ {0} /\ Len(n) - 1 \in Nat
  BY <1>1
<1>3. m \in Seq(Frame) /\ Len(m) = Len(n) - 1 /\ \A i \in 1..(Len(n) - 1) : m[i] = n[i]
  BY <1>1, PopFrames
<1> HIDE DEF m
<1>4. ASSUME NEW s, NEW k \in 0..(Len(n) - 1), RealOk(n, s, k) PROVE RealOk(m, s, k)
  BY <1>2, <1>3, <1>4 DEF RealOk
<1>5. RealOk(m, c, Len(m))
  <2>1. Len(n) - 1 \in 0..(Len(n) - 1)
    BY <1>2
  <2> QED
    BY <1>3, <1>4, <2>1
<1>6. ASSUME NEW i \in 1..Len(m)
      PROVE  /\ RealOk(m, m[i].span, i) /\ RealOk(m, m[i].under, i - 1)
             /\ m[i].under # None => gl
  <2>1. i \in 1..Len(n) /\ i \in 0..(Len(n) - 1) /\ i - 1 \in 0..(Len(n) - 1) /\ m[i] = n[i]
    BY <1>2, <1>3
  <2>2. /\ RealOk(n, n[i].span, i) /\ RealOk(n, n[i].under, i - 1)
        /\ n[i].under # None => gl
    BY <2>1 DEF RoutineOk
  <2> QED
    BY <1>4, <2>1, <2>2
<1>7. ASSUME org = Snapshot, NEW i \in 1..Len(m)
      PROVE  m[i].span[1] = "real" /\ Traces(m[i].under)
  <2>1. i \in 1..Len(n) /\ m[i] = n[i]
    BY <1>2, <1>3
  <2> QED
    BY <1>7, <2>1 DEF RoutineOk
<1> QED
  BY <1>1, <1>3, <1>5, <1>6, <1>7 DEF RoutineOk, m

\* A step of goroutine g alone
LEMMA OneRoutine ==
  ASSUME NoopInv, NEW g \in Routine, NEW n, NEW c, NEW org, NEW gl,
         nest' = [nest EXCEPT ![g] = n], current' = [current EXCEPT ![g] = c],
         origin' = [origin EXCEPT ![g] = org], gls' = [gls EXCEPT ![g] = gl],
         ready' = ready, RoutineOk(n, c, org, gl)
  PROVE  NoopInv'
<1>1. /\ nest' \in [Routine -> Seq(Frame)] /\ gls' \in [Routine -> BOOLEAN]
      /\ current' \in [Routine -> AnySpan] /\ origin' \in [Routine -> AnySpan]
  BY DEF NoopInv, RoutineOk
<1>2. ASSUME NEW h \in Routine PROVE RoutineOk(nest'[h], current'[h], origin'[h], gls'[h])
  <2>1. CASE h = g
    BY <2>1 DEF NoopInv
  <2>2. CASE h # g
    <3>1. /\ nest'[h] = nest[h] /\ current'[h] = current[h]
          /\ origin'[h] = origin[h] /\ gls'[h] = gls[h]
      BY <2>2 DEF NoopInv
    <3>2. RoutineOk(nest[h], current[h], origin[h], gls[h])
      BY DEF NoopInv
    <3> QED
      BY <3>1, <3>2
  <2> QED
    BY <2>1, <2>2
<1> QED
  BY <1>1, <1>2 DEF NoopInv

\* The state of a goroutine whose Create is answered
LEMMA Answered ==
  ASSUME NoopInv, NEW g \in Routine, NEW s \in AnySpan, NEW carry \in Carry \cup {"any"},
         NEW by \in {"active", "tracer", "ignored", "sampler"}, Answer(g, s, carry, by),
         NEW c \in {current[g], s}, current' = [current EXCEPT ![g] = c],
         NEW gl \in BOOLEAN, gls' = [gls EXCEPT ![g] = gl], gls[g] => gl, c # None => gl,
         s[1] = "real" => s = Real(Len(nest[g]) + 1) \/ s = current[g],
         origin[g] = Snapshot => s[1] = "real"
  PROVE  NoopInv'
<1> DEFINE f == [span |-> s, carry |-> carry, by |-> by, under |-> current[g]]
<1>1. RoutineOk(nest[g], current[g], origin[g], gls[g]) /\ current[g] \in AnySpan
  BY DEF NoopInv, RoutineOk
<1>2. f \in Frame /\ f.span = s /\ f.under = current[g]
  BY <1>1 DEF Frame
<1>3. /\ nest' = [nest EXCEPT ![g] = Append(nest[g], f)]
      /\ ready' = ready /\ origin' = [origin EXCEPT ![g] = origin[g]]
  BY DEF Answer, NoopInv
<1> HIDE DEF f
<1>4. RoutineOk(Append(nest[g], f), c, origin[g], gl)
  BY <1>1, <1>2, Push
<1> QED
  BY <1>3, <1>4, OneRoutine

LEMMA Creates ==
  ASSUME NoopInv, NEW g \in Routine, Create(g)
  PROVE  NoopInv'
<1>0. /\ RoutineOk(nest[g], current[g], origin[g], gls[g])
      /\ current[g] \in AnySpan /\ gls[g] \in BOOLEAN /\ Len(nest[g]) \in Nat
      /\ current \in [Routine -> AnySpan] /\ gls \in [Routine -> BOOLEAN]
      /\ current[g] # None => gls[g]
      /\ origin[g] = Snapshot => Traces(current[g])
  BY DEF NoopInv, RoutineOk
<1>1. /\ current[g][1] = "real" => Traces(current[g])
      /\ Traces(current[g]) => current[g] # None /\ \A k \in 1..MaxNoop : current[g] # Noop(k)
  BY <1>0, Spans, Made DEF Traces
<1>2. CASE BelowNoop(g)
  <2>1. PICK k \in 1..MaxNoop : /\ gls[g] /\ current[g] = Noop(k)
                                /\ Answer(g, Noop(k), "any", "active")
                                /\ UNCHANGED <<gls, current>>
    BY <1>2 DEF BelowNoop
  <2>2. origin[g] # Snapshot /\ Noop(k) \in AnySpan /\ Noop(k)[1] # "real"
    BY <1>0, <1>1, <2>1, Made
  <2>3. current' = [current EXCEPT ![g] = current[g]] /\ gls' = [gls EXCEPT ![g] = gls[g]]
    BY <1>0, <2>1
  <2> QED
    BY <1>0, <2>1, <2>2, <2>3, Answered
<1>3. CASE NotTraced(g)
  <2>1. PICK k \in 1..MaxNoop : /\ ~gls[g]
                                /\ Answer(g, Noop(k), "any", IF ready THEN "ignored" ELSE "tracer")
                                /\ UNCHANGED <<gls, current>>
    BY <1>3 DEF NotTraced
  <2>2. origin[g] # Snapshot /\ Noop(k) \in AnySpan /\ Noop(k)[1] # "real"
    BY <1>0, <1>1, <2>1, Made
  <2>3. current' = [current EXCEPT ![g] = current[g]] /\ gls' = [gls EXCEPT ![g] = gls[g]]
    BY <1>0, <2>1
  <2> QED
    BY <1>0, <2>1, <2>2, <2>3, Answered
<1>4. ASSUME NEW carry \in Carry, SampledOut(g, carry) PROVE NoopInv'
  <2>1. PICK k \in 1..MaxNoop : /\ current[g] = None
                                /\ Answer(g, Noop(k), carry, "sampler")
                                /\ Save(g, Noop(k))
    BY <1>4 DEF SampledOut, AsksSampler
  <2>2. origin[g] # Snapshot /\ Noop(k) \in AnySpan /\ Noop(k)[1] # "real"
    BY <1>0, <1>1, <2>1, Made
  <2> QED
    BY <1>0, <2>1, <2>2, Answered DEF Save
<1>5. ASSUME NEW carry \in Carry, SampledIn(g, carry) PROVE NoopInv'
  <2>1. /\ Answer(g, Real(Len(nest[g]) + 1), carry, "sampler")
        /\ Save(g, Real(Len(nest[g]) + 1))
    BY <1>5 DEF SampledIn
  <2>2. /\ Real(Len(nest[g]) + 1) \in AnySpan /\ Real(Len(nest[g]) + 1)[1] = "real"
    BY <1>0, Made
  <2> QED
    BY <1>0, <2>1, <2>2, Answered DEF Save
<1>6. ASSUME NEW carry \in Carry, BelowReal(g, carry) PROVE NoopInv'
  <2>1. CASE Reuses(g, carry)
    <3>1. /\ Answer(g, current[g], carry, "active") /\ UNCHANGED <<gls, current>>
          /\ current[g][1] = "real"
      BY <1>6, <2>1 DEF BelowReal, Reuses
    <3>2. current' = [current EXCEPT ![g] = current[g]] /\ gls' = [gls EXCEPT ![g] = gls[g]]
      BY <1>0, <3>1
    <3> QED
      BY <1>0, <3>1, <3>2, Answered
  <2>2. CASE ~Reuses(g, carry)
    <3>1. /\ Answer(g, Real(Len(nest[g]) + 1), carry, "active")
          /\ Save(g, Real(Len(nest[g]) + 1))
      BY <1>6, <2>2 DEF BelowReal
    <3>2. /\ Real(Len(nest[g]) + 1) \in AnySpan /\ Real(Len(nest[g]) + 1)[1] = "real"
      BY <1>0, Made
    <3> QED
      BY <1>0, <3>1, <3>2, Answered DEF Save
  <2> QED
    BY <2>1, <2>2
<1> QED
  BY <1>2, <1>3, <1>4, <1>5, <1>6 DEF Create

LEMMA Ends ==
  ASSUME NoopInv, NEW g \in Routine, EndNoop(g) \/ EndReal(g)
  PROVE  NoopInv'
<1> DEFINE n == nest[g]
           L == Len(nest[g])
<1>0. /\ RoutineOk(n, current[g], origin[g], gls[g]) /\ n # <<>> /\ n \in Seq(Frame)
      /\ L \in 1..L /\ L \in Nat /\ n[L].span \in AnySpan /\ n[L] = Innermost(g)
      /\ current \in [Routine -> AnySpan] /\ gls \in [Routine -> BOOLEAN]
      /\ origin \in [Routine -> AnySpan]
      /\ current[g] \in AnySpan
  <2>1. RoutineOk(n, current[g], origin[g], gls[g]) /\ n # <<>>
    BY DEF NoopInv, EndNoop, EndReal
  <2>2. n \in Seq(Frame) /\ current[g] \in AnySpan
    BY <2>1 DEF RoutineOk
  <2>3. L \in 1..L /\ L \in Nat
    BY <2>1, <2>2
  <2>4. n[L] \in Frame
    BY <2>2, <2>3
  <2> QED
    BY <2>1, <2>2, <2>3, <2>4 DEF Frame, Innermost, NoopInv
<1>1. /\ nest' = [nest EXCEPT ![g] = SubSeq(n, 1, L - 1)] /\ ready' = ready
      /\ origin' = [origin EXCEPT ![g] = origin[g]] /\ gls' = [gls EXCEPT ![g] = gls[g]]
  BY <1>0 DEF EndNoop, EndReal, PopCall
<1>2. CASE EndNoop(g)
  <2>1. PICK k \in 1..MaxNoop : /\ n[L].span = Noop(k)
                                /\ current' \in {[current EXCEPT ![g] = None], current}
    BY <1>0, <1>2 DEF EndNoop
  <2>2. n[L].span[1] = "noop" /\ None \in AnySpan /\ None[1] # "real"
    BY <2>1, Made
  <2>3. origin[g] # Snapshot
    BY <1>0, <2>2 DEF RoutineOk
  <2>4. PICK c \in {None, current[g]} : current' = [current EXCEPT ![g] = c]
    BY <1>0, <2>1
  <2>5. RealOk(n, c, L - 1) /\ (c # None => gls[g])
    <3>1. RealOk(n, current[g], L) /\ (current[g] # None => gls[g])
      BY <1>0 DEF RoutineOk
    <3>2. current[g][1] = "real" => current[g][2] # L
      BY <2>2, <3>1 DEF RealOk
    <3>3. RealOk(n, current[g], L - 1)
      BY <1>0, <3>1, <3>2 DEF RealOk
    <3>4. RealOk(n, None, L - 1)
      BY <2>2 DEF RealOk
    <3> QED
      BY <2>4, <3>1, <3>3, <3>4
  <2>6. c \in AnySpan
    BY <1>0, <2>2, <2>4
  <2>7. RoutineOk(SubSeq(n, 1, L - 1), c, origin[g], gls[g])
    BY <1>0, <2>3, <2>5, <2>6, Pop
  <2> QED
    BY <1>1, <2>4, <2>7, OneRoutine
<1>3. CASE EndReal(g)
  <2> DEFINE j == n[L].span[2]
  <2>1. n[L].span[1] = "real" /\ current' = [current EXCEPT ![g] = n[j].under]
    BY <1>0, <1>3 DEF EndReal
  <2>2. j \in 1..L
    BY <1>0, <2>1 DEF RoutineOk, RealOk
  <2>3. /\ RealOk(n, n[j].under, j - 1) /\ (n[j].under # None => gls[g])
        /\ origin[g] = Snapshot => Traces(n[j].under)
    BY <1>0, <2>2 DEF RoutineOk
  <2>4. n[j].under \in AnySpan
    <3>1. n[j] \in Frame
      BY <1>0, <2>2
    <3> QED
      BY <3>1 DEF Frame
  <2> HIDE DEF j
  <2>5. RealOk(n, n[j].under, L - 1)
    BY <1>0, <2>2, <2>3 DEF RealOk
  <2>6. RoutineOk(SubSeq(n, 1, L - 1), n[j].under, origin[g], gls[g])
    BY <1>0, <2>3, <2>4, <2>5, Pop
  <2> QED
    BY <1>1, <2>1, <2>6, OneRoutine DEF j
<1> QED
  BY <1>2, <1>3

LEMMA EmptyOk ==
  ASSUME NEW s \in AnySpan, s[1] # "real", NEW gl \in BOOLEAN, s # None => gl
  PROVE  RoutineOk(<<>>, s, s, gl)
<1>1. <<>> \in Seq(Frame) /\ Len(<<>>) = 0 /\ 1..0 = {}
  OBVIOUS
<1>2. s = Snapshot => Traces(s)
  BY Made DEF Traces
<1> QED
  BY <1>1, <1>2 DEF RoutineOk, RealOk

LEMMA Goes ==
  ASSUME NoopInv, NEW g \in Routine, NEW h \in Routine, GoStatement(g, h)
  PROVE  NoopInv'
<1>0. /\ nest \in [Routine -> Seq(Frame)] /\ current[g] \in AnySpan /\ gls[g] \in BOOLEAN
      /\ current[g] # None => gls[g]
  BY DEF NoopInv, RoutineOk
<1>1. /\ nest[h] = <<>> /\ UNCHANGED <<ready, nest>> /\ gls' = [gls EXCEPT ![h] = gls[g]]
      /\ nest' = [nest EXCEPT ![h] = <<>>]
  BY <1>0 DEF GoStatement
<1>2. PICK s \in AnySpan : /\ s[1] # "real" /\ (s # None => gls[g])
                           /\ current' = [current EXCEPT ![h] = s]
                           /\ origin' = [origin EXCEPT ![h] = s]
  <2>1. CASE current[g][1] = "none"
    <3>1. /\ current' = [current EXCEPT ![h] = None] /\ origin' = [origin EXCEPT ![h] = None]
      BY <2>1 DEF GoStatement
    <3> QED
      BY <3>1, Made
  <2>2. CASE current[g][1] \in {"real", "snapshot"}
    <3>1. /\ current' = [current EXCEPT ![h] = Snapshot]
          /\ origin' = [origin EXCEPT ![h] = Snapshot]
      BY <2>2 DEF GoStatement
    <3>2. gls[g]
      BY <1>0, <2>2, Made
    <3> QED
      BY <3>1, <3>2, Made
  <2>3. CASE current[g][1] = "noop"
    <3>1. \E k \in 1..MaxNoop : /\ current' = [current EXCEPT ![h] = Noop(k)]
                                /\ origin' = [origin EXCEPT ![h] = Noop(k)]
      BY <2>3 DEF GoStatement
    <3>2. gls[g]
      BY <1>0, <2>3, Made
    <3> QED
      BY <3>1, <3>2, Made
  <2> QED
    BY <1>0, <2>1, <2>2, <2>3, Spans
<1>3. RoutineOk(<<>>, s, s, gls[g])
  BY <1>0, <1>2, EmptyOk
<1> QED
  BY <1>1, <1>2, <1>3, OneRoutine

LEMMA NoopSafe == NoopSpec => []NoopInv
<1>1. NoopInit => NoopInv
  <2> SUFFICES ASSUME NoopInit PROVE NoopInv
    OBVIOUS
  <2>1. RoutineOk(<<>>, None, None, FALSE)
    BY Made, EmptyOk
  <2>2. <<>> \in Seq(Frame)
    OBVIOUS
  <2>3. /\ ready \in BOOLEAN /\ gls \in [Routine -> BOOLEAN]
        /\ current \in [Routine -> AnySpan] /\ origin \in [Routine -> AnySpan]
        /\ nest \in [Routine -> Seq(Frame)]
    BY <2>2, Made DEF NoopInit
  <2>4. ASSUME NEW g \in Routine PROVE RoutineOk(nest[g], current[g], origin[g], gls[g])
    BY <2>1 DEF NoopInit
  <2> QED
    BY <2>3, <2>4 DEF NoopInv
<1>2. NoopInv /\ [NoopNext]_noopVars => NoopInv'
  <2> SUFFICES ASSUME NoopInv, [NoopNext]_noopVars PROVE NoopInv'
    OBVIOUS
  <2>1. CASE ReadyChanges
    BY <2>1 DEF ReadyChanges, routineVars, NoopInv
  <2>2. ASSUME NEW g \in Routine, RoutineStep(g) PROVE NoopInv'
    <3>1. CASE Create(g)
      BY <3>1, Creates
    <3>2. CASE EndNoop(g) \/ EndReal(g)
      BY <3>2, Ends
    <3>3. CASE Clean(g)
      <4>1. /\ nest[g] = <<>> /\ UNCHANGED <<ready, nest>> /\ nest' = [nest EXCEPT ![g] = <<>>]
            /\ gls' = [gls EXCEPT ![g] = FALSE] /\ current' = [current EXCEPT ![g] = None]
            /\ origin' = [origin EXCEPT ![g] = None]
        BY <3>3 DEF Clean, NoopInv
      <4>2. RoutineOk(<<>>, None, None, FALSE)
        BY Made, EmptyOk
      <4> QED
        BY <4>1, <4>2, OneRoutine
    <3>4. CASE \E h \in Routine : GoStatement(g, h)
      BY <3>4, Goes
    <3>5. CASE SetRuntimeContextValue(g)
      <4>1. UNCHANGED <<ready, nest, current, origin>> /\ gls' = [gls EXCEPT ![g] = TRUE]
        BY <3>5 DEF SetRuntimeContextValue
      <4>2. \A h \in Routine : gls[h] => gls'[h]
        BY <4>1 DEF NoopInv
      <4> QED
        BY <4>1, <4>2 DEF NoopInv, RoutineOk
    <3> QED
      BY <2>2, <3>1, <3>2, <3>3, <3>4, <3>5 DEF RoutineStep
  <2>3. CASE UNCHANGED noopVars
    BY <2>3 DEF noopVars, routineVars, NoopInv
  <2> QED
    BY <2>1, <2>2, <2>3 DEF NoopNext
<1> QED
  BY <1>1, <1>2, PTL DEF NoopSpec

\* A goroutine started in a traced span makes traced spans only, for any
\* number of goroutines and any nesting of calls.
THEOREM NoopTraced == NoopSpec => []TracedStaysTraced
<1>1. NoopInv => TracedStaysTraced
  <2> SUFFICES ASSUME NoopInv, NEW g \in Routine, origin[g] = Snapshot, NEW i \in Calls(g)
               PROVE  nest[g][i].span[1] = "real"
    BY DEF TracedStaysTraced
  <2>1. RoutineOk(nest[g], current[g], origin[g], gls[g])
    BY DEF NoopInv
  <2>2. i \in 1..Len(nest[g])
    BY <2>1 DEF Calls, RoutineOk
  <2> QED
    BY <2>1, <2>2 DEF RoutineOk
<1> QED
  BY NoopSafe, <1>1, PTL

(* The count of a noop: what one goroutine's calls n, active span cur and      *)
(* origin org say about noop k, of which c calls are counted.                  *)

ByNoop(n, k) == {i \in DOMAIN n : n[i].span = Noop(k)}
HoldsIn(n, cur, org, k) == Noop(k) \in {cur, org} \/ ByNoop(n, k) # {}

\* A noop a goroutine has active, or has answered a call with, counts its calls.
\* While a call the sampler left out is open the noop is active and answers what
\* comes after it; one that is active and has answered nothing is a copy.
NoopOk(n, cur, org, k, c) ==
  /\ cur = Noop(k) \/ ByNoop(n, k) # {} => c = Cardinality(ByNoop(n, k))
  /\ \A i \in ByNoop(n, k) : n[i].by \in {"sampler", "active"} =>
       cur = Noop(k) /\ \A j \in DOMAIN n : j > i => j \in ByNoop(n, k)
  /\ cur = Noop(k) /\ ByNoop(n, k) = {} => org = Noop(k)

RealsTraced(n) == \A i \in DOMAIN n : n[i].span[1] = "real" => n[i].under[1] # "noop"

Holds(g, k) == HoldsIn(nest[g], current[g], origin[g], k)

BalanceInv ==
  /\ stackCount \in [1..MaxNoop -> Nat]
  /\ \A g \in Routine : RealsTraced(nest[g])
  /\ \A g \in Routine, k \in 1..MaxNoop :
       NoopOk(nest[g], current[g], origin[g], k, stackCount[k])
  /\ \A g, h \in Routine, k \in 1..MaxNoop : Holds(g, k) /\ Holds(h, k) => g = h

LEMMA HoldsUses ==
  ASSUME NEW g \in Routine, NEW k, ~InUse(k)
  PROVE  ~Holds(g, k) /\ ByNoop(nest[g], k) = {}
BY DEF InUse, Holds, HoldsIn, ByNoop, NoopCalls, Calls

LEMMA FewCalls ==
  ASSUME NEW n \in Seq(Frame), NEW k
  PROVE  /\ IsFiniteSet(ByNoop(n, k)) /\ Cardinality(ByNoop(n, k)) \in Nat
         /\ ByNoop(n, k) \subseteq 1..Len(n) /\ DOMAIN n = 1..Len(n) /\ Len(n) \in Nat
         /\ Cardinality(ByNoop(n, k)) = 0 <=> ByNoop(n, k) = {}
<1>1. DOMAIN n = 1..Len(n) /\ Len(n) \in Nat
  OBVIOUS
<1>2. ByNoop(n, k) \subseteq 1..Len(n)
  BY <1>1 DEF ByNoop
<1>3. IsFiniteSet(1..Len(n))
  <2>1. 1 \in Int /\ Len(n) \in Int
    BY <1>1
  <2> QED
    BY <2>1, FS_Interval
<1>4. IsFiniteSet(ByNoop(n, k))
  BY <1>2, <1>3, FS_Subset
<1> QED
  BY <1>1, <1>2, <1>4, FS_CardinalityType, FS_EmptySet

\* A call more, a call less: what noop k has answered
LEMMA PushCalls ==
  ASSUME NEW n \in Seq(Frame), NEW f \in Frame, NEW k
  PROVE  LET m == Append(n, f)
             L == Len(n) + 1
         IN  /\ f.span = Noop(k) =>
                  /\ ByNoop(m, k) = ByNoop(n, k) \cup {L}
                  /\ Cardinality(ByNoop(m, k)) = Cardinality(ByNoop(n, k)) + 1
             /\ f.span # Noop(k) => ByNoop(m, k) = ByNoop(n, k)
             /\ m \in Seq(Frame) /\ DOMAIN m = DOMAIN n \cup {L} /\ m[L] = f
             /\ L \notin DOMAIN n /\ \A i \in DOMAIN n : m[i] = n[i] /\ i < L
<1> DEFINE m == Append(n, f)
           L == Len(n) + 1
<1>1. /\ m \in Seq(Frame) /\ m[L] = f /\ \A i \in 1..Len(n) : m[i] = n[i]
      /\ DOMAIN m = 1..L /\ DOMAIN n = 1..Len(n) /\ Len(n) \in Nat
  OBVIOUS
<1> HIDE DEF m
<1>2. DOMAIN m = DOMAIN n \cup {L} /\ L \notin DOMAIN n /\ \A i \in DOMAIN n : m[i] = n[i] /\ i < L
  BY <1>1
<1> HIDE DEF L
<1>3. f.span = Noop(k) => ByNoop(m, k) = ByNoop(n, k) \cup {L}
  BY <1>1, <1>2 DEF ByNoop
<1>4. f.span # Noop(k) => ByNoop(m, k) = ByNoop(n, k)
  BY <1>1, <1>2 DEF ByNoop
<1>5. L \notin ByNoop(n, k)
  BY <1>2 DEF ByNoop
<1>6. f.span = Noop(k) => Cardinality(ByNoop(m, k)) = Cardinality(ByNoop(n, k)) + 1
  BY <1>3, <1>5, FewCalls, FS_AddElement
<1> QED
  BY <1>1, <1>2, <1>3, <1>4, <1>6 DEF m, L

LEMMA PopCalls ==
  ASSUME NEW n \in Seq(Frame), n # <<>>, NEW k
  PROVE  LET m == SubSeq(n, 1, Len(n) - 1)
             L == Len(n)
         IN  /\ n[L].span = Noop(k) =>
                  /\ ByNoop(m, k) = ByNoop(n, k) \ {L} /\ L \in ByNoop(n, k)
                  /\ Cardinality(ByNoop(m, k)) = Cardinality(ByNoop(n, k)) - 1
             /\ n[L].span # Noop(k) => ByNoop(m, k) = ByNoop(n, k) /\ L \notin ByNoop(n, k)
             /\ m \in Seq(Frame) /\ DOMAIN m = DOMAIN n \ {L} /\ L \in DOMAIN n
             /\ \A i \in DOMAIN m : m[i] = n[i] /\ i < L
<1> DEFINE m == SubSeq(n, 1, Len(n) - 1)
           L == Len(n)
<1>1. m \in Seq(Frame) /\ Len(m) = L - 1 /\ (\A i \in 1..(L - 1) : m[i] = n[i]) /\ L \in Nat \ {0}
  BY PopFrames
<1>2. DOMAIN m = 1..(L - 1) /\ DOMAIN n = 1..L
  BY <1>1
<1> HIDE DEF m, L
<1>3. /\ DOMAIN m = DOMAIN n \ {L} /\ L \in DOMAIN n
      /\ \A i \in DOMAIN m : m[i] = n[i] /\ i < L
  BY <1>1, <1>2
<1>4. n[L].span = Noop(k) => ByNoop(m, k) = ByNoop(n, k) \ {L} /\ L \in ByNoop(n, k)
  BY <1>3 DEF ByNoop
<1>5. n[L].span # Noop(k) => ByNoop(m, k) = ByNoop(n, k) /\ L \notin ByNoop(n, k)
  BY <1>3 DEF ByNoop
<1>6. n[L].span = Noop(k) => Cardinality(ByNoop(m, k)) = Cardinality(ByNoop(n, k)) - 1
  BY <1>4, FewCalls, FS_RemoveElement
<1> QED
  BY <1>1, <1>3, <1>4, <1>5, <1>6 DEF m, L

\* A Create whose span is noop k is answered by it while it is active, or by it
\* as a fresh one; any other only while k is not active.
MayPush(n, f, cur, k, c, c2, d) ==
  /\ c2 \in {cur, f.span}
  /\ f.span = Noop(k) =>
       \/ cur = Noop(k) /\ c2 = cur /\ d = c + 1
       \/ /\ ByNoop(n, k) = {} /\ d = 1
          /\ f.by \in {"sampler", "active"} => c2 = Noop(k)
  /\ f.span # Noop(k) => cur # Noop(k) /\ d = c

LEMMA PushNoop ==
  ASSUME NEW n \in Seq(Frame), NEW f \in Frame, NEW cur, NEW org, NEW c, NEW k,
         NoopOk(n, cur, org, k, c), NEW c2, NEW d, MayPush(n, f, cur, k, c, c2, d)
  PROVE  NoopOk(Append(n, f), c2, org, k, d)
<1> DEFINE m == Append(n, f)
           L == Len(n) + 1
           N == ByNoop(n, k)
           M == ByNoop(m, k)
<1>1. /\ f.span = Noop(k) => M = N \cup {L} /\ Cardinality(M) = Cardinality(N) + 1
      /\ f.span # Noop(k) => M = N
      /\ DOMAIN m = DOMAIN n \cup {L} /\ m[L] = f
      /\ L \notin DOMAIN n /\ (\A i \in DOMAIN n : m[i] = n[i] /\ i < L)
  BY PushCalls
<1>2. N \subseteq DOMAIN n /\ (N = {} => Cardinality(N) = 0) /\ L \in Nat /\ DOMAIN n \subseteq Nat
  <2>1. N \subseteq DOMAIN n
    BY DEF ByNoop
  <2>2. N = {} => Cardinality(N) = 0
    BY FewCalls
  <2> QED
    BY <2>1, <2>2
<1>3. /\ cur = Noop(k) \/ N # {} => c = Cardinality(N)
      /\ \A i \in N : n[i].by \in {"sampler", "active"} =>
           cur = Noop(k) /\ \A j \in DOMAIN n : j > i => j \in N
      /\ cur = Noop(k) /\ N = {} => org = Noop(k)
  BY DEF NoopOk
<1>7. /\ c2 \in {cur, f.span}
      /\ f.span = Noop(k) =>
           \/ cur = Noop(k) /\ c2 = cur /\ d = c + 1
           \/ N = {} /\ d = 1 /\ (f.by \in {"sampler", "active"} => c2 = Noop(k))
      /\ f.span # Noop(k) => cur # Noop(k) /\ d = c
  BY DEF MayPush
<1> HIDE DEF m, L, N, M
<1>4. c2 = Noop(k) \/ M # {} => d = Cardinality(M)
  <2>1. CASE f.span = Noop(k) /\ cur = Noop(k) /\ d = c + 1
    BY <1>1, <1>3, <2>1
  <2>2. CASE f.span = Noop(k) /\ N = {} /\ d = 1
    BY <1>1, <1>2, <2>2
  <2>3. CASE f.span # Noop(k)
    <3>1. c2 # Noop(k) /\ M = N /\ d = c
      BY <1>1, <1>7, <2>3
    <3> QED
      BY <1>3, <3>1
  <2> QED
    BY <1>7, <2>1, <2>2, <2>3
<1>5. ASSUME NEW i \in M, m[i].by \in {"sampler", "active"}
      PROVE  c2 = Noop(k) /\ \A j \in DOMAIN m : j > i => j \in M
  <2>1. CASE f.span # Noop(k)
    BY <1>1, <1>2, <1>3, <1>5, <1>7, <2>1
  <2>2. CASE f.span = Noop(k) /\ i = L
    <3>1. \A j \in DOMAIN m : ~(j > L)
      BY <1>1, <1>2
    <3> QED
      BY <1>1, <1>5, <1>7, <2>2, <3>1
  <2>3. CASE f.span = Noop(k) /\ i # L
    <3>1. i \in N /\ n[i].by \in {"sampler", "active"}
      BY <1>1, <1>2, <1>5, <2>3
    <3>2. c2 = Noop(k) /\ \A j \in DOMAIN n : j > i => j \in N
      BY <1>3, <1>7, <2>3, <3>1
    <3> QED
      BY <1>1, <2>3, <3>2
  <2> QED
    BY <2>1, <2>2, <2>3
<1>6. c2 = Noop(k) /\ M = {} => org = Noop(k)
  BY <1>1, <1>3, <1>7
<1> QED
  BY <1>4, <1>5, <1>6 DEF NoopOk, m, M

\* An End: the last call of noop k takes it out of the context.
MayPop(n, cur, k, c, c2, d) ==
  /\ n[Len(n)].span = Noop(k) =>
       /\ d = c - 1
       /\ c # 1 => c2 = cur
       /\ c = 1 => c2 # Noop(k)
  /\ n[Len(n)].span # Noop(k) => d = c /\ (c2 = Noop(k) => cur = Noop(k))

LEMMA PopNoop ==
  ASSUME NEW n \in Seq(Frame), n # <<>>, NEW cur, NEW org, NEW c, NEW k,
         NoopOk(n, cur, org, k, c), NEW c2, NEW d, MayPop(n, cur, k, c, c2, d)
  PROVE  NoopOk(SubSeq(n, 1, Len(n) - 1), c2, org, k, d)
<1> DEFINE m == SubSeq(n, 1, Len(n) - 1)
           L == Len(n)
           N == ByNoop(n, k)
           M == ByNoop(m, k)
<1>1. /\ n[L].span = Noop(k) => M = N \ {L} /\ L \in N /\ Cardinality(M) = Cardinality(N) - 1
      /\ n[L].span # Noop(k) => M = N /\ L \notin N
      /\ DOMAIN m = DOMAIN n \ {L} /\ L \in DOMAIN n
      /\ \A i \in DOMAIN m : m[i] = n[i] /\ i < L
  BY PopCalls
<1>2. N \subseteq DOMAIN n /\ M \subseteq DOMAIN m
  BY DEF ByNoop
<1>3. /\ Cardinality(N) \in Nat /\ (Cardinality(N) = 1 /\ n[L].span = Noop(k) => M = {})
      /\ (M = {} /\ n[L].span = Noop(k) => Cardinality(N) = 1)
  <2>1. m \in Seq(Frame)
    BY PopCalls
  <2>2. Cardinality(N) \in Nat /\ (Cardinality(M) = 0 <=> M = {})
    BY <2>1, FewCalls
  <2> QED
    BY <1>1, <2>2
<1>4. /\ cur = Noop(k) \/ N # {} => c = Cardinality(N)
      /\ \A i \in N : n[i].by \in {"sampler", "active"} =>
           cur = Noop(k) /\ \A j \in DOMAIN n : j > i => j \in N
      /\ cur = Noop(k) /\ N = {} => org = Noop(k)
  BY DEF NoopOk
<1>8. /\ n[L].span = Noop(k) => d = c - 1 /\ (c # 1 => c2 = cur) /\ (c = 1 => c2 # Noop(k))
      /\ n[L].span # Noop(k) => d = c /\ (c2 = Noop(k) => cur = Noop(k))
  BY DEF MayPop
<1> HIDE DEF m, L, N, M
<1>5. c2 = Noop(k) \/ M # {} => d = Cardinality(M)
  <2>1. CASE n[L].span = Noop(k)
    BY <1>1, <1>4, <1>8, <2>1
  <2>2. CASE n[L].span # Noop(k)
    BY <1>1, <1>4, <1>8, <2>2
  <2> QED
    BY <2>1, <2>2
<1>6. ASSUME NEW i \in M, m[i].by \in {"sampler", "active"}
      PROVE  c2 = Noop(k) /\ \A j \in DOMAIN m : j > i => j \in M
  <2>1. i \in DOMAIN m /\ i \in N /\ i < L /\ n[i].by \in {"sampler", "active"}
    BY <1>1, <1>2, <1>6
  <2>2. cur = Noop(k) /\ \A j \in DOMAIN n : j > i => j \in N
    BY <1>4, <2>1
  <2>3. L > i
    <3>1. i \in Int /\ L \in Int
      BY <2>1, FewCalls DEF m, L, M, N
    <3> QED
      BY <2>1, <3>1
  <2>4. n[L].span = Noop(k)
    BY <1>1, <2>2, <2>3
  <2>5. c2 = cur
    BY <1>3, <1>4, <1>6, <1>8, <2>1, <2>4
  <2> QED
    BY <1>1, <2>2, <2>4, <2>5
<1>7. c2 = Noop(k) /\ M = {} => org = Noop(k)
  <2>1. CASE n[L].span = Noop(k)
    BY <1>1, <1>3, <1>4, <1>8, <2>1
  <2>2. CASE n[L].span # Noop(k)
    BY <1>1, <1>4, <1>8, <2>2
  <2> QED
    BY <2>1, <2>2
<1> QED
  BY <1>5, <1>6, <1>7 DEF NoopOk, m, M

\* A step of goroutine g alone that counts only for a noop g has, or one it
\* takes and nobody had.
LEMMA BalanceMoves ==
  ASSUME NoopInv, BalanceInv, NEW g \in Routine, NEW n, NEW c, NEW org,
         nest' = [nest EXCEPT ![g] = n], current' = [current EXCEPT ![g] = c],
         origin' = [origin EXCEPT ![g] = org],
         NEW cnt \in [1..MaxNoop -> Nat], stackCount' = cnt,
         RealsTraced(n),
         \A k \in 1..MaxNoop : NoopOk(n, c, org, k, cnt[k]),
         \A k \in 1..MaxNoop : HoldsIn(n, c, org, k) => Holds(g, k) \/ ~InUse(k),
         \A k \in 1..MaxNoop : cnt[k] = stackCount[k] \/ Holds(g, k) \/ ~InUse(k)
  PROVE  BalanceInv'
<1>1. /\ nest'[g] = n /\ current'[g] = c /\ origin'[g] = org
      /\ \A h \in Routine : h # g => /\ nest'[h] = nest[h] /\ current'[h] = current[h]
                                     /\ origin'[h] = origin[h]
  BY DEF NoopInv
<1>2. ASSUME NEW h \in Routine, NEW k \in 1..MaxNoop, h # g
      PROVE  NoopOk(nest[h], current[h], origin[h], k, cnt[k])
  <2>1. NoopOk(nest[h], current[h], origin[h], k, stackCount[k])
    BY DEF BalanceInv
  <2>2. CASE Holds(g, k) \/ ~InUse(k)
    <3>1. ~Holds(h, k)
      BY <1>2, <2>2, HoldsUses DEF BalanceInv
    <3>2. current[h] # Noop(k) /\ ByNoop(nest[h], k) = {}
      BY <3>1 DEF Holds, HoldsIn
    <3> QED
      BY <3>2 DEF NoopOk
  <2> QED
    BY <2>1, <2>2
<1>3. ASSUME NEW h \in Routine, NEW k \in 1..MaxNoop
      PROVE  NoopOk(nest'[h], current'[h], origin'[h], k, cnt[k])
  BY <1>1, <1>2
<1>4. ASSUME NEW h \in Routine PROVE RealsTraced(nest'[h])
  BY <1>1 DEF BalanceInv
<1>5. ASSUME NEW h \in Routine, NEW k \in 1..MaxNoop, h # g,
             HoldsIn(nest'[h], current'[h], origin'[h], k)
      PROVE  ~HoldsIn(n, c, org, k) /\ Holds(h, k)
  <2>1. Holds(h, k)
    BY <1>1, <1>5 DEF Holds
  <2>2. InUse(k) /\ ~Holds(g, k)
    BY <1>5, <2>1, HoldsUses DEF BalanceInv
  <2> QED
    BY <2>1, <2>2
<1>6. ASSUME NEW h1 \in Routine, NEW h2 \in Routine, NEW k \in 1..MaxNoop,
             HoldsIn(nest'[h1], current'[h1], origin'[h1], k),
             HoldsIn(nest'[h2], current'[h2], origin'[h2], k)
      PROVE  h1 = h2
  <2>1. CASE h1 # g /\ h2 # g
    BY <1>5, <1>6, <2>1 DEF BalanceInv
  <2>2. CASE h1 = g \/ h2 = g
    BY <1>1, <1>5, <1>6, <2>2
  <2> QED
    BY <2>1, <2>2
<1> QED
  BY <1>3, <1>4, <1>6 DEF BalanceInv, Holds

\* What a Create of g that is answered with s, and leaves c active, counts for k.
Counted(g, s, by, c, k, d) ==
  /\ s = Noop(k) =>
       \/ current[g] = Noop(k) /\ c = current[g] /\ d = stackCount[k] + 1
       \/ ~InUse(k) /\ d = 1 /\ (by \in {"sampler", "active"} => c = Noop(k))
  /\ s # Noop(k) => current[g] # Noop(k) /\ d = stackCount[k]

\* A Create of goroutine g: noop k of the answer is the active one or a fresh one.
LEMMA AnswerBalances ==
  ASSUME NoopInv, BalanceInv, NEW g \in Routine, NEW s \in AnySpan,
         NEW carry \in Carry \cup {"any"}, NEW by \in {"active", "tracer", "ignored", "sampler"},
         Answer(g, s, carry, by), NEW c \in {current[g], s},
         current' = [current EXCEPT ![g] = c],
         NEW cnt \in [1..MaxNoop -> Nat], stackCount' = cnt,
         s[1] = "real" => current[g][1] # "noop",
         \A k \in 1..MaxNoop : Counted(g, s, by, c, k, cnt[k])
  PROVE  BalanceInv'
<1> DEFINE f == [span |-> s, carry |-> carry, by |-> by, under |-> current[g]]
           n == nest[g]
<1>1. n \in Seq(Frame) /\ current[g] \in AnySpan
  BY DEF NoopInv
<1>2. f \in Frame /\ f.span = s /\ f.under = current[g] /\ f.by = by
  BY <1>1 DEF Frame
<1>3. /\ nest' = [nest EXCEPT ![g] = Append(n, f)]
      /\ origin' = [origin EXCEPT ![g] = origin[g]]
  BY DEF Answer, NoopInv
<1> HIDE DEF f
<1>4. RealsTraced(Append(n, f))
  <2>1. /\ DOMAIN Append(n, f) = DOMAIN n \cup {Len(n) + 1} /\ Append(n, f)[Len(n) + 1] = f
        /\ \A i \in DOMAIN n : Append(n, f)[i] = n[i]
    BY <1>1, <1>2, PushCalls
  <2>2. RealsTraced(n)
    BY DEF BalanceInv
  <2> QED
    BY <1>2, <2>1, <2>2 DEF RealsTraced
<1>5. ASSUME NEW k \in 1..MaxNoop PROVE NoopOk(Append(n, f), c, origin[g], k, cnt[k])
  <2>1. NoopOk(n, current[g], origin[g], k, stackCount[k])
    BY DEF BalanceInv
  <2>2. ~InUse(k) => ByNoop(n, k) = {}
    BY HoldsUses
  <2> QED
    <3>1. Counted(g, s, by, c, k, cnt[k])
      OBVIOUS
    <3>2. MayPush(n, f, current[g], k, stackCount[k], c, cnt[k])
      BY <1>2, <2>2, <3>1 DEF Counted, MayPush
    <3> QED
      BY <1>1, <1>2, <2>1, <3>2, PushNoop
<1>6. ASSUME NEW k \in 1..MaxNoop, HoldsIn(Append(n, f), c, origin[g], k)
      PROVE  Holds(g, k) \/ ~InUse(k)
  <2>1. CASE s = Noop(k)
    BY <2>1 DEF Counted, Holds, HoldsIn
  <2>2. CASE s # Noop(k)
    <3>1. ByNoop(Append(n, f), k) = ByNoop(n, k) /\ c # Noop(k)
      <4>1. current[g] # Noop(k)
      BY <2>2 DEF Counted
    <4> QED
      BY <1>1, <1>2, <2>2, <4>1, PushCalls
    <3> QED
      BY <1>6, <3>1 DEF Holds, HoldsIn
  <2> QED
    BY <2>1, <2>2
<1>7. ASSUME NEW k \in 1..MaxNoop
      PROVE  cnt[k] = stackCount[k] \/ Holds(g, k) \/ ~InUse(k)
  BY DEF Counted, Holds, HoldsIn
<1> QED
  BY <1>3, <1>4, <1>5, <1>6, <1>7, BalanceMoves

LEMMA NoopNumbers ==
  /\ \A i, j : Noop(i) = Noop(j) => i = j
  /\ \A i : Noop(i)[1] = "noop" /\ Noop(i) # None /\ Noop(i) # Snapshot
BY DEF Noop, None, Snapshot

LEMMA CreatesBalance ==
  ASSUME NoopInv, BalanceInv, NEW g \in Routine, Create(g)
  PROVE  BalanceInv'
<1>0. /\ current[g] \in AnySpan /\ gls[g] \in BOOLEAN /\ Len(nest[g]) \in Nat
      /\ current \in [Routine -> AnySpan]
      /\ current[g] # None => gls[g]
      /\ stackCount \in [1..MaxNoop -> Nat]
      /\ current' = current => current' = [current EXCEPT ![g] = current[g]]
  BY DEF NoopInv, RoutineOk, BalanceInv
<1>1. CASE BelowNoop(g)
  <2>1. PICK k \in 1..MaxNoop : /\ current[g] = Noop(k) /\ Answer(g, Noop(k), "any", "active")
                                /\ stackCount' = [stackCount EXCEPT ![k] = @ + 1]
                                /\ current' = current
    BY <1>1 DEF BelowNoop
  <2> DEFINE cnt == [stackCount EXCEPT ![k] = stackCount[k] + 1]
  <2>2. cnt \in [1..MaxNoop -> Nat] /\ stackCount' = cnt
    BY <1>0, <2>1
  <2>3. ASSUME NEW j \in 1..MaxNoop
        PROVE  Counted(g, Noop(k), "active", current[g], j, cnt[j])
    BY <1>0, <2>1, NoopNumbers DEF Counted
  <2>4. Noop(k) \in AnySpan /\ Noop(k)[1] # "real"
    BY Made
  <2> HIDE DEF cnt
  <2> QED
    BY <1>0, <2>1, <2>2, <2>3, <2>4, AnswerBalances
<1>2. CASE NotTraced(g)
  <2>1. PICK k \in 1..MaxNoop, by \in {"ignored", "tracer"} :
          /\ ~InUse(k) /\ Answer(g, Noop(k), "any", by)
          /\ stackCount' = [stackCount EXCEPT ![k] = 1] /\ current' = current
    BY <1>2 DEF NotTraced, Fresh
  <2>2. current[g] = None
    <3>1. ~gls[g]
      BY <1>2 DEF NotTraced
    <3>2. current[g] # None => gls[g]
      BY <1>0
    <3> QED
      BY <3>1, <3>2
  <2> DEFINE cnt == [stackCount EXCEPT ![k] = 1]
  <2>3. cnt \in [1..MaxNoop -> Nat] /\ stackCount' = cnt
    BY <1>0, <2>1
  <2>4. ASSUME NEW j \in 1..MaxNoop
        PROVE  Counted(g, Noop(k), by, current[g], j, cnt[j])
    BY <1>0, <2>1, <2>2, NoopNumbers DEF Counted
  <2>5. Noop(k) \in AnySpan /\ Noop(k)[1] # "real"
    BY Made
  <2>6. /\ Answer(g, Noop(k), "any", by)
        /\ by \in {"active", "tracer", "ignored", "sampler"} /\ "any" \in Carry \cup {"any"}
        /\ current' = [current EXCEPT ![g] = current[g]]
        /\ current[g] \in {current[g], Noop(k)}
    BY <1>0, <2>1
  <2> HIDE DEF cnt
  <2> QED
    BY ONLY NoopInv, BalanceInv, g \in Routine,
            <2>3, <2>4, <2>5, <2>6, AnswerBalances
<1>3. ASSUME NEW carry \in Carry, SampledOut(g, carry) PROVE BalanceInv'
  <2>1. PICK k \in 1..MaxNoop :
          /\ current[g] = None /\ ~InUse(k)
          /\ Answer(g, Noop(k), carry, "sampler")
          /\ stackCount' = [stackCount EXCEPT ![k] = 1]
          /\ current' = [current EXCEPT ![g] = Noop(k)]
    BY <1>3 DEF SampledOut, AsksSampler, Fresh, Save
  <2> DEFINE cnt == [stackCount EXCEPT ![k] = 1]
  <2>2. cnt \in [1..MaxNoop -> Nat] /\ stackCount' = cnt
    BY <1>0, <2>1
  <2>3. ASSUME NEW j \in 1..MaxNoop
        PROVE  Counted(g, Noop(k), "sampler", Noop(k), j, cnt[j])
    BY <1>0, <2>1, NoopNumbers DEF Counted
  <2>4. /\ Noop(k) \in AnySpan /\ Noop(k)[1] # "real" /\ carry \in Carry \cup {"any"}
        /\ Noop(k) \in {current[g], Noop(k)}
    BY Made
  <2> HIDE DEF cnt
  <2> QED
    BY <1>0, <2>1, <2>2, <2>3, <2>4, AnswerBalances
<1>4. ASSUME NEW s \in AnySpan, s[1] = "real", current[g][1] # "noop",
             NEW carry \in Carry, NEW by \in {"active", "sampler"}, Answer(g, s, carry, by),
             NEW c \in {current[g], s}, current' = [current EXCEPT ![g] = c],
             stackCount' = stackCount
      PROVE  BalanceInv'
  <2>1. \A k \in 1..MaxNoop : Counted(g, s, by, c, k, stackCount[k])
    BY <1>4, NoopNumbers DEF Counted
  <2>2. /\ by \in {"active", "tracer", "ignored", "sampler"} /\ carry \in Carry \cup {"any"}
        /\ stackCount \in [1..MaxNoop -> Nat]
    BY <1>0
  <2> QED
    BY <1>4, <2>1, <2>2, AnswerBalances
<1>5. ASSUME NEW carry \in Carry, SampledIn(g, carry) \/ BelowReal(g, carry) PROVE BalanceInv'
  <2> DEFINE s == Real(Len(nest[g]) + 1)
  <2>1. s \in AnySpan /\ s[1] = "real"
    BY <1>0, Made
  <2>2. CASE SampledIn(g, carry)
    <3>1. /\ current[g] = None /\ Answer(g, s, carry, "sampler") /\ stackCount' = stackCount
          /\ current' = [current EXCEPT ![g] = s]
      BY <2>2 DEF SampledIn, AsksSampler, Save
    <3>2. current[g][1] # "noop"
      BY <3>1, Made
    <3> HIDE DEF s
    <3> QED
      BY <1>4, <2>1, <3>1, <3>2
  <2>3. CASE BelowReal(g, carry) /\ Reuses(g, carry)
    <3>1. /\ current[g][1] = "real" /\ Answer(g, current[g], carry, "active")
          /\ stackCount' = stackCount /\ current' = current
      BY <2>3 DEF BelowReal, Reuses
    <3> QED
      BY <1>0, <1>4, <3>1
  <2>4. CASE BelowReal(g, carry) /\ ~Reuses(g, carry)
    <3>1. /\ current[g][1] # "noop" /\ Answer(g, s, carry, "active")
          /\ stackCount' = stackCount /\ current' = [current EXCEPT ![g] = s]
      BY <2>4 DEF BelowReal, Save
    <3> HIDE DEF s
    <3> QED
      BY <1>4, <2>1, <3>1
  <2> QED
    BY <1>5, <2>2, <2>3, <2>4
<1> QED
  BY <1>1, <1>2, <1>3, <1>5 DEF Create

\* What an End of g that leaves c active counts for k.
Uncounted(g, c, k, d) ==
  /\ c = Noop(k) => current[g] = Noop(k)
  /\ Innermost(g).span = Noop(k) =>
       /\ d = stackCount[k] - 1
       /\ stackCount[k] # 1 => c = current[g]
       /\ stackCount[k] = 1 => c # Noop(k)
  /\ Innermost(g).span # Noop(k) => d = stackCount[k]

\* An End of goroutine g: c is active then, and cnt counted.
LEMMA PopBalances ==
  ASSUME NoopInv, BalanceInv, NEW g \in Routine, nest[g] # <<>>, PopCall(g), UNCHANGED origin,
         NEW c, current' = [current EXCEPT ![g] = c],
         NEW cnt \in [1..MaxNoop -> Nat], stackCount' = cnt,
         \A k \in 1..MaxNoop : Uncounted(g, c, k, cnt[k])
  PROVE  BalanceInv'
<1> DEFINE n == nest[g]
           m == SubSeq(n, 1, Len(n) - 1)
<1>1. n \in Seq(Frame) /\ n # <<>> /\ Innermost(g) = n[Len(n)]
  BY DEF NoopInv, Innermost
<1>2. nest' = [nest EXCEPT ![g] = m] /\ origin' = [origin EXCEPT ![g] = origin[g]]
  BY DEF PopCall, NoopInv
<1>3. RealsTraced(m)
  <2>1. DOMAIN m = DOMAIN n \ {Len(n)} /\ \A i \in DOMAIN m : m[i] = n[i]
    BY <1>1, PopCalls
  <2>2. RealsTraced(n)
    BY DEF BalanceInv
  <2> HIDE DEF m, n
  <2> QED
    BY <2>1, <2>2 DEF RealsTraced
<1>4. ASSUME NEW k \in 1..MaxNoop PROVE NoopOk(m, c, origin[g], k, cnt[k])
  <2>1. NoopOk(n, current[g], origin[g], k, stackCount[k])
    BY DEF BalanceInv
  <2>2. MayPop(n, current[g], k, stackCount[k], c, cnt[k])
    <3>1. Uncounted(g, c, k, cnt[k])
      OBVIOUS
    <3> QED
      BY <1>1, <3>1 DEF Uncounted, MayPop
  <2> QED
    BY <1>1, <2>1, <2>2, PopNoop
<1>5. ASSUME NEW k \in 1..MaxNoop PROVE ByNoop(m, k) \subseteq ByNoop(n, k)
  <2>1. DOMAIN m = DOMAIN n \ {Len(n)} /\ \A i \in DOMAIN m : m[i] = n[i]
    BY <1>1, PopCalls
  <2> HIDE DEF m, n
  <2> QED
    BY <2>1 DEF ByNoop
<1>6. ASSUME NEW k \in 1..MaxNoop, HoldsIn(m, c, origin[g], k) PROVE Holds(g, k)
  <2>1. c = Noop(k) => current[g] = Noop(k)
    BY DEF Uncounted
  <2> QED
    BY <1>5, <1>6, <2>1 DEF Holds, HoldsIn
<1>7. ASSUME NEW k \in 1..MaxNoop PROVE cnt[k] = stackCount[k] \/ Holds(g, k)
  <2>1. Innermost(g).span = Noop(k) => ByNoop(n, k) # {}
    BY <1>1, PopCalls
  <2> QED
    BY <2>1 DEF Uncounted, Holds, HoldsIn
<1> HIDE DEF m
<1> QED
  BY <1>2, <1>3, <1>4, <1>6, <1>7, BalanceMoves

LEMMA EndsBalance ==
  ASSUME NoopInv, BalanceInv, NEW g \in Routine, EndNoop(g) \/ EndReal(g)
  PROVE  BalanceInv'
<1>0. /\ nest[g] \in Seq(Frame) /\ RoutineOk(nest[g], current[g], origin[g], gls[g])
      /\ current \in [Routine -> AnySpan] /\ stackCount \in [1..MaxNoop -> Nat]
      /\ current[g] # None => gls[g]
  BY DEF NoopInv, BalanceInv, RoutineOk
<1>1. CASE EndNoop(g)
  <2>1. PICK k \in 1..MaxNoop :
          /\ nest[g] # <<>> /\ Innermost(g).span = Noop(k) /\ PopCall(g) /\ UNCHANGED origin
          /\ stackCount' = [stackCount EXCEPT ![k] = @ - 1]
          /\ current' = IF stackCount[k] = 1 /\ gls[g]
                        THEN [current EXCEPT ![g] = None] ELSE current
    BY <1>1 DEF EndNoop
  <2> DEFINE cnt == [stackCount EXCEPT ![k] = stackCount[k] - 1]
             c == IF stackCount[k] = 1 /\ gls[g] THEN None ELSE current[g]
  <2>2. stackCount[k] \in Nat \ {0}
    <3>1. Innermost(g) = nest[g][Len(nest[g])]
      BY DEF Innermost
    <3>2. ByNoop(nest[g], k) # {}
      BY <1>0, <2>1, <3>1, PopCalls
    <3>3. stackCount[k] = Cardinality(ByNoop(nest[g], k))
      BY <3>2 DEF BalanceInv, NoopOk
    <3> QED
      BY <1>0, <3>2, <3>3, FewCalls
  <2>3. cnt \in [1..MaxNoop -> Nat] /\ stackCount' = cnt
    BY <1>0, <2>1, <2>2
  <2>4. current' = [current EXCEPT ![g] = c]
    BY <1>0, <2>1
  <2>5. ASSUME NEW j \in 1..MaxNoop
        PROVE  Uncounted(g, c, j, cnt[j])
    BY <1>0, <2>1, NoopNumbers DEF Uncounted
  <2> HIDE DEF cnt, c
  <2> QED
    BY <2>1, <2>3, <2>4, <2>5, PopBalances
<1>2. CASE EndReal(g)
  <2> DEFINE L == Len(nest[g])
             c == nest[g][nest[g][L].span[2]].under
  <2>1. /\ nest[g] # <<>> /\ nest[g][L].span[1] = "real" /\ Innermost(g) = nest[g][L]
        /\ PopCall(g) /\ UNCHANGED <<origin, stackCount>>
        /\ current' = [current EXCEPT ![g] = c]
    BY <1>2 DEF EndReal, Innermost
  <2>2. L \in 1..L
    BY <1>0, <2>1
  <2>3. /\ nest[g][L].span[2] \in 1..L
        /\ nest[g][nest[g][L].span[2]].span[1] = "real"
    BY <1>0, <2>1, <2>2 DEF RoutineOk, RealOk
  <2>4. c[1] # "noop"
    <3>1. nest[g][L].span[2] \in DOMAIN nest[g]
      BY <1>0, <2>3
    <3> QED
      BY <2>3, <3>1 DEF BalanceInv, RealsTraced
  <2>5. \A k \in 1..MaxNoop : Uncounted(g, c, k, stackCount[k])
    BY <2>1, <2>4, NoopNumbers DEF Uncounted
  <2> HIDE DEF c, L
  <2> QED
    BY <1>0, <2>1, <2>5, PopBalances
<1> QED
  BY <1>1, <1>2

\* What a context that starts with s counts for k.
CountsNone(s, k, d) == /\ s = Noop(k) => ~InUse(k) /\ d = 0
                       /\ s # Noop(k) => d = stackCount[k]

\* A goroutine h with no call open is given context s: none, a snapshot, or a
\* noop nobody has.
LEMMA EmptyBalances ==
  ASSUME NoopInv, BalanceInv, NEW h \in Routine, nest[h] = <<>>, UNCHANGED nest,
         NEW s, current' = [current EXCEPT ![h] = s], origin' = [origin EXCEPT ![h] = s],
         NEW cnt \in [1..MaxNoop -> Nat], stackCount' = cnt,
         \A k \in 1..MaxNoop : CountsNone(s, k, cnt[k])
  PROVE  BalanceInv'
<1>1. nest' = [nest EXCEPT ![h] = <<>>]
  BY DEF NoopInv
<1>2. DOMAIN <<>> = {} /\ RealsTraced(<<>>) /\ \A k : ByNoop(<<>>, k) = {}
  BY DEF RealsTraced, ByNoop
<1>3. ASSUME NEW k \in 1..MaxNoop PROVE NoopOk(<<>>, s, s, k, cnt[k])
  BY <1>2, FS_EmptySet DEF CountsNone, NoopOk
<1>4. ASSUME NEW k \in 1..MaxNoop, HoldsIn(<<>>, s, s, k) PROVE ~InUse(k)
  BY <1>2, <1>4 DEF CountsNone, HoldsIn
<1>5. ASSUME NEW k \in 1..MaxNoop PROVE cnt[k] = stackCount[k] \/ ~InUse(k)
  BY DEF CountsNone
<1> QED
  BY <1>1, <1>2, <1>3, <1>4, <1>5, BalanceMoves

LEMMA GoesBalance ==
  ASSUME NoopInv, BalanceInv, NEW g \in Routine, NEW h \in Routine, GoStatement(g, h)
  PROVE  BalanceInv'
<1>0. current[g] \in AnySpan /\ stackCount \in [1..MaxNoop -> Nat]
  BY DEF NoopInv, BalanceInv
<1>1. nest[h] = <<>> /\ UNCHANGED nest
  BY DEF GoStatement
<1>2. CASE current[g][1] \in {"none", "real", "snapshot"}
  <2>1. PICK s \in {None, Snapshot} : /\ current' = [current EXCEPT ![h] = s]
                                      /\ origin' = [origin EXCEPT ![h] = s]
                                      /\ stackCount' = stackCount
    BY <1>2 DEF GoStatement
  <2>2. \A k \in 1..MaxNoop : CountsNone(s, k, stackCount[k])
    BY NoopNumbers DEF CountsNone
  <2> QED
    BY <1>0, <1>1, <2>1, <2>2, EmptyBalances
<1>3. CASE current[g][1] = "noop"
  <2>1. PICK k \in 1..MaxNoop : /\ ~InUse(k)
                                /\ current' = [current EXCEPT ![h] = Noop(k)]
                                /\ origin' = [origin EXCEPT ![h] = Noop(k)]
                                /\ stackCount' = [stackCount EXCEPT ![k] = 0]
    BY <1>3 DEF GoStatement, Fresh
  <2> DEFINE cnt == [stackCount EXCEPT ![k] = 0]
  <2>2. cnt \in [1..MaxNoop -> Nat] /\ stackCount' = cnt
    BY <1>0, <2>1
  <2>3. ASSUME NEW j \in 1..MaxNoop
        PROVE  CountsNone(Noop(k), j, cnt[j])
    BY <1>0, <2>1, NoopNumbers DEF CountsNone
  <2> HIDE DEF cnt
  <2> QED
    BY <1>1, <2>1, <2>2, <2>3, EmptyBalances
<1> QED
  BY <1>0, <1>2, <1>3, Spans

LEMMA BalanceSafe == NoopSpec => [](NoopInv /\ BalanceInv)
<1>1. NoopInit => BalanceInv
  <2> SUFFICES ASSUME NoopInit PROVE BalanceInv
    OBVIOUS
  <2>1. DOMAIN <<>> = {} /\ RealsTraced(<<>>) /\ \A k : ByNoop(<<>>, k) = {}
    BY DEF RealsTraced, ByNoop
  <2>2. \A k : NoopOk(<<>>, None, None, k, 0) /\ ~HoldsIn(<<>>, None, None, k)
    BY <2>1, NoopNumbers DEF NoopOk, HoldsIn
  <2> QED
    BY <2>1, <2>2 DEF NoopInit, BalanceInv, Holds
<1>2. NoopInv /\ BalanceInv /\ [NoopNext]_noopVars => BalanceInv'
  <2> SUFFICES ASSUME NoopInv, BalanceInv, [NoopNext]_noopVars PROVE BalanceInv'
    OBVIOUS
  <2>1. CASE UNCHANGED routineVars
    BY <2>1 DEF routineVars, BalanceInv, Holds
  <2>2. ASSUME NEW g \in Routine, Clean(g) PROVE BalanceInv'
    <3>1. /\ nest[g] = <<>> /\ UNCHANGED <<nest, stackCount>>
          /\ current' = [current EXCEPT ![g] = None]
          /\ origin' = [origin EXCEPT ![g] = None]
      BY <2>2 DEF Clean
    <3>2. /\ stackCount \in [1..MaxNoop -> Nat]
          /\ \A k \in 1..MaxNoop : CountsNone(None, k, stackCount[k])
      BY NoopNumbers DEF BalanceInv, CountsNone
    <3> QED
      BY <3>1, <3>2, EmptyBalances
  <2>3. ASSUME NEW g \in Routine, RoutineStep(g) PROVE BalanceInv'
    <3>1. CASE SetRuntimeContextValue(g)
      BY <3>1 DEF SetRuntimeContextValue, BalanceInv, Holds
    <3> QED
      BY <2>2, <2>3, <3>1, CreatesBalance, EndsBalance, GoesBalance DEF RoutineStep
  <2> QED
    BY <2>1, <2>3 DEF NoopNext, ReadyChanges, noopVars, routineVars
<1> QED
  BY <1>1, <1>2, NoopSafe, PTL DEF NoopSpec

\* A context holds spans, and a count never goes below 0: an End that found a
\* count of 0 would make it -1.
THEOREM NoopTypeCorrect == NoopSpec => []NoopTypeOK
<1>1. NoopInv /\ BalanceInv => NoopTypeOK
  BY DEF NoopInv, BalanceInv, NoopTypeOK, Frame
<1> QED
  BY <1>1, BalanceSafe, PTL

\* Every noop counts the calls it answered, on one goroutine, and is active
\* until the outermost of them has ended and no longer, for any number of
\* goroutines, noops and calls.
THEOREM NoopsAreBalanced == NoopSpec => []NoopBalanced
<1>1. NoopInv /\ BalanceInv => NoopBalanced
  <2> SUFFICES ASSUME NoopInv, BalanceInv, NEW k \in 1..MaxNoop, NEW g \in Routine
               PROVE  /\ NoopCalls(g, k) # {} =>
                           /\ stackCount[k] = Cardinality(NoopCalls(g, k))
                           /\ \A h \in Routine \ {g} :
                                current[h] # Noop(k) /\ NoopCalls(h, k) = {}
                           /\ \A i \in NoopCalls(g, k) :
                                nest[g][i].by \in {"sampler", "active"} =>
                                  \A j \in Calls(g) : j > i => j \in NoopCalls(g, k)
                      /\ current[g] = Noop(k) /\ NoopCalls(g, k) = {} => current[g] = origin[g]
    BY DEF NoopBalanced
  <2>1. \A h \in Routine : NoopCalls(h, k) = ByNoop(nest[h], k) /\ Calls(h) = DOMAIN nest[h]
    BY DEF NoopCalls, ByNoop, Calls
  <2>2. NoopOk(nest[g], current[g], origin[g], k, stackCount[k])
    BY DEF BalanceInv
  <2>3. ASSUME NEW h \in Routine \ {g}, ByNoop(nest[g], k) # {}
        PROVE  current[h] # Noop(k) /\ ByNoop(nest[h], k) = {}
    <3>1. Holds(g, k) /\ ~Holds(h, k)
      BY <2>3 DEF BalanceInv, Holds, HoldsIn
    <3> QED
      BY <3>1 DEF Holds, HoldsIn
  <2> QED
    BY <2>1, <2>2, <2>3 DEF NoopOk
<1> QED
  BY <1>1, BalanceSafe, PTL
=============================================================================

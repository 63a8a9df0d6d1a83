------------------------------ MODULE NoopSpans ------------------------------
(***************************************************************************)
(* Which spans are traced (tracing.go: createNoop, createSpan0;            *)
(* span_noop.go; sampler.go; tracer_ignore.go).  The first span on a       *)
(* goroutine decides: without a context on the goroutine the state of the  *)
(* tracer, the connection and the name of the operation are looked at,     *)
(* with nothing active the sampler is asked, and below a noop or a real    *)
(* span neither.  A noop counts the Create calls it answered and leaves    *)
(* the context when all of them have ended.  go statements copy the        *)
(* context (instrument/runtime); a noop is copied as a fresh one that      *)
(* counts nothing.                                                         *)
(*                                                                         *)
(* What a real span is made of is in TracingContext; here it is the number *)
(* of the frame that created it.  Contexts handed over with CaptureContext *)
(* and asynchronous spans are left to that module.                         *)
(***************************************************************************)
EXTENDS Naturals, Sequences, FiniteSets

CONSTANTS Routine,   \* goroutines of the program
          Carry,     \* the spans asked for: "entry", "forced entry", one that
                     \* carries the context of an upstream, or "local"
          MaxNest,   \* bound: Create calls open on a goroutine
          MaxNoop    \* bound: noop spans in use

ASSUME NoopAssumption ==
  /\ Carry \subseteq {"entry", "forced entry", "local"}
  /\ MaxNest \in Nat /\ MaxNoop \in Nat \ {0}

VARIABLES
  ready,      \* InitSuccess, and Reporter.ConnectionStatus is not Disconnect
  gls,        \* the goroutine has a TracingContext
  current,    \* its activeSpan
  origin,     \* the activeSpan it started with
  nest,       \* its Create calls that have not ended, innermost last
  stackCount  \* of each noop span

routineVars == <<gls, current, origin, nest, stackCount>>
noopVars    == <<ready, routineVars>>

\* A span as a context holds it.  A snapshot is one of a real span.
None     == <<"none", 0>>
Noop(n)  == <<"noop", n>>
Real(i)  == <<"real", i>>
Snapshot == <<"snapshot", 0>>

Calls(g)  == DOMAIN nest[g]
Innermost(g) == nest[g][Len(nest[g])]
\* What the frames of goroutine g answered with noop n have in common.
NoopCalls(g, n) == {i \in Calls(g) : nest[g][i].span = Noop(n)}
InUse(n) == \E g \in Routine : Noop(n) \in {current[g], origin[g]} \/ NoopCalls(g, n) # {}
Fresh(n) == n \in 1..MaxNoop /\ ~InUse(n) /\ \A k \in 1..(n - 1) : InUse(k)

NoopInit ==
  /\ ready = FALSE
  /\ gls = [g \in Routine |-> FALSE]
  /\ current = [g \in Routine |-> None]
  /\ origin = [g \in Routine |-> None]
  /\ nest = [g \in Routine |-> <<>>]
  /\ stackCount = [n \in 1..MaxNoop |-> 0]
-----------------------------------------------------------------------------
(* CreateEntrySpan, CreateLocalSpan, CreateExitSpan *)

\* The call is answered with span s; by says what decided.  What it carried
\* matters no more when no sampler was asked and no real span made.
Answer(g, s, carry, by) ==
  /\ Len(nest[g]) < MaxNest
  /\ nest' = [nest EXCEPT ![g] = Append(@, [span |-> s, carry |-> carry, by |-> by, under |-> current[g]])]
  /\ UNCHANGED <<ready, origin>>

\* saveSpanToActiveIfNotError
Save(g, s) ==
  /\ current' = [current EXCEPT ![g] = s]
  /\ gls' = [gls EXCEPT ![g] = TRUE]

\* Mutant of BelowNoop: the call is not counted.
BelowNoopUncounted(g) ==
  \E n \in 1..MaxNoop :
    /\ gls[g] /\ current[g] = Noop(n)
    /\ Answer(g, Noop(n), "any", "active")
    /\ UNCHANGED <<gls, current, stackCount>>

\* createNoop with a noop active: enterNoSpan
BelowNoop(g) ==
  \E n \in 1..MaxNoop :
    /\ gls[g] /\ current[g] = Noop(n)
    /\ Answer(g, Noop(n), "any", "active")
    /\ stackCount' = [stackCount EXCEPT ![n] = @ + 1]
    /\ UNCHANGED <<gls, current>>

\* The first call on a goroutine, when the tracer is not ready or the name is
\* one to ignore, which any may be: the noop is given to the caller and not
\* kept in a context.
NotTraced(g) ==
  \E n \in 1..MaxNoop :
    /\ ~gls[g]
    /\ Fresh(n)
    /\ Answer(g, Noop(n), "any", IF ready THEN "ignored" ELSE "tracer")
    /\ stackCount' = [stackCount EXCEPT ![n] = 1]
    /\ UNCHANGED <<gls, current>>

\* createNoop lets the call through to the sampler: nothing is active, and
\* without a context the tracer is ready.
AsksSampler(g) ==
  /\ current[g] = None
  /\ gls[g] \/ ready

\* createSpan0 asks before it applies the options, so that Refs is empty still
\* and the name too.
SampledOut(g, carry) ==
  \E n \in 1..MaxNoop :
    /\ AsksSampler(g)
    /\ Fresh(n)
    /\ Answer(g, Noop(n), carry, "sampler")
    /\ stackCount' = [stackCount EXCEPT ![n] = 1]
    /\ Save(g, Noop(n))

SampledIn(g, carry) ==
  /\ AsksSampler(g)
  /\ Answer(g, Real(Len(nest[g]) + 1), carry, "sampler")
  /\ Save(g, Real(Len(nest[g]) + 1))
  /\ UNCHANGED stackCount

\* An entry span that is active is used again (TracingContext, CreateReused);
\* exit spans are as entry spans.
Reuses(g, carry) == current[g][1] = "real" /\ carry # "local"
                    /\ nest[g][current[g][2]].carry # "local"

BelowReal(g, carry) ==
  /\ current[g][1] \in {"real", "snapshot"}
  /\ IF Reuses(g, carry)
     THEN /\ Answer(g, current[g], carry, "active")
          /\ UNCHANGED <<gls, current>>
     ELSE /\ Answer(g, Real(Len(nest[g]) + 1), carry, "active")
          /\ Save(g, Real(Len(nest[g]) + 1))
  /\ UNCHANGED stackCount

Create(g) == BelowNoop(g) \/ NotTraced(g) \/ \E carry \in Carry :
               SampledOut(g, carry) \/ SampledIn(g, carry) \/ BelowReal(g, carry)
-----------------------------------------------------------------------------
(* End *)

PopCall(g) == nest' = [nest EXCEPT ![g] = SubSeq(@, 1, Len(@) - 1)]

EndNoop(g) ==
  \E n \in 1..MaxNoop :
    /\ nest[g] # <<>> /\ Innermost(g).span = Noop(n)
    /\ stackCount' = [stackCount EXCEPT ![n] = @ - 1]
    /\ current' = IF stackCount[n] = 1 /\ gls[g]
                  THEN [current EXCEPT ![g] = None] ELSE current
    /\ PopCall(g)
    /\ UNCHANGED <<ready, gls, origin>>

\* Mutant of EndReal: the End of the last owner leaves nothing active.
EndRealClears(g) ==
  /\ nest[g] # <<>> /\ Innermost(g).span[1] = "real"
  /\ current' = [current EXCEPT ![g] = None]
  /\ PopCall(g)
  /\ UNCHANGED <<ready, gls, origin, stackCount>>

\* Parent becomes active, also when other owners of the span are left.
EndReal(g) ==
  /\ nest[g] # <<>> /\ Innermost(g).span[1] = "real"
  /\ current' = [current EXCEPT ![g] = nest[g][Innermost(g).span[2]].under]
  /\ PopCall(g)
  /\ UNCHANGED <<ready, gls, origin, stackCount>>
-----------------------------------------------------------------------------
(* Goroutines *)

\* go f() in goroutine g: goroutineChange and TakeSnapShot; h is a goroutine
\* that has nothing open, that is a new one.
GoStatement(g, h) ==
  /\ g # h /\ nest[h] = <<>>
  /\ gls' = [gls EXCEPT ![h] = gls[g]]
  /\ LET take(s) == /\ current' = [current EXCEPT ![h] = s]
                    /\ origin' = [origin EXCEPT ![h] = s]
     IN  CASE current[g][1] = "none" -> take(None) /\ UNCHANGED stackCount
           [] current[g][1] \in {"real", "snapshot"} -> take(Snapshot) /\ UNCHANGED stackCount
           [] current[g][1] = "noop" ->
                \E n \in 1..MaxNoop : /\ Fresh(n)
                                      /\ take(Noop(n))
                                      /\ stackCount' = [stackCount EXCEPT ![n] = 0]
  /\ UNCHANGED <<ready, nest>>

\* CleanContext, between two requests
Clean(h) ==
  /\ nest[h] = <<>> /\ gls[h]
  /\ gls' = [gls EXCEPT ![h] = FALSE]
  /\ current' = [current EXCEPT ![h] = None]
  /\ origin' = [origin EXCEPT ![h] = None]
  /\ UNCHANGED <<ready, nest, stackCount>>

\* SetRuntimeContextValue gives the goroutine a context, and with it the right to
\* ask the sampler, whatever the tracer and the name of the operation say.
SetRuntimeContextValue(g) ==
  /\ ~gls[g]
  /\ gls' = [gls EXCEPT ![g] = TRUE]
  /\ UNCHANGED <<ready, current, origin, nest, stackCount>>

\* Tracer.Init is done, the connection is lost or restored
ReadyChanges ==
  /\ ready' = ~ready
  /\ UNCHANGED routineVars

RoutineStep(g) ==
  \/ Create(g) \/ EndNoop(g) \/ EndReal(g) \/ Clean(g) \/ SetRuntimeContextValue(g)
  \/ \E h \in Routine : GoStatement(g, h)

NoopNext == ReadyChanges \/ \E g \in Routine : RoutineStep(g)

NoopSpec == NoopInit /\ [][NoopNext]_noopVars
-----------------------------------------------------------------------------
AnySpan == {None, Snapshot} \cup ({"noop"} \X (1..MaxNoop)) \cup ({"real"} \X Nat)

NoopTypeOK ==
  /\ ready \in BOOLEAN /\ gls \in [Routine -> BOOLEAN]
  /\ current \in [Routine -> AnySpan] /\ origin \in [Routine -> AnySpan]
  /\ nest \in [Routine -> Seq([span : AnySpan, carry : Carry \cup {"any"}, under : AnySpan,
                               by : {"active", "tracer", "ignored", "sampler"}])]
  /\ stackCount \in [(1..MaxNoop) -> Nat]

\* A noop span is on one goroutine, counts the calls it answered there, and
\* leaves the context with the last of them: what the sampler, or the state a
\* goroutine was started in, left out stays out until its outermost call ends,
\* and never lasts into the next request (span_noop.go:105-113,
\* tracing.go:320-324).  A copy that has answered nothing yet may be active.
NoopBalanced ==
  \A n \in 1..MaxNoop, g \in Routine :
    /\ NoopCalls(g, n) # {} =>
         /\ stackCount[n] = Cardinality(NoopCalls(g, n))
         /\ \A h \in Routine \ {g} : current[h] # Noop(n) /\ NoopCalls(h, n) = {}
         /\ \A i \in NoopCalls(g, n) : nest[g][i].by \in {"sampler", "active"} =>
              \A j \in Calls(g) : j > i => j \in NoopCalls(g, n)
    /\ current[g] = Noop(n) /\ NoopCalls(g, n) = {} => current[g] = origin[g]

\* A goroutine started inside a traced span traces everything it does, whatever
\* the sampler, the connection and the names of its operations say by then: the
\* snapshot is active again after each of its spans (span_tracing.go:432-467).
TracedStaysTraced ==
  \A g \in Routine : origin[g] = Snapshot =>
    \A i \in Calls(g) : nest[g][i].span[1] = "real"

\* The sampler is asked only when the caller brings no context of an upstream
\* that sampled ("Try to sample when it is not force sample", tracing.go:350).
ForcedIsTraced ==
  \A g \in Routine : \A i \in Calls(g) :
    nest[g][i].by = "sampler" /\ nest[g][i].carry = "forced entry" =>
      nest[g][i].span[1] = "real"
=============================================================================

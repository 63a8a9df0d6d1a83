----------------------------- MODULE MeterRegistry -----------------------------
(***************************************************************************)
(* Counters from their registration to the reporter (core/metrics.go,      *)
(* core/metrics/, and the functions that tools/go-agent adds to the Go     *)
(* runtime, instrument/runtime/instrument.go).  A counter made before the  *)
(* global operator is set counts on its own and is appended to a list in   *)
(* the runtime; the collect goroutine takes the list, gives every counter  *)
(* in it a successor that counts atomically, and reports all meters.       *)
(*                                                                         *)
(* The list is guarded by a number, not by a lock: a compare-and-swap that *)
(* adds one lets the appender in, and the next one too; reading and        *)
(* writing the list are steps of their own.  Meters have distinct names,   *)
(* hence distinct keys in the registry.                                    *)
(***************************************************************************)
EXTENDS Naturals, Sequences

CONSTANTS Meter,   \* counters of the program
          Caller,  \* goroutines that increment them
          MaxInc   \* bound: increments of each counter

ASSUME MeterAssumption == Meter # {} /\ MaxInc \in [Meter -> Nat]

VARIABLES
  operatorSet,  \* GetOperator is not nil
  locker,       \* _metricsRegisterLocker
  registers,    \* the list in the runtime
  reg,          \* how far the registration of each counter is
  copied,       \* the list as its appender read it
  collect,      \* the collect goroutine
  batch,        \* what Obtain gave it, still to be handed over
  val,          \* counts of the counters of core/metrics
  successor,    \* counts of their successors, from the value at hand-over
  made,         \* count of the successor being handed over
  added,        \* addFunc and getFunc are the successor's
  meterMap,     \* the registry
  inc,          \* each caller: where it is in Inc, of which counter, and what it read
  begun,        \* history: calls of Inc
  overlapping,  \* history: registrations that overlapped another, or Obtain
  raced,        \* history: counters with an Inc that overlapped another before the
                \* hand-over, or the hand-over
  shown         \* history: counters given to the reporter

listVars  == <<locker, registers, copied, overlapping>>
countVars == <<val, successor, made, added, begun, raced>>
meterVars == <<operatorSet, listVars, reg, collect, batch, countVars, meterMap, inc, shown>>

Appending == {m \in Meter : reg[m] \in {"claimed", "loaded"}}
\* calls of Inc under way on counter m
Pending(m) == {k \in Caller : inc[k].pc # "idle" /\ inc[k].meter = m}
Quiet == [pc |-> "idle", meter |-> CHOOSE m \in Meter : TRUE, old |-> 0]

MeterInit ==
  /\ operatorSet = FALSE
  /\ locker = 0 /\ registers = <<>>
  /\ reg = [m \in Meter |-> "none"]
  /\ copied = [m \in Meter |-> <<>>]
  /\ collect = "off" /\ batch = <<>>
  /\ val = [m \in Meter |-> 0] /\ successor = [m \in Meter |-> 0] /\ made = 0
  /\ added = [m \in Meter |-> FALSE]
  /\ meterMap = {}
  /\ inc = [k \in Caller |-> Quiet]
  /\ begun = [m \in Meter |-> 0]
  /\ overlapping = {} /\ raced = {} /\ shown = {}
-----------------------------------------------------------------------------
(* NewCounter *)

\* With an operator: Tracer.NewCounter stores it at once.
RegisterDirectly(m) ==
  /\ reg[m] = "none" /\ operatorSet
  /\ reg' = [reg EXCEPT ![m] = "registered"]
  /\ added' = [added EXCEPT ![m] = TRUE]
  /\ meterMap' = meterMap \cup {m}
  /\ UNCHANGED <<operatorSet, listVars, collect, batch, val, successor, made, begun, raced, inc, shown>>

\* Without: newDefaultCounter, and then MetricsAppender, ...
NewDefaultCounter(m) ==
  /\ reg[m] = "none" /\ ~operatorSet
  /\ reg' = [reg EXCEPT ![m] = "default"]
  /\ UNCHANGED <<operatorSet, listVars, collect, batch, countVars, meterMap, inc, shown>>

\* ... the compare-and-swap, ...
ClaimAppend(m) ==
  /\ reg[m] = "default"
  /\ locker' = locker + 1
  /\ overlapping' = IF Appending # {} THEN overlapping \cup Appending \cup {m}
                    ELSE IF collect \in {"taking", "resetting"} THEN overlapping \cup {m}
                    ELSE overlapping
  /\ reg' = [reg EXCEPT ![m] = "claimed"]
  /\ UNCHANGED <<operatorSet, registers, copied, collect, batch, countVars, meterMap, inc, shown>>

\* ... append reads the list ...
LoadRegisters(m) ==
  /\ reg[m] = "claimed"
  /\ copied' = [copied EXCEPT ![m] = registers]
  /\ reg' = [reg EXCEPT ![m] = "loaded"]
  /\ UNCHANGED <<operatorSet, locker, registers, overlapping, collect, batch, countVars,
                 meterMap, inc, shown>>

\* ... and the longer one is stored.
StoreRegisters(m) ==
  /\ reg[m] = "loaded"
  /\ registers' = Append(copied[m], m)
  /\ copied' = [copied EXCEPT ![m] = <<>>]
  /\ reg' = [reg EXCEPT ![m] = "registered"]
  /\ UNCHANGED <<operatorSet, locker, overlapping, collect, batch, countVars, meterMap, inc, shown>>

Registration(m) == ClaimAppend(m) \/ LoadRegisters(m) \/ StoreRegisters(m)
-----------------------------------------------------------------------------
(* Inc *)

\* Inc calls the addFunc it finds.
IncBegins(k, m) ==
  /\ inc[k].pc = "idle" /\ reg[m] # "none" /\ begun[m] < MaxInc[m]
  /\ begun' = [begun EXCEPT ![m] = @ + 1]
  /\ inc' = [inc EXCEPT ![k] = [pc |-> IF added[m] THEN "add" ELSE "read", meter |-> m, old |-> 0]]
  /\ raced' = IF \/ \E j \in Pending(m) : ~added[m]
                 \/ collect = "handed" /\ Head(batch) = m
              THEN raced \cup {m} ELSE raced
  /\ UNCHANGED <<operatorSet, listVars, reg, collect, batch, val, successor, made, added, meterMap, shown>>

\* atomic.AddUint64 of the successor it found
IncAdds(k) ==
  /\ inc[k].pc \in {"add", "stray"}
  /\ successor' = IF inc[k].pc = "stray" THEN successor
                  ELSE [successor EXCEPT ![inc[k].meter] = @ + 1]
  /\ inc' = [inc EXCEPT ![k] = Quiet]
  /\ UNCHANGED <<operatorSet, listVars, reg, collect, batch, val, made, added, begun, raced, meterMap, shown>>

\* result.val += f is a read and a write
IncReads(k) ==
  /\ inc[k].pc = "read"
  /\ inc' = [inc EXCEPT ![k].pc = "write", ![k].old = val[inc[k].meter]]
  /\ UNCHANGED <<operatorSet, listVars, reg, collect, batch, countVars, meterMap, shown>>

IncWrites(k) ==
  /\ inc[k].pc = "write"
  /\ val' = [val EXCEPT ![inc[k].meter] = inc[k].old + 1]
  /\ inc' = [inc EXCEPT ![k] = Quiet]
  /\ UNCHANGED <<operatorSet, listVars, reg, collect, batch, successor, made, added, begun, raced, meterMap, shown>>

IncStep(k) == IncAdds(k) \/ IncReads(k) \/ IncWrites(k)
-----------------------------------------------------------------------------
(* The collect goroutine *)

\* the core's init sets the operator, InitTracer starts the collection later
SetOperator ==
  /\ ~operatorSet
  /\ operatorSet' = TRUE
  /\ UNCHANGED <<listVars, reg, collect, batch, countVars, meterMap, inc, shown>>

StartCollect ==
  /\ operatorSet /\ collect = "off"
  /\ collect' = "sleep"
  /\ UNCHANGED <<operatorSet, listVars, reg, batch, countVars, meterMap, inc, shown>>

\* MetricsObtain: nothing to take, or the number goes back to zero ...
Obtain ==
  /\ collect = "sleep"
  /\ locker' = 0
  /\ IF locker = 0
     THEN /\ collect' = "send"
          /\ UNCHANGED overlapping
     ELSE /\ collect' = "taking"
          /\ overlapping' = overlapping \cup Appending
  /\ UNCHANGED <<operatorSet, registers, copied, reg, batch, countVars, meterMap, inc, shown>>

\* ... and the list is read ...
TakeRegisters ==
  /\ collect = "taking"
  /\ batch' = registers
  /\ collect' = "resetting"
  /\ UNCHANGED <<operatorSet, listVars, reg, countVars, meterMap, inc, shown>>

\* ... and emptied.
ResetRegisters ==
  /\ collect = "resetting"
  /\ registers' = <<>>
  /\ collect' = "handing"
  /\ UNCHANGED <<operatorSet, locker, copied, overlapping, reg, batch, countVars, meterMap, inc, shown>>

\* Mutant of NewSuccessor: the successor counts from zero.
NewSuccessorAtZero ==
  /\ collect = "handing" /\ batch # <<>>
  /\ LET m == Head(batch) IN
     /\ made' = 0
     /\ raced' = IF Pending(m) # {} THEN raced \cup {m} ELSE raced
  /\ collect' = "handed"
  /\ UNCHANGED <<operatorSet, listVars, reg, batch, val, successor, added, begun, meterMap, inc, shown>>

\* reachNotInitMetrics, for each in turn: newCounter with m.Get().  A counter
\* can come a second time: an appender that read the list before it was
\* emptied stores it again.
NewSuccessor ==
  /\ collect = "handing" /\ batch # <<>>
  /\ LET m == Head(batch) IN
     /\ made' = IF added[m] THEN successor[m] ELSE val[m]
     /\ raced' = IF Pending(m) # {} THEN raced \cup {m} ELSE raced
  /\ collect' = "handed"
  /\ UNCHANGED <<operatorSet, listVars, reg, batch, val, successor, added, begun, meterMap, inc, shown>>

\* ... ChangeFunctions; a call that has found the functions of before counts
\* for a counter that nobody reports, ...
ChangeFunctions ==
  /\ collect = "handed"
  /\ LET m == Head(batch) IN
     /\ added' = [added EXCEPT ![m] = TRUE]
     /\ successor' = [successor EXCEPT ![m] = made]
     /\ inc' = [k \in Caller |-> IF k \in Pending(m) /\ inc[k].pc = "add"
                                THEN [inc[k] EXCEPT !.pc = "stray"] ELSE inc[k]]
  /\ made' = 0
  /\ collect' = "changed"
  /\ UNCHANGED <<operatorSet, listVars, reg, batch, val, begun, raced, meterMap, shown>>

\* ... registerMetrics.
RegisterMetrics ==
  /\ collect = "changed"
  /\ meterMap' = meterMap \cup {Head(batch)}
  /\ batch' = Tail(batch)
  /\ collect' = "handing"
  /\ UNCHANGED <<operatorSet, listVars, reg, countVars, inc, shown>>

HandedOver ==
  /\ collect = "handing" /\ batch = <<>>
  /\ collect' = "send"
  /\ UNCHANGED <<operatorSet, listVars, reg, batch, countVars, meterMap, inc, shown>>

SendMetrics ==
  /\ collect = "send"
  /\ shown' = shown \cup meterMap
  /\ collect' = "sleep"
  /\ UNCHANGED <<operatorSet, listVars, reg, batch, countVars, meterMap, inc>>

\* Mutant of RoundPanics: the recover is around the loop.
RoundPanicsForGood ==
  /\ collect = "send"
  /\ collect' = "ended"
  /\ UNCHANGED <<operatorSet, listVars, reg, batch, countVars, meterMap, inc, shown>>

\* A hook or a getter of the program panics; the next round is tried.
RoundPanics ==
  /\ collect = "send"
  /\ collect' = "sleep"
  /\ UNCHANGED <<operatorSet, listVars, reg, batch, countVars, meterMap, inc, shown>>

CollectStep ==
  \/ Obtain \/ TakeRegisters \/ ResetRegisters \/ NewSuccessor \/ ChangeFunctions
  \/ RegisterMetrics \/ HandedOver \/ SendMetrics \/ RoundPanics

MeterNext ==
  \/ \E m \in Meter : RegisterDirectly(m) \/ NewDefaultCounter(m) \/ Registration(m)
  \/ \E k \in Caller : IncStep(k) \/ \E m \in Meter : IncBegins(k, m)
  \/ SetOperator \/ StartCollect \/ CollectStep

MeterSpec == MeterInit /\ [][MeterNext]_meterVars

\* The agent is initialised and its goroutine runs, calls under way go on, and
\* not every round panics.
MeterFairness ==
  /\ WF_meterVars(SetOperator) /\ WF_meterVars(StartCollect) /\ WF_meterVars(CollectStep)
  /\ \A m \in Meter : WF_meterVars(Registration(m))
  /\ \A k \in Caller : WF_meterVars(IncStep(k))
  /\ SF_meterVars(SendMetrics)

FairMeterSpec == MeterSpec /\ MeterFairness
-----------------------------------------------------------------------------
MeterTypeOK ==
  /\ operatorSet \in BOOLEAN
  /\ locker \in Nat /\ registers \in Seq(Meter) /\ batch \in Seq(Meter)
  /\ reg \in [Meter -> {"none", "default", "claimed", "loaded", "registered"}]
  /\ copied \in [Meter -> Seq(Meter)]
  /\ collect \in {"off", "sleep", "taking", "resetting", "handing", "handed", "changed", "send"}
  /\ val \in [Meter -> Nat] /\ successor \in [Meter -> Nat] /\ made \in Nat /\ begun \in [Meter -> Nat]
  /\ added \in [Meter -> BOOLEAN]
  /\ meterMap \subseteq Meter /\ shown \subseteq Meter
  /\ overlapping \subseteq Meter /\ raced \subseteq Meter
  /\ inc \in [Caller -> [pc : {"idle", "add", "stray", "read", "write"}, meter : Meter, old : Nat]]

\* A counter in the registry has every increment that was made, but those that
\* overlapped another before the hand-over, or the hand-over itself
\* (metrics.go:70-73, bridge.go:48-50); and never one too many.
CountsAreExact ==
  \A m \in meterMap :
    /\ successor[m] <= begun[m]
    /\ m \notin raced /\ Pending(m) = {} => successor[m] = begun[m]

\* A counter whose registration overlapped no other is reported in the end
\* (toolkit-metric.md: "automatically registered"), whatever other
\* registrations lost theirs, and whatever rounds panicked.
AllShown ==
  \A m \in Meter : reg[m] = "registered" /\ m \notin overlapping => m \in shown

RegisteredIsShown == <>[]AllShown
=============================================================================

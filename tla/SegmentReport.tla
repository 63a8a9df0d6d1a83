--------------------------- MODULE SegmentReport ---------------------------
(***************************************************************************)
(* What the tracer promises of a trace segment, with no word on how it is  *)
(* kept: spans join a segment until its root has sealed it, and a sealed   *)
(* segment whose spans have all ended is published once, whole.            *)
(* SegmentCollector (plugins/core/span_tracing.go) implements it.          *)
(***************************************************************************)
CONSTANTS Span,      \* the spans a program may create
          NoSpan     \* stands for "not in any segment"

VARIABLES member,    \* member[s]: the root of the segment s belongs to
          ended,     \* the spans whose data is final
          sealed,    \* the roots that accept no further member
          published  \* published[r]: the spans handed to the reporter

vars == <<member, ended, sealed, published>>

MembersOf(r) == {s \in Span : member[s] = r}

Init ==
  /\ member = [s \in Span |-> NoSpan]
  /\ ended = {}
  /\ sealed = {}
  /\ published = [s \in Span |-> {}]

\* A span starts a segment of its own.
Begin(r) ==
  /\ member[r] = NoSpan
  /\ member' = [member EXCEPT ![r] = r]
  /\ UNCHANGED <<ended, sealed, published>>

\* A span joins a segment that is not sealed.
Join(s, r) ==
  /\ member[s] = NoSpan
  /\ s # r
  /\ member[r] = r
  /\ r \notin sealed
  /\ member' = [member EXCEPT ![s] = r]
  /\ UNCHANGED <<ended, sealed, published>>

\* The data of a span becomes final.
Finish(s) ==
  /\ member[s] # NoSpan
  /\ s \notin ended
  /\ ended' = ended \cup {s}
  /\ UNCHANGED <<member, sealed, published>>

\* The ended root closes its segment to new members.
Seal(r) ==
  /\ member[r] = r
  /\ r \in ended \ sealed
  /\ sealed' = sealed \cup {r}
  /\ UNCHANGED <<member, ended, published>>

\* The segment is published: every member, each of them final, exactly once.
Publish(r) ==
  /\ r \in sealed
  /\ published[r] = {}
  /\ MembersOf(r) \subseteq ended
  /\ published' = [published EXCEPT ![r] = MembersOf(r)]
  /\ UNCHANGED <<member, ended, sealed>>

Next ==
  \/ \E r \in Span : Begin(r) \/ Seal(r) \/ Publish(r)
  \/ \E s, r \in Span : Join(s, r)
  \/ \E s \in Span : Finish(s)

Spec == Init /\ [][Next]_vars
=============================================================================

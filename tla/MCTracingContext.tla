-------------------------- MODULE MCTracingContext --------------------------
(* Instances of TracingContext for TLC. *)
EXTENDS TracingContext, TLC

Interchangeable == Permutations(Span) \cup Permutations(Goroutine)
=============================================================================

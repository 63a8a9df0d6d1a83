--------------------------- MODULE MCProfileManager ---------------------------
(* Two tasks for TLC: the second may come while the first is still reported. *)
EXTENDS ProfileManager, TLC

CONSTANTS t1, t2

MCTask  == {t1, t2}
MCStart == (t1 :> 0) @@ (t2 :> 1)
=============================================================================

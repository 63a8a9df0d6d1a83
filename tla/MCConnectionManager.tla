------------------------- MODULE MCConnectionManager -------------------------
(* Instances of ConnectionManager for TLC. *)
EXTENDS ConnectionManager, TLC

ConnSymmetry == Permutations(Client) \cup Permutations(Conn)
=============================================================================

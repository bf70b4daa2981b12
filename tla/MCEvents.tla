------------------------------ MODULE MCEvents ------------------------------
(* Instances of AccessBridgeEvents for TLC. *)
EXTENDS AccessBridgeEvents, TLC
Symmetry == Permutations(JVMs) \cup Permutations(ATs)
=============================================================================

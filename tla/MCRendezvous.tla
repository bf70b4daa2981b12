---------------------------- MODULE MCRendezvous ----------------------------
(***************************************************************************)
(* Instances of AccessBridgeRendezvous for TLC.                            *)
(***************************************************************************)
EXTENDS AccessBridgeRendezvous, TLC

\* Members of one side are interchangeable.
Symmetry == Permutations(JVMs) \cup Permutations(ATs)
=============================================================================

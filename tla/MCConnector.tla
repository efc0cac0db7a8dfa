---------------------------- MODULE MCConnector ----------------------------
(* Connector for TLC. *)
EXTENDS Connector, TLC

Symmetry == Permutations(SendHandles) \cup Permutations(Workers)
=============================================================================

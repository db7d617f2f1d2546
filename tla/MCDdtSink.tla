------------------------------ MODULE MCDdtSink ------------------------------
(* Instances of the data sink for TLC. *)
EXTENDS DdtSink, TLC
PeerSymmetry == Permutations(Peers) \cup Permutations(Producers)
=============================================================================

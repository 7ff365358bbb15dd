------------------------------ MODULE MCRteRing ------------------------------
(* Instances of RteRing and of its refinement mapping for TLC. *)
EXTENDS RteRingFifo, FiniteSets, TLC

ThreadSymmetry == Permutations(Producers) \cup Permutations(Consumers)
=============================================================================

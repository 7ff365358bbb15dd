-------------------------- MODULE MCPacketOrdering --------------------------
(* Instances of PacketOrdering for TLC. *)
EXTENDS PacketOrdering

WorkerSymmetry == Permutations(Workers)
=============================================================================

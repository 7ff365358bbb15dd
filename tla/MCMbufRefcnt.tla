---------------------------- MODULE MCMbufRefcnt ----------------------------
(* Instances of MbufRefcnt for TLC. *)
EXTENDS MbufRefcnt, TLC

MbufSymmetry == Permutations(Lcores) \cup Permutations(Mbufs)
=============================================================================

----------------------------- MODULE RteRingFifo -----------------------------
(***************************************************************************)
(* The refinement mapping under which the ring of RteRing implements the   *)
(* bounded FIFO queue of RingFifo.  The mapping reads the ring's memory,   *)
(* so a slot that is overwritten, skipped or read twice is a step the      *)
(* queue does not allow.                                                   *)
(***************************************************************************)
EXTENDS RteRing

(* Published and unclaimed: the slots from cons.head up to prod.tail. *)
InRing ==
  [i \in 1 .. Minus(tail["prod"], head["cons"]) |->
     ring[Slot(Plus(head["cons"], i - 1))]]

(* A consumer's claim: what it copied, then what it has yet to copy. *)
InHand(c) ==
  IF ~Claims(c) THEN <<>>
  ELSE [i \in 1 .. n[c] |->
          IF i <= copied[c] THEN tbl[c][i] ELSE ring[Slot(Plus(old[c], i - 1))]]

Offering == [p \in Producers |-> tbl[p]]
Taken    == [c \in Consumers |-> InHand(c)]

Fifo == INSTANCE RingFifo WITH queue <- InRing, batch <- Offering, hand <- Taken

(* Every behaviour of the ring, step by step as the lcores interleave, is a *)
(* behaviour of the bounded FIFO queue: __rte_ring_do_enqueue and           *)
(* __rte_ring_do_dequeue lose, duplicate, reorder and corrupt nothing.      *)
ImplementsFifo == Fifo!FifoSpec
=============================================================================

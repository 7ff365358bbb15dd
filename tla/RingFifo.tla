------------------------------ MODULE RingFifo ------------------------------
(***************************************************************************)
(* What the ring of src/src/ext/rte_ring.c promises its callers: a bounded *)
(* FIFO queue of object pointers.  The objects of one enqueue call that    *)
(* were accepted enter together, as one block and in table order; a        *)
(* dequeue call takes a block off the front; nothing in the queue or in a  *)
(* consumer's hand ever changes under it, is lost or is delivered twice.   *)
(***************************************************************************)
EXTENDS Naturals, Sequences, FiniteSets

CONSTANTS Producers, Consumers, Capacity

VARIABLES
  queue,    \* objects published and not yet taken
  batch,    \* batch[p]: what producer p is offering in its current call
  hand      \* hand[c]: what consumer c took and still owns the slots of

fifoVars == <<queue, batch, hand>>

(* How many slots the objects in the consumers' hands occupy. *)
InHands == Cardinality(UNION {{c} \X DOMAIN hand[c] : c \in Consumers})

FifoInit ==
  /\ queue = <<>>
  /\ batch = [p \in Producers |-> <<>>]
  /\ hand = [c \in Consumers |-> <<>>]

(* A producer calls enqueue with a table of objects. *)
Offer(p) ==
  /\ batch[p] = <<>>
  /\ batch'[p] # <<>>
  /\ batch' = [batch EXCEPT ![p] = batch'[p]]
  /\ UNCHANGED <<queue, hand>>

(* The call returns k > 0: its first k objects are in the queue. *)
Put(p) ==
  \E k \in 1 .. Len(batch[p]) :
    /\ Len(queue) + InHands + k <= Capacity
    /\ queue' = queue \o SubSeq(batch[p], 1, k)
    /\ batch' = [batch EXCEPT ![p] = <<>>]
    /\ UNCHANGED hand

(* The call returns 0: the objects stay the caller's. *)
Refuse(p) ==
  /\ batch[p] # <<>>
  /\ batch' = [batch EXCEPT ![p] = <<>>]
  /\ UNCHANGED <<queue, hand>>

Take(c) ==
  \E k \in 1 .. Len(queue) :
    /\ hand[c] = <<>>
    /\ hand' = [hand EXCEPT ![c] = SubSeq(queue, 1, k)]
    /\ queue' = SubSeq(queue, k + 1, Len(queue))
    /\ UNCHANGED batch

(* The slots of the objects taken are free again. *)
Release(c) ==
  /\ hand[c] # <<>>
  /\ hand' = [hand EXCEPT ![c] = <<>>]
  /\ UNCHANGED <<queue, batch>>

FifoNext ==
  \/ \E p \in Producers : Offer(p) \/ Put(p) \/ Refuse(p)
  \/ \E c \in Consumers : Take(c) \/ Release(c)

FifoSpec == FifoInit /\ [][FifoNext]_fifoVars
=============================================================================

------------------------------ MODULE TxBuffer ------------------------------
(***************************************************************************)
(* A transmit buffer of one port and queue: rte_eth_tx_buffer and          *)
(* rte_eth_tx_buffer_flush.  The repository has them twice, in C           *)
(* (src/src/ext/rte_ethdev.c) and, for speed, again in Crystal             *)
(* (src/src/dpdk/inlines.cr), which the examples use.  They differ in what *)
(* they pass to the error callback.                                        *)
(*                                                                         *)
(* Packets are numbered in the order in which they are given to the        *)
(* buffer.                                                                 *)
(***************************************************************************)
EXTENDS Integers, FiniteSets

CONSTANTS
  Size,      \* buffer->size
  Crystal,   \* TRUE: the code of inlines.cr, FALSE: the code of rte_ethdev.c
  MaxPkts    \* bound: packets given to the buffer

ASSUME SizeAssumption == Size \in Nat \ {0}
ASSUME CrystalAssumption == Crystal \in BOOLEAN
ASSUME MaxPktsAssumption == MaxPkts \in Nat

VARIABLES
  length,    \* buffer->length
  pkts,      \* buffer->pkts, slots past length included
  userdata,  \* buffer->error_userdata: distance from the counter it was set to point to
  dropped,   \* that counter (port_statistics[port].dropped of l2fwd)
  given,     \* packets given to rte_eth_tx_buffer so far
  wire,      \* packets the driver took
  freed      \* packets the error callback freed

vars == <<length, pkts, userdata, dropped, given, wire, freed>>

Slots == 0 .. (Size - 1)

TypeOK ==
  /\ length \in Nat
  /\ pkts \in [Slots -> Nat]
  /\ userdata \in Nat /\ dropped \in Nat /\ given \in Nat
  /\ wire \subseteq Nat /\ freed \subseteq Nat

(* Zeroed memory, rte_eth_tx_buffer_init and the counting callback.         *)
Init ==
  /\ length = 0
  /\ pkts = [i \in Slots |-> 0]
  /\ userdata = 0 /\ dropped = 0
  /\ given = 0 /\ wire = {} /\ freed = {}

(* rte_eth_tx_burst is external: the driver takes the first sent packets.   *)
rte_eth_tx_burst(slots, sent) == wire' = wire \cup {slots[i] : i \in 0 .. (sent - 1)}

(* rte_eth_tx_buffer_count_callback is external: it frees the packets and   *)
(* adds their number to the 64-bit counter it is given the address of.      *)
(* inlines.cr gives it the address of error_userdata, not its value.        *)
error_callback(slots, from, to) ==
  /\ freed' = freed \cup {slots[i] : i \in from .. (to - 1)}
  /\ userdata' = IF Crystal THEN userdata + (to - from) ELSE userdata
  /\ dropped' = IF Crystal \/ userdata # 0 THEN dropped ELSE dropped + (to - from)

(* rte_eth_tx_buffer_flush, once the buffer is known not to be empty.       *)
FlushOf(slots, to_send) ==
  /\ length' = 0
  /\ \E sent \in 0 .. to_send :
       /\ rte_eth_tx_burst(slots, sent)
       /\ IF sent # to_send
            THEN error_callback(slots, sent, to_send)
            ELSE UNCHANGED <<freed, userdata, dropped>>

rte_eth_tx_buffer_flush ==
  /\ length # 0
  /\ FlushOf(pkts, length)
  /\ UNCHANGED <<pkts, given>>

MutTxBuffer ==
  LET slots == [pkts EXCEPT ![length] = given + 1] IN
  /\ given < MaxPkts
  /\ given' = given + 1
  /\ pkts' = slots
  /\ IF length + 1 <= Size
       THEN length' = length + 1 /\ UNCHANGED <<userdata, dropped, wire, freed>>
       ELSE FlushOf(slots, length + 1)
MutTxBufferDirect ==
  /\ given < MaxPkts
  /\ given' = given + 1
  /\ IF length + 1 < Size
       THEN /\ pkts' = [pkts EXCEPT ![length] = given + 1]
            /\ length' = length + 1 /\ UNCHANGED <<userdata, dropped, wire, freed>>
       ELSE /\ wire' = wire \cup {given + 1}
            /\ UNCHANGED <<length, pkts, userdata, dropped, freed>>
(* The packet is stored first; a full buffer is flushed at once.            *)
rte_eth_tx_buffer ==
  LET slots == [pkts EXCEPT ![length] = given + 1] IN
  /\ given < MaxPkts
  /\ given' = given + 1
  /\ pkts' = slots
  /\ IF length + 1 < Size
       THEN length' = length + 1 /\ UNCHANGED <<userdata, dropped, wire, freed>>
       ELSE FlushOf(slots, length + 1)

Next == rte_eth_tx_buffer \/ rte_eth_tx_buffer_flush

Spec == Init /\ [][Next]_vars

-----------------------------------------------------------------------------
(* Properties *)

(* Between two calls there is room for the next packet, so that the store   *)
(* at pkts[length], made before any test, stays inside the array.           *)
RoomForNext == length < Size

(* The buffer holds exactly the latest packets, in the order given, and     *)
(* every earlier one was either sent or freed, never both and never twice:  *)
(* partial bursts lose and duplicate nothing, and slots past length are     *)
(* never sent.                                                              *)
EachPacketOnce ==
  /\ length <= given
  /\ \A i \in Slots : i < length => pkts[i] = given - length + 1 + i
  /\ wire \cup freed = 1 .. (given - length)
  /\ wire \cap freed = {}

TxBufferInv == TypeOK /\ RoomForNext /\ EachPacketOnce

(* Packets leave the port in the order they were given: one that is sent    *)
(* now is later than all that were sent or freed before.                    *)
SentInOrder ==
  [][\A p \in wire' \ wire : \A q \in wire \cup freed : q < p]_vars

(* The counter registered with the callback is the number of packets that  *)
(* were dropped, as the description of rte_eth_tx_buffer_count_callback     *)
(* says (rte_ethdev.c).                                                    *)
DropsCounted == dropped = Cardinality(freed)
=============================================================================

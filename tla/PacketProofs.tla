---------------------------- MODULE PacketProofs ----------------------------
(* Proofs about packets on their way to a device, and in memory.            *)
(*                                                                         *)
(* A transmit buffer neither loses, duplicates nor reorders packets, for   *)
(* every buffer size and however much of a burst the driver takes; the     *)
(* burst functions of EthDev use it as TxBuffer allows; which packets get  *)
(* through tx_prepare, by what the flags' descriptions demand; and the     *)
(* latency the callbacks of a port add up is that of its packets.          *)
(*                                                                         *)
(* The chains of RteMbuf, for any number of mbufs and data rooms of any    *)
(* size: packets stay well formed, mbufs go back to their pools clean, and *)
(* every count is exact.                                                   *)
EXTENDS EthDev, RteMbuf, FiniteSetTheorems, WellFoundedInduction, TLAPS

(* What counts the dropped packets: in C the counter error_userdata points  *)
(* to; in inlines.cr error_userdata itself, the pointer, while the counter  *)
(* keeps its value.                                                         *)
Counted ==
  /\ ~Crystal => userdata = 0 /\ dropped = Cardinality(freed)
  /\ Crystal => dropped = 0 /\ userdata = Cardinality(freed)

(* The flush of the packets a .. a + n - 1, held in slots 0 .. n - 1: what  *)
(* was sent or freed grows by exactly those, split in two.                  *)
LEMMA FlushSplits ==
  ASSUME NEW slots \in [Slots -> Nat], NEW n \in 1 .. Size, NEW a \in Nat \ {0},
         TypeOK,
         \A i \in Slots : i < n => slots[i] = a + i,
         wire \cup freed = 1 .. (a - 1), wire \cap freed = {},
         FlushOf(slots, n)
  PROVE  /\ wire' \cup freed' = 1 .. (a + n - 1)
         /\ wire' \cap freed' = {}
         /\ wire' \subseteq Nat /\ freed' \subseteq Nat
         /\ userdata' \in Nat /\ dropped' \in Nat /\ length' = 0
         /\ \A p \in wire' \ wire : p >= a
         /\ Counted => Counted'
<1>1. PICK sent \in 0 .. n :
        /\ wire' = wire \cup {slots[i] : i \in 0 .. (sent - 1)}
        /\ IF sent # n THEN error_callback(slots, sent, n)
                       ELSE UNCHANGED <<freed, userdata, dropped>>
  BY DEF FlushOf, rte_eth_tx_burst
<1>2. length' = 0
  BY DEF FlushOf
<1>3. {slots[i] : i \in 0 .. (sent - 1)} = a .. (a + sent - 1)
  <2>1. \A i \in 0 .. (sent - 1) : slots[i] = a + i
    BY <1>1, SizeAssumption DEF Slots
  <2>2. \A p \in a .. (a + sent - 1) : p - a \in 0 .. (sent - 1) /\ slots[p - a] = p
    BY <2>1, <1>1
  <2> QED
    BY <2>1, <2>2, <1>1
<1>4. freed' = freed \cup (a + sent) .. (a + n - 1)
  <2>1. CASE sent = n
    BY <2>1, <1>1 DEF TypeOK
  <2>2. CASE sent # n
    <3>1. freed' = freed \cup {slots[i] : i \in sent .. (n - 1)}
      BY <2>2, <1>1 DEF error_callback
    <3>2. \A i \in sent .. (n - 1) : slots[i] = a + i
      BY <1>1, SizeAssumption DEF Slots
    <3>3. \A p \in (a + sent) .. (a + n - 1) : p - a \in sent .. (n - 1) /\ slots[p - a] = p
      BY <3>2, <1>1
    <3>4. {slots[i] : i \in sent .. (n - 1)} = (a + sent) .. (a + n - 1)
      BY <3>2, <3>3, <1>1
    <3> QED
      BY <3>1, <3>4
  <2> QED
    BY <2>1, <2>2
<1>5. userdata' \in Nat /\ dropped' \in Nat
  <2>1. n - sent \in Nat
    BY <1>1
  <2>2. CASE sent = n
    BY <2>2, <1>1 DEF TypeOK
  <2>3. CASE sent # n
    BY <2>1, <2>3, <1>1 DEF error_callback, TypeOK
  <2> QED
    BY <2>2, <2>3
<1>6. wire' = wire \cup a .. (a + sent - 1)
  BY <1>1, <1>3
<1>7. wire' \cup freed' = 1 .. (a + n - 1)
  <2>1. a .. (a + sent - 1) \cup (a + sent) .. (a + n - 1) = a .. (a + n - 1)
    BY <1>1
  <2>2. 1 .. (a - 1) \cup a .. (a + n - 1) = 1 .. (a + n - 1)
    OBVIOUS
  <2> QED
    BY <1>4, <1>6, <2>1, <2>2
<1>8. wire' \cap freed' = {}
  <2>1. /\ \A p \in wire \cup freed : p \in Nat /\ p < a
        /\ \A p \in a .. (a + sent - 1) : p >= a /\ p < a + sent
        /\ \A p \in (a + sent) .. (a + n - 1) : p >= a + sent
    BY <1>1
  <2> QED
    BY <1>1, <1>4, <1>6, <2>1
<1>9. wire' \subseteq Nat /\ freed' \subseteq Nat /\ \A p \in wire' \ wire : p >= a
  BY <1>1, <1>4, <1>6 DEF TypeOK
<1>10. ASSUME Counted PROVE Counted'
  <2>1. CASE sent = n
    <3>1. UNCHANGED <<freed, userdata, dropped>>
      BY <2>1, <1>1
    <3> QED
      BY <3>1, <1>10 DEF Counted
  <2>2. CASE sent # n
    <3>1. /\ ~Crystal => /\ userdata = 0 /\ dropped = Cardinality(freed)
                         /\ userdata' = 0 /\ dropped' = dropped + (n - sent)
          /\ Crystal => /\ dropped = 0 /\ userdata = Cardinality(freed)
                        /\ dropped' = 0 /\ userdata' = userdata + (n - sent)
      BY <2>2, <1>1, <1>10 DEF error_callback, Counted
    <3>2. IsFiniteSet(1 .. (a - 1)) /\ freed \in SUBSET (1 .. (a - 1))
      BY FS_Interval
    <3>3. IsFiniteSet(freed) /\ Cardinality(freed) \in Nat
      BY <3>2, FS_Subset, FS_CardinalityType
    <3> DEFINE new == (a + sent) .. (a + n - 1)
    <3>4. IsFiniteSet(new) /\ Cardinality(new) = n - sent
      <4>1. a + sent \in Int /\ a + n - 1 \in Int /\ ~(a + sent > a + n - 1)
        BY <2>2, <1>1
      <4>2. (a + n - 1) - (a + sent) + 1 = n - sent
        BY <1>1
      <4> QED
        BY <4>1, <4>2, FS_Interval
    <3>5. freed \cap new = {}
      BY <1>1, <3>2
    <3>6. freed' = freed \cup new
      BY <1>4
    <3> HIDE DEF new
    <3>7. Cardinality(freed') = Cardinality(freed) + Cardinality(new) - 0
      <4>1. Cardinality(freed \cap new) = 0
        BY <3>5, FS_EmptySet
      <4>2. Cardinality(freed \cup new) = Cardinality(freed) + Cardinality(new) - Cardinality(freed \cap new)
        BY <3>3, <3>4, FS_Union
      <4> QED
        BY <3>6, <4>1, <4>2
    <3>8. n - sent \in Int
      BY <1>1
    <3> QED
      BY <3>1, <3>3, <3>4, <3>7, <3>8 DEF Counted
  <2> QED
    BY <2>1, <2>2
<1> QED
  BY <1>2, <1>5, <1>7, <1>8, <1>9, <1>10

LEMMA InitInv == Init => TxBufferInv
  BY SizeAssumption DEF Init, TxBufferInv, TypeOK, RoomForNext, EachPacketOnce, Slots

(* A full buffer given one more packet holds Size packets, the oldest of    *)
(* them number given - length + 1.                                          *)
LEMMA BufferStep ==
  ASSUME TxBufferInv, rte_eth_tx_buffer
  PROVE  /\ TxBufferInv' /\ \A p \in wire' \ wire : \A q \in wire \cup freed : q < p
         /\ Counted => Counted'
<1> DEFINE slots == [pkts EXCEPT ![length] = given + 1]
<1> DEFINE a == given - length + 1
<1> USE SizeAssumption
<1>1. /\ length \in Slots /\ length + 1 \in 1 .. Size /\ a \in Nat \ {0}
      /\ given \in Nat /\ length \in Nat /\ pkts \in [Slots -> Nat]
      /\ wire \subseteq Nat /\ freed \subseteq Nat
  BY DEF TxBufferInv, TypeOK, RoomForNext, EachPacketOnce, Slots
<1>2. slots \in [Slots -> Nat]
  BY <1>1
<1>3. \A i \in Slots : i < length + 1 => slots[i] = a + i
  BY <1>1 DEF TxBufferInv, EachPacketOnce, Slots
<1>4. wire \cup freed = 1 .. (a - 1) /\ wire \cap freed = {}
  BY <1>1 DEF TxBufferInv, EachPacketOnce
<1>5. given' = given + 1 /\ pkts' = slots
  BY DEF rte_eth_tx_buffer
<1>6. CASE length + 1 < Size
  <2>1. length' = length + 1 /\ UNCHANGED <<userdata, dropped, wire, freed>>
    BY <1>6 DEF rte_eth_tx_buffer
  <2>2. TypeOK' /\ RoomForNext'
    BY <1>1, <1>2, <1>5, <1>6, <2>1 DEF TxBufferInv, TypeOK, RoomForNext
  <2>3. EachPacketOnce'
    BY <1>1, <1>3, <1>4, <1>5, <2>1 DEF EachPacketOnce
  <2>4. Counted => Counted'
    BY <2>1 DEF Counted
  <2> QED
    BY <2>1, <2>2, <2>3, <2>4 DEF TxBufferInv
<1>7. CASE ~(length + 1 < Size)
  <2>1. FlushOf(slots, length + 1)
    BY <1>7 DEF rte_eth_tx_buffer
  <2>2. TypeOK
    BY DEF TxBufferInv
  <2> HIDE DEF slots, a
  <2>3. /\ wire' \cup freed' = 1 .. (a + (length + 1) - 1)
        /\ wire' \cap freed' = {}
        /\ wire' \subseteq Nat /\ freed' \subseteq Nat
        /\ userdata' \in Nat /\ dropped' \in Nat /\ length' = 0
        /\ \A p \in wire' \ wire : p >= a
        /\ Counted => Counted'
    BY <1>1, <1>2, <1>3, <1>4, <2>1, <2>2, FlushSplits
  <2>4. a + (length + 1) - 1 = given'
    BY <1>1, <1>5 DEF a
  <2>5. TypeOK' /\ RoomForNext' /\ EachPacketOnce'
    <3>1. TypeOK' /\ RoomForNext'
      BY <1>1, <1>2, <1>5, <2>3 DEF TypeOK, RoomForNext
    <3>2. length' = 0 /\ given' \in Nat /\ given' - length' = given'
      BY <1>1, <1>5, <2>3
    <3> QED
      BY <2>3, <2>4, <3>1, <3>2 DEF EachPacketOnce, Slots
  <2>6. \A p \in wire' \ wire : \A q \in wire \cup freed : q < p
    BY <1>1, <1>4, <2>3
  <2> QED
    BY <2>3, <2>5, <2>6 DEF TxBufferInv
<1> QED
  BY <1>6, <1>7

LEMMA FlushStep ==
  ASSUME TxBufferInv, rte_eth_tx_buffer_flush
  PROVE  /\ TxBufferInv' /\ \A p \in wire' \ wire : \A q \in wire \cup freed : q < p
         /\ Counted => Counted'
<1> DEFINE a == given - length + 1
<1> USE SizeAssumption
<1>1. /\ length \in 1 .. Size /\ a \in Nat \ {0} /\ given \in Nat /\ length \in Nat
      /\ pkts \in [Slots -> Nat] /\ wire \subseteq Nat /\ freed \subseteq Nat /\ TypeOK
  BY DEF TxBufferInv, TypeOK, RoomForNext, EachPacketOnce, rte_eth_tx_buffer_flush
<1>2. \A i \in Slots : i < length => pkts[i] = a + i
  BY <1>1 DEF TxBufferInv, EachPacketOnce, Slots
<1>3. wire \cup freed = 1 .. (a - 1) /\ wire \cap freed = {}
  BY <1>1 DEF TxBufferInv, EachPacketOnce
<1>4. FlushOf(pkts, length) /\ pkts' = pkts /\ given' = given
  BY DEF rte_eth_tx_buffer_flush
<1> HIDE DEF a
<1>5. /\ wire' \cup freed' = 1 .. (a + length - 1)
      /\ wire' \cap freed' = {}
      /\ wire' \subseteq Nat /\ freed' \subseteq Nat
      /\ userdata' \in Nat /\ dropped' \in Nat /\ length' = 0
      /\ \A p \in wire' \ wire : p >= a
      /\ Counted => Counted'
  BY <1>1, <1>2, <1>3, <1>4, FlushSplits
<1>6. a + length - 1 = given
  BY <1>1 DEF a
<1>7. TypeOK' /\ RoomForNext' /\ EachPacketOnce'
  <2>1. TypeOK' /\ RoomForNext'
    BY <1>1, <1>4, <1>5 DEF TypeOK, RoomForNext
  <2>2. length' = 0 /\ given' \in Nat /\ given' - length' = given
    BY <1>1, <1>4, <1>5
  <2> QED
    BY <1>1, <1>4, <1>5, <1>6, <2>1, <2>2 DEF EachPacketOnce, Slots
<1>8. \A p \in wire' \ wire : \A q \in wire \cup freed : q < p
  BY <1>1, <1>3, <1>5
<1> QED
  BY <1>5, <1>7, <1>8 DEF TxBufferInv

LEMMA StutterStep == TxBufferInv /\ UNCHANGED vars => TxBufferInv'
  BY DEF TxBufferInv, TypeOK, RoomForNext, EachPacketOnce, vars

(* For every size: there is always room for the next packet, and every      *)
(* packet given to rte_eth_tx_buffer is buffered, sent or freed, once.      *)
THEOREM TxBufferInvariant == Spec => []TxBufferInv
<1>1. TxBufferInv /\ [Next]_vars => TxBufferInv'
  BY BufferStep, FlushStep, StutterStep DEF Next
<1> QED
  BY <1>1, InitInv, PTL DEF Spec

(* For every size: packets leave the port in the order they were given.     *)
THEOREM TxBufferInOrder == Spec => SentInOrder
<1>1. TxBufferInv /\ [Next]_vars =>
        [\A p \in wire' \ wire : \A q \in wire \cup freed : q < p]_vars
  BY BufferStep, FlushStep DEF Next
<1> QED
  BY <1>1, TxBufferInvariant, PTL DEF Spec, SentInOrder

(* For every size, and however the driver cuts bursts short: the C function  *)
(* (rte_ethdev.c:4060) adds the dropped packets to the counter, once each;   *)
(* inlines.cr:89, which hands over the address of error_userdata, adds them  *)
(* to the pointer, and its counter keeps the value it was registered with.   *)
THEOREM TxBufferDropCounter == Spec => []Counted
<1>1. Init => Counted
  BY FS_EmptySet DEF Init, Counted
<1>2. TxBufferInv /\ Counted /\ [Next]_vars => Counted'
  <2>1. Counted /\ UNCHANGED vars => Counted'
    BY DEF vars, Counted
  <2> QED
    BY <2>1, BufferStep, FlushStep DEF Next
<1> QED
  BY <1>1, <1>2, TxBufferInvariant, PTL DEF Spec

(* Every step of the burst functions around the buffer leaves it as it is   *)
(* or is a call of it, whatever descriptors and callbacks do: the buffer of *)
(* EthDev implements TxBuffer, and what is proved above holds of it.        *)
THEOREM DevKeepsBuffer == DevSpec => Spec
<1>1. DevInit => Init
  BY DEF DevInit
<1>2. [DevNext]_allVars => [Next]_vars
  BY DEF DevNext, rte_eth_rx_burst, Forward, Drain, NicReceives, NicSends, Tick, Ask, AskPrepare, Quiet,
         Next, allVars, devVars
<1> QED
  BY <1>1, <1>2, PTL DEF DevSpec, Spec

----------------------------------------------------------------------------
(* The check of the offloads a packet asks for.                             *)

L4Sums == {"L4_NO_CKSUM", "TCP_CKSUM", "SCTP_CKSUM", "UDP_CKSUM"}

(* The bits of the flags an application sets, and of the masks.             *)
LEMMA FlagBits ==
  /\ PKT_TX["UDP_SEG"] = {42} /\ PKT_TX["TUNNEL_GRE"] = {46} /\ PKT_TX["TCP_SEG"] = {50}
  /\ PKT_TX["IP_CKSUM"] = {54} /\ PKT_TX["IPV4"] = {55} /\ PKT_TX["IPV6"] = {56} /\ PKT_TX["VLAN"] = {57}
  /\ PKT_TX["OUTER_IP_CKSUM"] = {58} /\ PKT_TX["OUTER_IPV4"] = {59}
  /\ PKT_TX["L4_NO_CKSUM"] = {} /\ PKT_TX["TCP_CKSUM"] = {52} /\ PKT_TX["SCTP_CKSUM"] = {53}
  /\ PKT_TX["UDP_CKSUM"] = {52, 53} /\ PKT_TX["L4_MASK"] = {52, 53}
  /\ PKT_TX["TUNNEL_MASK"] = 45 .. 48 /\ PKT_TX["QINQ"] = {49} /\ PKT_TX["IEEE1588_TMST"] = {51}
  /\ PKT_TX["MACSEC"] = {44} /\ PKT_TX["SEC_OFFLOAD"] = {43}
  BY DEF PKT_TX

LEMMA OffloadMask == PKT_TX_OFFLOAD_MASK = {43, 44, 49, 50, 51, 52, 53, 54, 57, 58} \cup 45 .. 48
<1>1. ASSUME NEW b, b \in PKT_TX_OFFLOAD_MASK
      PROVE  b \in {43, 44, 49, 50, 51, 52, 53, 54, 57, 58} \cup 45 .. 48
  BY <1>1, FlagBits DEF PKT_TX_OFFLOAD_MASK
<1>2. ASSUME NEW b, b \in {43, 44, 49, 50, 51, 52, 53, 54, 57, 58} \cup 45 .. 48
      PROVE  b \in PKT_TX_OFFLOAD_MASK
  BY <1>2, FlagBits DEF PKT_TX_OFFLOAD_MASK
<1> QED
  BY <1>1, <1>2

(* Which bits of ol_flags are set, of a packet with these flags.            *)
LEMMA PacketBits ==
  ASSUME NEW flags \in SUBSET Flags, NEW l4 \in L4Sums, NEW bits,
         \A b : b \in bits <=> (\E f \in flags : b \in PKT_TX[f]) \/ b \in PKT_TX[l4]
  PROVE  /\ 42 \in bits <=> "UDP_SEG" \in flags
         /\ 46 \in bits <=> "TUNNEL_GRE" \in flags
         /\ 50 \in bits <=> "TCP_SEG" \in flags
         /\ 54 \in bits <=> "IP_CKSUM" \in flags
         /\ 55 \in bits <=> "IPV4" \in flags
         /\ 56 \in bits <=> "IPV6" \in flags
         /\ 57 \in bits <=> "VLAN" \in flags
         /\ 58 \in bits <=> "OUTER_IP_CKSUM" \in flags
         /\ 59 \in bits <=> "OUTER_IPV4" \in flags
         /\ 52 \in bits \/ 53 \in bits <=> l4 # "L4_NO_CKSUM"
         /\ bits \subseteq {42, 46, 50, 52, 53, 54, 55, 56, 57, 58, 59}
<1>1. \A b : b \in bits <=> (\E f \in flags : b \in PKT_TX[f]) \/ b \in PKT_TX[l4]
  OBVIOUS
<1>2. l4 = "L4_NO_CKSUM" \/ l4 = "TCP_CKSUM" \/ l4 = "SCTP_CKSUM" \/ l4 = "UDP_CKSUM"
  BY DEF L4Sums
<1>3. \A b : b \in PKT_TX[l4] => b = 52 \/ b = 53
  BY <1>2, FlagBits
<1>4. 52 \in PKT_TX[l4] \/ 53 \in PKT_TX[l4] <=> l4 # "L4_NO_CKSUM"
  BY <1>2, FlagBits
<1>5. ASSUME NEW f \in flags, NEW b, b \in PKT_TX[f]
      PROVE  \/ (f = "UDP_SEG" /\ b = 42) \/ (f = "TUNNEL_GRE" /\ b = 46) \/ (f = "TCP_SEG" /\ b = 50)
             \/ (f = "IP_CKSUM" /\ b = 54) \/ (f = "IPV4" /\ b = 55) \/ (f = "IPV6" /\ b = 56)
             \/ (f = "VLAN" /\ b = 57) \/ (f = "OUTER_IP_CKSUM" /\ b = 58) \/ (f = "OUTER_IPV4" /\ b = 59)
  <2>1. \/ f = "UDP_SEG" \/ f = "TUNNEL_GRE" \/ f = "TCP_SEG" \/ f = "IP_CKSUM" \/ f = "IPV4"
        \/ f = "IPV6" \/ f = "VLAN" \/ f = "OUTER_IP_CKSUM" \/ f = "OUTER_IPV4"
    BY DEF Flags
  <2> QED
    BY <1>5, <2>1, FlagBits
<1>6. /\ 42 \in bits <=> "UDP_SEG" \in flags
      /\ 46 \in bits <=> "TUNNEL_GRE" \in flags
      /\ 50 \in bits <=> "TCP_SEG" \in flags
  BY <1>1, <1>3, <1>5, FlagBits
<1>7. /\ 54 \in bits <=> "IP_CKSUM" \in flags
      /\ 55 \in bits <=> "IPV4" \in flags
      /\ 56 \in bits <=> "IPV6" \in flags
  BY <1>1, <1>3, <1>5, FlagBits
<1>8. /\ 57 \in bits <=> "VLAN" \in flags
      /\ 58 \in bits <=> "OUTER_IP_CKSUM" \in flags
      /\ 59 \in bits <=> "OUTER_IPV4" \in flags
  BY <1>1, <1>3, <1>5, FlagBits
<1>9. 52 \in bits \/ 53 \in bits <=> l4 # "L4_NO_CKSUM"
  BY <1>1, <1>4, <1>5
<1>10. bits \subseteq {42, 46, 50, 52, 53, 54, 55, 56, 57, 58, 59}
  BY <1>1, <1>3, <1>5
<1> QED
  BY <1>6, <1>7, <1>8, <1>9, <1>10

(* What the check makes of such a packet.                                   *)
LEMMA PacketHas ==
  ASSUME NEW flags \in SUBSET Flags, NEW l4 \in L4Sums, NEW data_len, NEW tso_segsz, NEW m,
         m = Packet(flags, l4, data_len, tso_segsz)
  PROVE  /\ m.data_len = data_len /\ m.tso_segsz = tso_segsz /\ m.outer_l2_len = 1 /\ m.outer_l3_len = 1
         /\ m.l2_len = 1 /\ m.l3_len = 1 /\ m.l4_len = 1
         /\ \A f \in {"TCP_SEG", "IP_CKSUM", "IPV4", "IPV6", "OUTER_IP_CKSUM", "OUTER_IPV4"} :
              Has(m, f) <=> f \in flags
         /\ Has(m, "L4_MASK") <=> l4 # "L4_NO_CKSUM"
         /\ m.ol_flags \cap PKT_TX_OFFLOAD_MASK = {} <=>
              l4 = "L4_NO_CKSUM" /\ flags \subseteq {"UDP_SEG", "IPV4", "IPV6", "OUTER_IPV4"}
<1>0. PICK bits : bits = m.ol_flags
  OBVIOUS
<1>1. /\ m.data_len = data_len /\ m.tso_segsz = tso_segsz /\ m.outer_l2_len = 1 /\ m.outer_l3_len = 1
      /\ m.l2_len = 1 /\ m.l3_len = 1 /\ m.l4_len = 1
      /\ \A b : b \in bits <=> (\E f \in flags : b \in PKT_TX[f]) \/ b \in PKT_TX[l4]
  BY <1>0 DEF Packet
<1>2. \A f : Has(m, f) <=> \E b \in PKT_TX[f] : b \in bits
  BY <1>0 DEF Has
<1>3. /\ 42 \in bits <=> "UDP_SEG" \in flags
      /\ 46 \in bits <=> "TUNNEL_GRE" \in flags
      /\ 50 \in bits <=> "TCP_SEG" \in flags
      /\ 54 \in bits <=> "IP_CKSUM" \in flags
      /\ 55 \in bits <=> "IPV4" \in flags
      /\ 56 \in bits <=> "IPV6" \in flags
      /\ 57 \in bits <=> "VLAN" \in flags
      /\ 58 \in bits <=> "OUTER_IP_CKSUM" \in flags
      /\ 59 \in bits <=> "OUTER_IPV4" \in flags
      /\ 52 \in bits \/ 53 \in bits <=> l4 # "L4_NO_CKSUM"
      /\ bits \subseteq {42, 46, 50, 52, 53, 54, 55, 56, 57, 58, 59}
  BY <1>1, PacketBits
<1>4. /\ Has(m, "TCP_SEG") <=> "TCP_SEG" \in flags
      /\ Has(m, "IP_CKSUM") <=> "IP_CKSUM" \in flags
      /\ Has(m, "IPV4") <=> "IPV4" \in flags
      /\ Has(m, "IPV6") <=> "IPV6" \in flags
      /\ Has(m, "OUTER_IP_CKSUM") <=> "OUTER_IP_CKSUM" \in flags
      /\ Has(m, "OUTER_IPV4") <=> "OUTER_IPV4" \in flags
      /\ Has(m, "L4_MASK") <=> l4 # "L4_NO_CKSUM"
  BY <1>2, <1>3, FlagBits
<1>5. bits \cap PKT_TX_OFFLOAD_MASK = {} <=>
        46 \notin bits /\ 50 \notin bits /\ 52 \notin bits /\ 53 \notin bits /\ 54 \notin bits
        /\ 57 \notin bits /\ 58 \notin bits
  BY <1>3, OffloadMask
<1>6. flags \subseteq {"UDP_SEG", "IPV4", "IPV6", "OUTER_IPV4"} <=>
        "TUNNEL_GRE" \notin flags /\ "TCP_SEG" \notin flags /\ "IP_CKSUM" \notin flags
        /\ "VLAN" \notin flags /\ "OUTER_IP_CKSUM" \notin flags
  BY DEF Flags
<1> QED
  BY <1>0, <1>1, <1>3, <1>4, <1>5, <1>6

(* A set and one element more.                                              *)
LEMMA OneMore ==
  ASSUME NEW S, IsFiniteSet(S), NEW x, x \notin S, NEW T, T = S \cup {x}
  PROVE  IsFiniteSet(T) /\ Cardinality(T) = Cardinality(S) + 1
  BY FS_AddElement

(* A packet is let through exactly when it meets every demand that is not   *)
(* overlooked.                                                              *)
LEMMA PrepareLetsThrough ==
  ASSUME NEW flags \in SUBSET Flags, NEW l4 \in L4Sums, NEW data_len \in Nat, NEW tso_segsz \in Nat,
         NEW q, q.flags = flags, q.l4 = l4, q.data_len = data_len, q.tso_segsz = tso_segsz
  PROVE  rte_validate_tx_offload(Packet(flags, l4, data_len, tso_segsz)) = "0" <=>
           Unmet(q) \subseteq Overlooked(q)
<1>0. PICK m : m = Packet(flags, l4, data_len, tso_segsz)
  OBVIOUS
<1>1. /\ m.data_len = data_len /\ m.tso_segsz = tso_segsz /\ m.outer_l2_len = 1 /\ m.outer_l3_len = 1
      /\ m.l2_len = 1 /\ m.l3_len = 1 /\ m.l4_len = 1
      /\ \A f \in {"TCP_SEG", "IP_CKSUM", "IPV4", "IPV6", "OUTER_IP_CKSUM", "OUTER_IPV4"} :
           Has(m, f) <=> f \in flags
      /\ Has(m, "L4_MASK") <=> l4 # "L4_NO_CKSUM"
      /\ m.ol_flags \cap PKT_TX_OFFLOAD_MASK = {} <=>
           l4 = "L4_NO_CKSUM" /\ flags \subseteq {"UDP_SEG", "IPV4", "IPV6", "OUTER_IPV4"}
  BY <1>0, PacketHas
<1> DEFINE headers == {"l2", "l3", "l4"} \cup (IF "OUTER_IP_CKSUM" \in q.flags THEN {"outer_l2", "outer_l3"} ELSE {})
           need == IF "OUTER_IP_CKSUM" \in flags THEN 5 ELSE 3
           clash == \/ "IP_CKSUM" \in flags /\ "IPV6" \in flags
                    \/ (l4 # "L4_NO_CKSUM" \/ "TCP_SEG" \in flags) /\ "IPV4" \notin flags /\ "IPV6" \notin flags
                    \/ "TCP_SEG" \in flags /\ (tso_segsz = 0 \/ ("IPV4" \in flags /\ "IP_CKSUM" \notin flags))
                    \/ "OUTER_IP_CKSUM" \in flags /\ "OUTER_IPV4" \notin flags
<1>2. Cardinality(headers) = need
  <2>1. PICK s1, s2, s3, s4, s5 :
          /\ s1 = {"l2"} /\ s2 = s1 \cup {"l3"} /\ s3 = s2 \cup {"l4"}
          /\ s4 = s3 \cup {"outer_l2"} /\ s5 = s4 \cup {"outer_l3"}
    OBVIOUS
  <2>2. "l3" \notin s1 /\ "l4" \notin s2 /\ "outer_l2" \notin s3 /\ "outer_l3" \notin s4
    BY <2>1
  <2>3. IsFiniteSet(s1) /\ Cardinality(s1) = 1
    BY <2>1, FS_Singleton
  <2>4. IsFiniteSet(s2) /\ Cardinality(s2) = Cardinality(s1) + 1
    BY <2>1, <2>2, <2>3, OneMore
  <2>5. IsFiniteSet(s3) /\ Cardinality(s3) = Cardinality(s2) + 1
    BY <2>1, <2>2, <2>4, OneMore
  <2>6. IsFiniteSet(s4) /\ Cardinality(s4) = Cardinality(s3) + 1
    BY <2>1, <2>2, <2>5, OneMore
  <2>7. Cardinality(s5) = Cardinality(s4) + 1
    BY <2>1, <2>2, <2>6, OneMore
  <2>8. Cardinality(s3) = 3 /\ Cardinality(s5) = 5
    BY <2>3, <2>4, <2>5, <2>6, <2>7
  <2>9. s3 = {"l2", "l3", "l4"} /\ s3 \cup {} = s3 /\ s5 = {"l2", "l3", "l4"} \cup {"outer_l2", "outer_l3"}
    BY <2>1
  <2>11. CASE "OUTER_IP_CKSUM" \in flags
    <3>1. headers = {"l2", "l3", "l4"} \cup {"outer_l2", "outer_l3"} /\ need = 5
      BY <2>11
    <3> QED
      BY <3>1, <2>8, <2>9
  <2>12. CASE "OUTER_IP_CKSUM" \notin flags
    <3>1. headers = {"l2", "l3", "l4"} /\ need = 3
      BY <2>12, <2>9
    <3> QED
      BY <3>1, <2>8, <2>9
  <2> QED
    BY <2>11, <2>12
<1>3. inner_l3_offset(m) + m.l3_len + m.l4_len = need
  BY <1>1 DEF inner_l3_offset
<1>4. Contradicts(m) <=> clash
  BY <1>1 DEF Contradicts
<1> HIDE DEF headers, need
<1> DEFINE silent == l4 = "L4_NO_CKSUM" /\ flags \subseteq {"UDP_SEG", "IPV4", "IPV6", "OUTER_IPV4"}
<1>5. Unmet(q) \subseteq Overlooked(q) <=> silent \/ (need <= data_len /\ ~clash)
  <2>1. Meets(q, "headers") <=> (AsksOffload(q) => need <= data_len)
    BY <1>2 DEF Meets, headers
  <2>2. Meets(q, "ip_named") <=>
          ~((l4 # "L4_NO_CKSUM" \/ "TCP_SEG" \in flags) /\ "IPV4" \notin flags /\ "IPV6" \notin flags)
    BY DEF Meets
  <2>3. Meets(q, "cksum_not_ipv6") <=> ~("IP_CKSUM" \in flags /\ "IPV6" \in flags)
    BY DEF Meets
  <2>4. Meets(q, "tso") <=>
          ~("TCP_SEG" \in flags /\ (tso_segsz = 0 \/ ("IPV4" \in flags /\ "IP_CKSUM" \notin flags)))
    BY DEF Meets
  <2>5. Meets(q, "outer_ipv4") <=> ~("OUTER_IP_CKSUM" \in flags /\ "OUTER_IPV4" \notin flags)
    BY DEF Meets
  <2>6. clash <=> ~(/\ Meets(q, "ip_named") /\ Meets(q, "cksum_not_ipv6")
                    /\ Meets(q, "tso") /\ Meets(q, "outer_ipv4"))
    BY <2>2, <2>3, <2>4, <2>5
  <2>7. silent => ~clash
    BY DEF silent
  <2>8. Unmet(q) \subseteq Overlooked(q) <=> (silent \/ Meets(q, "headers")) /\ ~clash
    <3>1. Overlooked(q) = {"one_ip", "cksum_ipv4", "ufo_size"} \cup (IF silent THEN {"headers"} ELSE {})
      BY DEF Overlooked, silent
    <3>2. \A d : d \in Unmet(q) <=> d \in Demands /\ ~Meets(q, d)
      BY DEF Unmet
    <3> HIDE DEF silent, clash
    <3> QED
      BY <2>6, <3>1, <3>2 DEF Demands
  <2>9. ~silent => AsksOffload(q)
    BY DEF AsksOffload, silent
  <2> HIDE DEF silent, clash
  <2> QED
    BY <2>1, <2>7, <2>8, <2>9
<1> HIDE DEF clash, silent
<1>6. need \in Nat
  BY DEF need
<1>7. rte_validate_tx_offload(m) = "0" <=> silent \/ (need <= data_len /\ ~clash)
  BY <1>1, <1>3, <1>4, <1>6 DEF rte_validate_tx_offload, silent
<1> QED
  BY <1>0, <1>5, <1>7

(* In a build with the checks the driver is reached only for a valid port   *)
(* and queue, and rte_validate_tx_offload lets exactly the packets through  *)
(* that meet what the flags' descriptions demand, but for the demands of    *)
(* Overlooked, for every set of flags: although values of the layer 4 field *)
(* share bits, and UDP_SEG is missing from the mask.  The driver has a      *)
(* tx_pkt_prepare: without one packets are not looked at.                   *)
THEOREM DevDriverGetsValid ==
  ASSUME "tx_pkt_prepare" \in dev_ops
  PROVE  DevSpec => []DriverGetsValid
<1>1. DevInit => DriverGetsValid
  BY DEF DevInit, NoQuestion, DriverGetsValid
<1>2. ASSUME DriverGetsValid, [DevNext]_allVars PROVE DriverGetsValid'
  <2>1. CASE probe' = NoQuestion
    BY <2>1 DEF NoQuestion, DriverGetsValid
  <2>2. CASE probe' = probe
    BY <1>2, <2>2 DEF DriverGetsValid, Unmet, Meets, AsksOffload, Overlooked
  <2>3. CASE Ask
    <3>1. PICK fn \in Questions, port_id \in 0 .. Cardinality(DevPorts), queue_id \in 0 .. nb_queues :
            probe' = [fn |-> fn, port |-> port_id, queue |-> queue_id, ret |-> Answer(fn, port_id, queue_id)]
      BY <2>3 DEF Ask
    <3>2. /\ probe'.fn = fn /\ probe'.port = port_id /\ probe'.queue = queue_id
          /\ probe'.ret = Answer(fn, port_id, queue_id) /\ fn # "tx_prepare" /\ fn # "none"
      BY <3>1 DEF Questions
    <3>3. queue_id \in Nat /\ nb_queues \in Nat
      BY EthDevAssumption
    <3>4. Answer(fn, port_id, queue_id) = "driver" /\ RTE_LIBRTE_ETHDEV_DEBUG =>
            port_id \in DevPorts /\ (queue_id < nb_queues \/ fn = "rx_descriptor_done")
      BY <3>3 DEF Questions, Answer, rte_eth_rx_queue_count, rte_eth_rx_descriptor_done,
         rte_eth_rx_descriptor_status, rte_eth_tx_descriptor_status, DescriptorStatus, BurstChecks,
         Invalid, RTE_ETH_VALID_PORTID
    <3> QED
      BY <3>2, <3>4 DEF DriverGetsValid
  <2>4. CASE AskPrepare
    <3>1. PICK port_id \in 0 .. Cardinality(DevPorts), queue_id \in 0 .. nb_queues, flags \in SUBSET Flags,
               l4 \in L4Sums, data_len \in 2 .. 5, tso_segsz \in 0 .. 1 :
            probe' = [fn |-> "tx_prepare", port |-> port_id, queue |-> queue_id,
                      flags |-> flags, l4 |-> l4, data_len |-> data_len, tso_segsz |-> tso_segsz,
                      ret |-> rte_eth_tx_prepare(port_id, queue_id, Packet(flags, l4, data_len, tso_segsz))]
      BY <2>4 DEF AskPrepare, L4Sums
    <3> DEFINE ret == rte_eth_tx_prepare(port_id, queue_id, Packet(flags, l4, data_len, tso_segsz))
    <3>2. /\ probe'.fn = "tx_prepare" /\ probe'.port = port_id /\ probe'.queue = queue_id /\ probe'.ret = ret
          /\ probe'.flags = flags /\ probe'.l4 = l4 /\ probe'.data_len = data_len /\ probe'.tso_segsz = tso_segsz
      BY <3>1
    <3>3. queue_id \in Nat /\ nb_queues \in Nat /\ data_len \in Nat /\ tso_segsz \in Nat
      BY EthDevAssumption
    <3>4. ret = IF Invalid(port_id, queue_id) THEN "0"
                ELSE IF rte_validate_tx_offload(Packet(flags, l4, data_len, tso_segsz)) = "0" THEN "driver" ELSE "0"
      BY DEF rte_eth_tx_prepare, tx_pkt_prepare
    <3>5. rte_validate_tx_offload(Packet(flags, l4, data_len, tso_segsz)) = "0" <=>
            Unmet(probe') \subseteq Overlooked(probe')
      BY <3>2, <3>3, PrepareLetsThrough
    <3> HIDE DEF ret
    <3>6. ret = "driver" /\ RTE_LIBRTE_ETHDEV_DEBUG => port_id \in DevPorts /\ queue_id < nb_queues
      BY <3>3, <3>4 DEF Invalid, RTE_ETH_VALID_PORTID
    <3>7. port_id \in DevPorts /\ queue_id < nb_queues => ~Invalid(port_id, queue_id)
      BY <3>3 DEF Invalid, RTE_ETH_VALID_PORTID
    <3>8. Unmet(probe)' = Unmet(probe') /\ Overlooked(probe)' = Overlooked(probe')
      BY DEF Unmet, Meets, AsksOffload, Overlooked
    <3> QED
      BY <3>2, <3>4, <3>5, <3>6, <3>7, <3>8 DEF DriverGetsValid
  <2> QED
    BY <1>2, <2>1, <2>2, <2>3, <2>4
       DEF DevNext, rte_eth_rx_burst, Forward, Drain, NicReceives, NicSends, Tick, allVars, devVars
<1> QED
  BY <1>1, <1>2, PTL DEF DevSpec
----------------------------------------------------------------------------
(* The lists of callbacks, and the latency that calc_latency adds up.       *)

LEMMA LeastNat ==
  ASSUME NEW T \in SUBSET Nat, T # {}
  PROVE  \E n \in T : \A k \in T : n <= k
<1> DEFINE Less == {x \in Nat \X Nat : x[1] < x[2]}
<1>1. IsWellFoundedOn(Less, Nat)
  BY NatLessThanWellFounded DEF OpToRel
<1>2. PICK n \in T : \A k \in T : ~(<<k, n>> \in Less)
  BY <1>1, WFMin
<1>3. ASSUME NEW k \in T PROVE n <= k
  <2>1. n \in Nat /\ k \in Nat /\ <<k, n>> \notin Less
    BY <1>2
  <2> QED
    BY <2>1
<1> QED
  BY <1>3

(* A set with 0 and, with each number below N, the next has all up to N.    *)
LEMMA UpTo ==
  ASSUME NEW N \in Nat, NEW T, 0 \in T, \A n \in 0 .. (N - 1) : n \in T => n + 1 \in T
  PROVE  0 .. N \subseteq T
<1>1. SUFFICES ASSUME (0 .. N) \ T # {} PROVE FALSE
  OBVIOUS
<1> DEFINE U == (0 .. N) \ T
<1>2. PICK n \in U : \A k \in U : n <= k
  <2>1. U \in SUBSET Nat /\ U # {}
    BY <1>1
  <2> HIDE DEF U
  <2> QED
    BY <2>1, LeastNat
<1>3. n - 1 \in 0 .. (N - 1) /\ n - 1 \in T /\ (n - 1) + 1 = n
  BY <1>2
<1> QED
  BY <1>2, <1>3

LEMMA MaxIs ==
  ASSUME NEW m \in Nat, NEW t \in SUBSET (1 .. m), m \in t
  PROVE  Max(t) = m
<1>1. \E x \in t : \A y \in t : x >= y
  OBVIOUS
<1>2. Max(t) \in t /\ \A y \in t : Max(t) >= y
  BY <1>1 DEF Max
<1>3. Max(t) \in 1 .. m /\ Max(t) >= m
  BY <1>2
<1> QED
  BY ONLY <1>3, m \in Nat

LEMMA MaxIn ==
  ASSUME NEW N \in Nat, NEW t \in SUBSET (1 .. N), t # {}
  PROVE  Max(t) \in t
<1> DEFINE T == {N - k : k \in t}
<1>1. T \in SUBSET Nat /\ T # {}
  <2>1. \A k \in t : N - k \in Nat
    OBVIOUS
  <2>2. PICK k : k \in t
    OBVIOUS
  <2> QED
    BY <2>1, <2>2
<1>2. PICK n \in T : \A k \in T : n <= k
  BY <1>1, LeastNat
<1>3. N - n \in t /\ \A y \in t : N - n >= y
  BY <1>2
<1> QED
  BY <1>3 DEF Max

(* Two functions of the parts of a list that agree on the empty one, and on *)
(* a part if they do on it without its last element, are the same: what a   *)
(* fold over the list is, once its turns are known.                         *)
Alike(f, g, N) ==
  /\ f[{}] = g[{}]
  /\ \A t \in SUBSET (1 .. N) : t # {} /\ f[t \ {Max(t)}] = g[t \ {Max(t)}] => f[t] = g[t]

LEMMA FoldIs ==
  ASSUME NEW N \in Nat, NEW f, NEW g, Alike(f, g, N)
  PROVE  f[1 .. N] = g[1 .. N]
<1> DEFINE T == {m \in 0 .. N : \A t \in SUBSET (1 .. m) : f[t] = g[t]}
<1>1. 0 \in T
  <2>1. \A t \in SUBSET (1 .. 0) : t = {}
    OBVIOUS
  <2>2. \A t \in SUBSET (1 .. 0) : f[t] = g[t]
    BY <2>1 DEF Alike
  <2> QED
    BY <2>2
<1>2. ASSUME NEW m \in 0 .. (N - 1), m \in T PROVE m + 1 \in T
  <2>1. \A t \in SUBSET (1 .. m) : f[t] = g[t]
    BY <1>2
  <2>2. ASSUME NEW t \in SUBSET (1 .. (m + 1)) PROVE f[t] = g[t]
    <3>1. CASE m + 1 \notin t
      <4>1. t \in SUBSET (1 .. m)
        BY <3>1
      <4> QED
        BY <2>1, <4>1
    <3>2. CASE m + 1 \in t
      <4>1. m + 1 \in Nat /\ t \in SUBSET (1 .. N)
        OBVIOUS
      <4>2. Max(t) = m + 1
        BY <3>2, <4>1, MaxIs
      <4>3. t \ {m + 1} \in SUBSET (1 .. m)
        OBVIOUS
      <4> QED
        BY <2>1, <3>2, <4>1, <4>2, <4>3 DEF Alike
    <3> QED
      BY <3>1, <3>2
  <2>3. m + 1 \in 0 .. N
    OBVIOUS
  <2> QED
    BY <2>2, <2>3
<1> HIDE DEF T
<1>3. N \in T
  <2>1. 0 .. N \subseteq T
    BY <1>1, <1>2, UpTo
  <2> QED
    BY <2>1
<1> QED
  BY <1>3 DEF T

(* With add_timestamps in the list every packet of a burst is stamped with  *)
(* the clock, whatever stands before it or behind it.                       *)
LEMMA RunRxStamps ==
  ASSUME RxCallbacks \in Seq(STRING), "add_timestamps" \in ToSet(RxCallbacks), DOMAIN stamp = Pkts,
         stamp = [p \in Pkts |-> stamp[p]],
         NEW b
  PROVE  RunRx(b) = [p \in Pkts |-> IF p \in ToSet(b) THEN clock ELSE stamp[p]]
<1> DEFINE N == Len(RxCallbacks)
           turn(t, f) == IF t = {} THEN stamp ELSE RxCallback(RxCallbacks[Max(t)], b, f[t \ {Max(t)}])
           It(f) == f = [t \in SUBSET (1 .. N) |-> turn(t, f)]
           all == [p \in Pkts |-> IF p \in ToSet(b) THEN clock ELSE stamp[p]]
           g == [t \in SUBSET (1 .. N) |-> IF \E x \in t : RxCallbacks[x] = "add_timestamps" THEN all ELSE stamp]
<1>1. DOMAIN RxCallbacks = 1 .. N /\ N \in Nat
  OBVIOUS
<1>2. RunRx(b) = (CHOOSE f : It(f))[1 .. N]
  BY <1>1 DEF RunRx, FoldLeft, MapThenFoldSet
<1>3. \A m \in 1 .. N : RxCallbacks[m] \in STRING
  BY <1>1
<1>4. \E m \in 1 .. N : RxCallbacks[m] = "add_timestamps"
  BY <1>1 DEF ToSet
<1> HIDE DEF N
<1>5. ASSUME NEW t \in SUBSET (1 .. N), t # {} PROVE Max(t) \in t
  BY <1>1, <1>5, MaxIn
<1>6. \A p \in Pkts : all[p] = IF p \in ToSet(b) THEN clock ELSE stamp[p]
  OBVIOUS
<1>7. \A x : RxCallback("add_timestamps", b, all) = all /\ RxCallback("add_timestamps", b, stamp) = all
  BY DEF RxCallback
<1>8. It(g)
  <2>1. ASSUME NEW t \in SUBSET (1 .. N) PROVE g[t] = turn(t, g)
    <3>1. CASE t = {}
      BY <3>1
    <3>2. CASE t # {}
      <4> DEFINE x == Max(t)
                 r == t \ {x}
      <4>1. x \in t /\ r \in SUBSET (1 .. N)
        BY <1>5, <3>2
      <4>2. turn(t, g) = RxCallback(RxCallbacks[x], b, g[r])
        BY <3>2
      <4>3. g[r] = IF \E y \in r : RxCallbacks[y] = "add_timestamps" THEN all ELSE stamp
        BY <4>1
      <4>4. g[t] = IF \E y \in t : RxCallbacks[y] = "add_timestamps" THEN all ELSE stamp
        OBVIOUS
      <4> HIDE DEF g, turn, all, x
      <4>5. CASE RxCallbacks[x] = "add_timestamps"
        BY <1>7, <4>1, <4>2, <4>3, <4>4, <4>5
      <4>6. CASE RxCallbacks[x] # "add_timestamps"
        <5>1. turn(t, g) = g[r]
          BY <4>2, <4>6 DEF RxCallback
        <5>2. (\E y \in t : RxCallbacks[y] = "add_timestamps") <=> (\E y \in r : RxCallbacks[y] = "add_timestamps")
          BY <4>1, <4>6
        <5> QED
          BY <4>3, <4>4, <5>1, <5>2
      <4> QED
        BY <4>5, <4>6
    <3> QED
      BY <3>1, <3>2
  <2> HIDE DEF turn
  <2> QED
    BY <2>1
<1>9. PICK f : f = (CHOOSE h : It(h)) /\ It(f)
  <2> HIDE DEF It
  <2> QED
    BY <1>8
<1>10. Alike(f, g, N)
  <2>1. f[{}] = stamp /\ g[{}] = stamp
    BY <1>9
  <2>2. ASSUME NEW t \in SUBSET (1 .. N), t # {}, f[t \ {Max(t)}] = g[t \ {Max(t)}] PROVE f[t] = g[t]
    <3>1. f[t] = turn(t, f) /\ g[t] = turn(t, g)
      <4> HIDE DEF turn, g
      <4> QED
        BY <1>8, <1>9
    <3> HIDE DEF g, It
    <3> QED
      BY <2>2, <3>1
  <2> HIDE DEF g, It
  <2> QED
    BY <2>1, <2>2 DEF Alike
<1>11. f[1 .. N] = g[1 .. N]
  <2> HIDE DEF g
  <2> QED
    BY <1>1, <1>10, FoldIs
<1>12. g[1 .. N] = all
  BY <1>4
<1> QED
  BY <1>2, <1>9, <1>11, <1>12

(* Two sums of unsigned differences over the same packets.                 *)
LEMMA SumAgrees ==
  ASSUME NEW S, NEW base, \A p \in S : stamp[p] = came[p]
  PROVE  FoldSet(LAMBDA p, sum : (sum + clock - stamp[p]) % Word, base, S)
           = FoldSet(LAMBDA p, sum : (sum + clock - came[p]) % Word, base, S)
<1> DEFINE Take(s) == CHOOSE x \in s : TRUE
           ItS(f) == f = [s \in SUBSET S |-> IF s = {} THEN base ELSE (f[s \ {Take(s)}] + clock - stamp[Take(s)]) % Word]
           ItC(f) == f = [s \in SUBSET S |-> IF s = {} THEN base ELSE (f[s \ {Take(s)}] + clock - came[Take(s)]) % Word]
<1>1. ASSUME NEW f PROVE ItS(f) <=> ItC(f)
  <2>1. \A s \in SUBSET S : s # {} => stamp[Take(s)] = came[Take(s)]
    OBVIOUS
  <2> HIDE DEF Take
  <2> QED
    BY <2>1
<1>2. FoldSet(LAMBDA p, sum : (sum + clock - stamp[p]) % Word, base, S) = (CHOOSE f : ItS(f))[S]
  BY DEF FoldSet, MapThenFoldSet
<1>3. FoldSet(LAMBDA p, sum : (sum + clock - came[p]) % Word, base, S) = (CHOOSE f : ItC(f))[S]
  BY DEF FoldSet, MapThenFoldSet
<1>4. (CHOOSE f : ItS(f)) = (CHOOSE f : ItC(f))
  <2> HIDE DEF ItS, ItC
  <2> QED
    BY <1>1
<1> QED
  BY <1>2, <1>3, <1>4

(* With calc_latency once in the list the latencies of a burst are added    *)
(* once, whatever stands before it or behind it.                            *)
LEMMA TxAddsOnce ==
  ASSUME TxCallbacks \in Seq(STRING), NEW j \in DOMAIN TxCallbacks,
         \A i \in DOMAIN TxCallbacks : TxCallbacks[i] = "calc_latency" <=> i = j,
         NEW burst, NEW base
  PROVE  FoldLeft(LAMBDA cycles, cb : TxCallback(cb, burst, cycles), base, TxCallbacks)
           = FoldSet(LAMBDA p, sum : (sum + clock - stamp[p]) % Word, base, burst)
<1> DEFINE N == Len(TxCallbacks)
           turn(t, f) == IF t = {} THEN base ELSE TxCallback(TxCallbacks[Max(t)], burst, f[t \ {Max(t)}])
           It(f) == f = [t \in SUBSET (1 .. N) |-> turn(t, f)]
<1>1. DOMAIN TxCallbacks = 1 .. N /\ N \in Nat
  OBVIOUS
<1>2. FoldLeft(LAMBDA cycles, cb : TxCallback(cb, burst, cycles), base, TxCallbacks)
        = (CHOOSE f : It(f))[1 .. N]
  BY <1>1 DEF FoldLeft, MapThenFoldSet
<1>3. PICK added : added = FoldSet(LAMBDA p, sum : (sum + clock - stamp[p]) % Word, base, burst)
  OBVIOUS
<1>4. TxCallback("calc_latency", burst, base) = added
  BY <1>3 DEF TxCallback
<1> DEFINE g == [t \in SUBSET (1 .. N) |-> IF j \in t THEN added ELSE base]
<1> HIDE DEF N
<1>5. ASSUME NEW t \in SUBSET (1 .. N), t # {} PROVE Max(t) \in t
  BY <1>1, <1>5, MaxIn
<1>8. It(g)
  <2>1. ASSUME NEW t \in SUBSET (1 .. N) PROVE g[t] = turn(t, g)
    <3>1. CASE t = {}
      BY <3>1
    <3>2. CASE t # {}
      <4> DEFINE x == Max(t)
                 r == t \ {x}
      <4>1. x \in t /\ r \in SUBSET (1 .. N)
        BY <1>5, <3>2
      <4>2. turn(t, g) = TxCallback(TxCallbacks[x], burst, g[r])
        BY <3>2
      <4>3. g[r] = IF j \in r THEN added ELSE base
        BY <4>1
      <4>4. g[t] = IF j \in t THEN added ELSE base
        OBVIOUS
      <4> HIDE DEF g, turn, x
      <4>5. CASE x = j
        <5>1. TxCallbacks[x] = "calc_latency" /\ g[r] = base /\ g[t] = added
          BY <1>1, <4>1, <4>3, <4>4, <4>5
        <5> QED
          BY <1>4, <4>2, <5>1
      <4>6. CASE x # j
        <5>1. TxCallbacks[x] # "calc_latency" /\ (j \in r <=> j \in t)
          BY <1>1, <4>1, <4>6
        <5>2. turn(t, g) = g[r]
          BY <4>2, <5>1 DEF TxCallback
        <5> QED
          BY <4>3, <4>4, <5>1, <5>2
      <4> QED
        BY <4>5, <4>6
    <3> QED
      BY <3>1, <3>2
  <2> HIDE DEF turn
  <2> QED
    BY <2>1
<1>9. PICK f : f = (CHOOSE h : It(h)) /\ It(f)
  <2> HIDE DEF It
  <2> QED
    BY <1>8
<1>10. Alike(f, g, N)
  <2>1. f[{}] = base /\ g[{}] = base
    BY <1>9
  <2>2. ASSUME NEW t \in SUBSET (1 .. N), t # {}, f[t \ {Max(t)}] = g[t \ {Max(t)}] PROVE f[t] = g[t]
    <3>1. f[t] = turn(t, f) /\ g[t] = turn(t, g)
      <4> HIDE DEF turn, g
      <4> QED
        BY <1>8, <1>9
    <3> HIDE DEF g, It
    <3> QED
      BY <2>2, <3>1
  <2> HIDE DEF g, It
  <2> QED
    BY <2>1, <2>2 DEF Alike
<1>11. f[1 .. N] = g[1 .. N]
  <2> HIDE DEF g
  <2> QED
    BY <1>1, <1>10, FoldIs
<1>12. g[1 .. N] = added
  BY <1>1
<1> QED
  BY <1>2, <1>3, <1>9, <1>11, <1>12

(* The packets come in order, and those the lcore has taken carry the time  *)
(* at which it did.                                                         *)
Taken == 1 .. (given + Len(bufs))

LatencyInv ==
  /\ bufs \in Seq(Nat) /\ rxq \in Seq(Nat)
  /\ \A i \in 1 .. Len(bufs) : bufs[i] = given + i
  /\ \A i \in 1 .. Len(rxq) : rxq[i] = given + Len(bufs) + i
  /\ arrived = given + Len(bufs) + Len(rxq) /\ arrived <= MaxPkts
  /\ stamp = [p \in Pkts |-> stamp[p]]
  /\ \A p \in Taken : stamp[p] = came[p]
  /\ LatencyReal

(* What rxtx_callbacks.cr:81,84 registers for a port.                       *)
Registered ==
  /\ RxCallbacks \in Seq(STRING) /\ "add_timestamps" \in ToSet(RxCallbacks)
  /\ TxCallbacks \in Seq(STRING)
  /\ \E j \in DOMAIN TxCallbacks : \A i \in DOMAIN TxCallbacks : TxCallbacks[i] = "calc_latency" <=> i = j

(* Both sums grow by the same when the packets of a flush were all taken.   *)
LEMMA BurstAddsSame ==
  ASSUME Registered, LatencyInv, given \in Nat, tx_pkt_burst,
         (wire' \cup freed') \ (wire \cup freed) \subseteq Taken
  PROVE  LatencyReal'
<1> DEFINE burst == (wire' \cup freed') \ (wire \cup freed)
<1>1. CASE burst = {}
  <2>1. latency' = latency
    BY <1>1 DEF tx_pkt_burst
  <2> QED
    BY <2>1 DEF LatencyInv, LatencyReal
<1>2. CASE burst # {}
  <2>1. rte_eth_tx_burst_cbs(burst)
    BY <1>2 DEF tx_pkt_burst
  <2>2. PICK b : b = burst
    OBVIOUS
  <2>3. \A p \in b : stamp[p] = came[p]
    BY <2>2 DEF LatencyInv
  <2> HIDE DEF burst
  <2>4. rte_eth_tx_burst_cbs(b)
    BY <2>1, <2>2
  <2>5. PICK base : base = latency.total /\ base = latency.true
    BY DEF LatencyInv, LatencyReal
  <2>6. latency'.total = FoldLeft(LAMBDA cycles, cb : TxCallback(cb, b, cycles), base, TxCallbacks)
    BY <2>4, <2>5 DEF rte_eth_tx_burst_cbs
  <2>7. latency'.true = FoldSet(LAMBDA p, sum : (sum + clock - came[p]) % Word, base, b)
    BY <2>4, <2>5 DEF rte_eth_tx_burst_cbs
  <2>8. FoldLeft(LAMBDA cycles, cb : TxCallback(cb, b, cycles), base, TxCallbacks)
          = FoldSet(LAMBDA p, sum : (sum + clock - stamp[p]) % Word, base, b)
    BY TxAddsOnce DEF Registered
  <2>9. FoldSet(LAMBDA p, sum : (sum + clock - stamp[p]) % Word, base, b)
          = FoldSet(LAMBDA p, sum : (sum + clock - came[p]) % Word, base, b)
    BY <2>3, SumAgrees
  <2> QED
    BY <2>6, <2>7, <2>8, <2>9 DEF LatencyReal
<1> QED
  BY <1>1, <1>2

(* The packets that leave a buffer are among those given to it.             *)
LEMMA FlushOfGiven ==
  ASSUME TxBufferInv'
  PROVE  wire' \cup freed' \subseteq 1 .. given' /\ given' \in Nat
  BY DEF TxBufferInv, TypeOK, EachPacketOnce

LEMMA LatencyInit == DevInit => LatencyInv
<1> SUFFICES ASSUME DevInit PROVE LatencyInv
  OBVIOUS
<1>1. given = 0 /\ bufs = << >> /\ rxq = << >> /\ arrived = 0 /\ latency = [total |-> 0, true |-> 0]
      /\ stamp = [p \in Pkts |-> Word - 1]
  BY DEF DevInit, Init
<1>2. Len(bufs) = 0 /\ Len(rxq) = 0 /\ bufs \in Seq(Nat) /\ rxq \in Seq(Nat)
  BY <1>1
<1>3. stamp = [p \in Pkts |-> stamp[p]]
  BY <1>1
<1>4. LatencyReal
  BY <1>1 DEF LatencyReal
<1>5. Taken = {}
  BY <1>1, <1>2 DEF Taken
<1> QED
  BY <1>1, <1>2, <1>3, <1>4, <1>5, MaxPktsAssumption DEF LatencyInv

(* A burst: taken from the front of the queue, and all of it stamped.       *)
LEMMA RxKeeps ==
  ASSUME Registered, LatencyInv, given \in Nat, rte_eth_rx_burst
  PROVE  LatencyInv'
<1>1. PICK n \in 1 .. BURST_SIZE :
        /\ n <= Len(rxq)
        /\ bufs' = SubSeq(rxq, 1, n) /\ rxq' = SubSeq(rxq, n + 1, Len(rxq))
        /\ stamp' = RunRx(bufs')
        /\ came' = [p \in Pkts |-> IF p \in ToSet(bufs') THEN clock ELSE came[p]]
  BY DEF rte_eth_rx_burst
<1>2. bufs = << >> /\ Len(bufs) = 0 /\ given' = given /\ arrived' = arrived /\ latency' = latency
  BY DEF rte_eth_rx_burst, vars
<1>3. /\ rxq \in Seq(Nat) /\ Len(rxq) \in Nat
      /\ \A i \in 1 .. Len(rxq) : rxq[i] = given + i
      /\ arrived = given + Len(rxq) /\ arrived <= MaxPkts
      /\ stamp = [p \in Pkts |-> stamp[p]] /\ \A p \in 1 .. given : stamp[p] = came[p]
      /\ LatencyReal
  <2>1. given + Len(bufs) = given
    BY <1>2
  <2>2. /\ rxq \in Seq(Nat) /\ \A i \in 1 .. Len(rxq) : rxq[i] = given + Len(bufs) + i
        /\ arrived = given + Len(bufs) + Len(rxq) /\ arrived <= MaxPkts
        /\ stamp = [p \in Pkts |-> stamp[p]] /\ \A p \in 1 .. (given + Len(bufs)) : stamp[p] = came[p]
        /\ LatencyReal
    BY DEF LatencyInv, Taken
  <2>3. /\ \A i \in 1 .. Len(rxq) : rxq[i] = given + i
        /\ arrived = given + Len(rxq) /\ \A p \in 1 .. given : stamp[p] = came[p]
    BY <2>1, <2>2
  <2>4. Len(rxq) \in Nat
    BY <2>2
  <2> QED
    BY ONLY <2>2, <2>3, <2>4
<1>4. n \in Nat /\ n <= Len(rxq)
  BY <1>1
<1>5. /\ bufs' \in Seq(Nat) /\ Len(bufs') = n /\ \A i \in 1 .. n : bufs'[i] = given + i
      /\ rxq' \in Seq(Nat) /\ Len(rxq') = Len(rxq) - n
      /\ \A i \in 1 .. Len(rxq') : rxq'[i] = given + n + i
  <2>1. PICK s, l : s = rxq /\ l = Len(rxq)
    OBVIOUS
  <2>2. s \in Seq(Nat) /\ l = Len(s) /\ l \in Nat /\ n <= l /\ \A i \in 1 .. l : s[i] = given + i
    BY <1>3, <1>4, <2>1
  <2>3. PICK h, q : h = SubSeq(s, 1, n) /\ q = SubSeq(s, n + 1, l)
    OBVIOUS
  <2>4. h \in Seq(Nat) /\ Len(h) = n /\ \A i \in 1 .. n : h[i] = s[i]
    <3>1. Len(h) = n
      BY <1>4, <2>2, <2>3
    <3>2. h = [i \in 1 .. n |-> s[i]]
      BY <1>4, <2>2, <2>3
    <3>3. \A i \in 1 .. n : s[i] \in Nat
      BY <1>4, <2>2
    <3>4. h \in Seq(Nat)
      BY <1>4, <3>2, <3>3
    <3>5. \A i \in 1 .. n : h[i] = s[i]
      BY <1>4, <2>2, <2>3
    <3> QED
      BY <3>1, <3>4, <3>5
  <2>5. q \in Seq(Nat) /\ Len(q) = l - n /\ \A i \in 1 .. (l - n) : q[i] = s[n + i]
    BY <1>4, <2>2, <2>3
  <2>6. \A i \in 1 .. n : h[i] = given + i
    BY <1>4, <2>2, <2>4
  <2>7. \A i \in 1 .. (l - n) : q[i] = given + n + i
    BY <1>4, <2>2, <2>5
  <2>8. bufs' = h /\ rxq' = q
    BY <1>1, <2>1, <2>3
  <2> QED
    BY <2>1, <2>4, <2>5, <2>6, <2>7, <2>8
<1>6. \A i \in 1 .. Len(rxq') : rxq'[i] = given + n + i
  BY <1>5
<1>7. PICK b : b = bufs'
  OBVIOUS
<1>8. stamp' = [p \in Pkts |-> IF p \in ToSet(b) THEN clock ELSE stamp[p]]
  <2>1. DOMAIN stamp = Pkts
    BY <1>3
  <2>2. stamp' = RunRx(b)
    BY <1>1, <1>7
  <2>3. RunRx(b) = [p \in Pkts |-> IF p \in ToSet(b) THEN clock ELSE stamp[p]]
    <3>1. stamp = [p \in Pkts |-> stamp[p]]
      BY <1>3
    <3> QED
      BY <2>1, <3>1, RunRxStamps DEF Registered
  <2> QED
    BY <2>2, <2>3
<1>9. came' = [p \in Pkts |-> IF p \in ToSet(b) THEN clock ELSE came[p]]
  BY <1>1, <1>7
<1>10. \A p \in (given + 1) .. (given + n) : p \in ToSet(b)
  <2>1. ASSUME NEW p \in (given + 1) .. (given + n) PROVE p \in ToSet(b)
    <3>1. p - given \in 1 .. n /\ b[p - given] = p
      BY <1>4, <1>5, <1>7
    <3>2. p - given \in DOMAIN b
      BY <1>5, <1>7, <3>1
    <3> QED
      BY <3>1, <3>2 DEF ToSet
  <2> QED
    BY <2>1
<1>11. \A p \in 1 .. (given + n) : stamp'[p] = came'[p]
  <2>1. ASSUME NEW p \in 1 .. (given + n) PROVE stamp'[p] = came'[p]
    <3>1. p \in Pkts
      BY <1>3, <1>4, MaxPktsAssumption DEF Pkts
    <3>2. p \in 1 .. given \/ p \in (given + 1) .. (given + n)
      BY <1>4
    <3> QED
      BY <1>3, <1>8, <1>9, <1>10, <3>1, <3>2
  <2> QED
    BY <2>1
<1>12. stamp' = [p \in Pkts |-> stamp'[p]]
  BY <1>8
<1>13. LatencyReal'
  BY <1>2, <1>3 DEF LatencyReal
<1>14. arrived' = given' + Len(bufs') + Len(rxq') /\ arrived' <= MaxPkts
  BY <1>2, <1>3, <1>4, <1>5
<1> QED
  BY <1>2, <1>5, <1>6, <1>11, <1>12, <1>13, <1>14 DEF LatencyInv, Taken

(* The next packet of a burst goes to the buffer, which may flush.          *)
LEMMA ForwardKeeps ==
  ASSUME Registered, LatencyInv, given \in Nat, TxBufferInv', Forward
  PROVE  LatencyInv'
<1>1. PICK b, g : b = bufs /\ g = given
  OBVIOUS
<1>2. /\ b # << >> /\ b \in Seq(Nat) /\ \A i \in 1 .. Len(b) : b[i] = g + i /\ g \in Nat
      /\ bufs' = Tail(b) /\ given' = g + 1 /\ arrived' = arrived /\ rxq' = rxq
      /\ stamp' = stamp /\ came' = came /\ tx_pkt_burst
  BY <1>1 DEF Forward, rte_eth_tx_buffer, LatencyInv
<1>3. /\ Tail(b) \in Seq(Nat) /\ Len(Tail(b)) = Len(b) - 1 /\ Len(b) \in Nat \ {0}
      /\ \A i \in 1 .. (Len(b) - 1) : Tail(b)[i] = b[i + 1]
  BY <1>2
<1>4. PICK t : t = Tail(b)
  OBVIOUS
<1>5. \A i \in 1 .. Len(t) : t[i] = g + 1 + i
  BY <1>2, <1>3, <1>4
<1>6. given' + Len(bufs') = given + Len(bufs) /\ Taken' = Taken
  <2>1. (g + 1) + Len(t) = g + Len(b)
    BY <1>2, <1>3, <1>4
  <2>2. given' + Len(bufs') = given + Len(bufs)
    BY <1>1, <1>2, <1>4, <2>1
  <2> QED
    BY <2>2 DEF Taken
<1>7. 1 .. given' \subseteq Taken
  BY <1>1, <1>2, <1>3 DEF Taken
<1>8. LatencyReal'
  BY <1>2, <1>7, FlushOfGiven, BurstAddsSame
<1>9. /\ bufs' \in Seq(Nat) /\ \A i \in 1 .. Len(bufs') : bufs'[i] = given' + i
  BY <1>2, <1>3, <1>4, <1>5
<1>10. /\ rxq' \in Seq(Nat) /\ \A i \in 1 .. Len(rxq') : rxq'[i] = given' + Len(bufs') + i
       /\ arrived' = given' + Len(bufs') + Len(rxq') /\ arrived' <= MaxPkts
       /\ stamp' = [p \in Pkts |-> stamp'[p]] /\ \A p \in Taken' : stamp'[p] = came'[p]
  BY <1>2, <1>6 DEF LatencyInv
<1> QED
  BY <1>8, <1>9, <1>10 DEF LatencyInv

LEMMA DrainKeeps ==
  ASSUME Registered, LatencyInv, given \in Nat, TxBufferInv', Drain
  PROVE  LatencyInv'
<1>1. /\ UNCHANGED <<given, bufs, rxq, arrived, stamp, came>> /\ tx_pkt_burst
  BY DEF Drain, rte_eth_tx_buffer_flush
<1>2. Len(bufs) \in Nat
  BY DEF LatencyInv
<1>3. 1 .. given' \subseteq Taken
  BY <1>1, <1>2 DEF Taken
<1>4. LatencyReal'
  BY <1>1, <1>3, FlushOfGiven, BurstAddsSame
<1> QED
  BY <1>1, <1>4 DEF LatencyInv, Taken

LEMMA NicKeeps ==
  ASSUME LatencyInv, given \in Nat, NicReceives
  PROVE  LatencyInv'
<1>1. PICK q, m : q = rxq /\ m = given + Len(bufs)
  OBVIOUS
<1>2. /\ arrived < MaxPkts /\ arrived' = arrived + 1 /\ rxq' = Append(q, arrived + 1)
      /\ UNCHANGED <<given, bufs, stamp, came, latency>>
  BY <1>1 DEF NicReceives, vars
<1>3. /\ q \in Seq(Nat) /\ m \in Nat /\ arrived = m + Len(q) /\ \A i \in 1 .. Len(q) : q[i] = m + i
  BY <1>1 DEF LatencyInv
<1>4. PICK r : r = Append(q, arrived + 1)
  OBVIOUS
<1>5. r \in Seq(Nat) /\ Len(r) = Len(q) + 1 /\ Len(q) \in Nat
      /\ r[Len(q) + 1] = arrived + 1 /\ \A i \in 1 .. Len(q) : r[i] = q[i]
  BY <1>3, <1>4
<1>6. ASSUME NEW i \in 1 .. Len(r) PROVE r[i] = m + i
  <2>1. i \in 1 .. Len(q) \/ i = Len(q) + 1
    BY <1>5
  <2> QED
    BY <1>3, <1>5, <2>1
<1>7. arrived + 1 = m + Len(r) /\ arrived + 1 <= MaxPkts
  BY <1>2, <1>3, <1>5, MaxPktsAssumption
<1>8. given' + Len(bufs') = m /\ Taken' = Taken
  BY <1>1, <1>2 DEF Taken
<1> QED
  BY <1>2, <1>4, <1>5, <1>6, <1>7, <1>8 DEF LatencyInv, LatencyReal

LEMMA OthersKeep ==
  ASSUME LatencyInv, UNCHANGED <<given, arrived, rxq, bufs, stamp, came, latency>>
  PROVE  LatencyInv'
  BY DEF LatencyInv, LatencyReal, Taken

(* The latency added up is that of the packets shown to calc_latency, each  *)
(* from the burst that delivered it: no packet gets past the receive        *)
(* callbacks unstamped.  For every list of callbacks in which each of the   *)
(* two is registered, calc_latency once, among any others in any order, for *)
(* every size of burst, buffer and rings, and for counters of every width.  *)
THEOREM DevLatencyReal ==
  ASSUME Registered
  PROVE  DevSpec => []LatencyReal
<1>1. DevSpec => []TxBufferInv
  BY DevKeepsBuffer, TxBufferInvariant, PTL
<1>2. ASSUME LatencyInv, TxBufferInv, TxBufferInv', [DevNext]_allVars PROVE LatencyInv'
  <2>1. given \in Nat
    BY <1>2 DEF TxBufferInv, TypeOK
  <2>2. CASE rte_eth_rx_burst
    BY <1>2, <2>1, <2>2, RxKeeps
  <2>3. CASE Forward
    BY <1>2, <2>1, <2>3, ForwardKeeps
  <2>4. CASE Drain
    BY <1>2, <2>1, <2>4, DrainKeeps
  <2>5. CASE NicReceives
    BY <1>2, <2>1, <2>5, NicKeeps
  <2>6. CASE UNCHANGED <<given, arrived, rxq, bufs, stamp, came, latency>>
    BY <1>2, <2>6, OthersKeep
  <2> QED
    BY <1>2, <2>2, <2>3, <2>4, <2>5, <2>6
       DEF DevNext, NicSends, Tick, Ask, AskPrepare, Quiet, allVars, vars, devVars
<1>3. LatencyInv => LatencyReal
  BY DEF LatencyInv
<1> QED
  BY <1>1, <1>2, <1>3, LatencyInit, PTL DEF DevSpec
-----------------------------------------------------------------------------
(* Chains of mbufs: the memory.                                             *)

Mbuf ==
  [refcnt : Small, next : Mbufs \cup {NULL}, nb_segs : 1 .. RTE_MBUF_MAX_NB_SEGS,
   pkt_len : Nat, data_len : Small, data_off : Small, buf_addr : Addresses, buf_iova : Addresses,
   buf_len : Small, priv_size : Small, attached : BOOLEAN, in_pool : {0, 1}]

LEMMA Sizes ==
  /\ \A x \in {SizeofMbuf, RTE_PKTMBUF_HEADROOM, RTE_MBUF_MAX_NB_SEGS, UINT16, MaxHeld, MaxLen} : x \in Nat /\ x # 0
  /\ \A m : pool(m) \in Pools
  /\ \A mp \in Pools : rte_pktmbuf_data_room_size(mp) \in Small /\ rte_pktmbuf_priv_size(mp) \in Small
  BY BufAssumption DEF Pools, pool, rte_pktmbuf_data_room_size, rte_pktmbuf_priv_size, Small

LEMMA Numbers ==
  /\ SizeofMbuf \in Nat /\ RTE_PKTMBUF_HEADROOM \in Nat /\ RTE_MBUF_MAX_NB_SEGS \in Nat /\ RTE_MBUF_MAX_NB_SEGS # 0
  /\ UINT16 \in Nat /\ UINT16 # 0 /\ MaxHeld \in Nat /\ MaxHeld # 0 /\ MaxLen \in Nat
  BY Sizes

LEMMA Baddr ==
  ASSUME NEW m \in Mbufs
  PROVE  rte_mbuf_to_baddr(m) \in Addresses
<1>1. rte_pktmbuf_priv_size(pool(m)) \in 0 .. UINT16 - 1
  BY Sizes DEF Small
<1>2. SizeofMbuf + rte_pktmbuf_priv_size(pool(m)) \in 0 .. SizeofMbuf + 2 * UINT16
  BY <1>1, Numbers
<1> QED
  BY <1>2 DEF rte_mbuf_to_baddr, Addresses

LEMMA HeadroomFits ==
  ASSUME NEW n \in Small
  PROVE  Headroom0(n) \in Small /\ Headroom0(n) <= n
  BY Numbers DEF Headroom0, RTE_MIN, Small

(* What an mbuf holds once some of its fields are written.                  *)
LEMMA Written ==
  ASSUME NEW s \in [Mbufs -> Mbuf], NEW m \in Mbufs, NEW x \in Mbuf, NEW t, t = [s EXCEPT ![m] = x]
  PROVE  t \in [Mbufs -> Mbuf] /\ t[m] = x /\ \A i \in Mbufs : i # m => t[i] = s[i]
  OBVIOUS

LEMMA ResetIs ==
  ASSUME NEW s \in [Mbufs -> Mbuf], NEW m \in Mbufs
  PROVE  LET t == rte_pktmbuf_reset(s, m) IN
         /\ t \in [Mbufs -> Mbuf] /\ \A i \in Mbufs : i # m => t[i] = s[i]
         /\ t[m].refcnt = s[m].refcnt /\ t[m].next = NULL /\ t[m].nb_segs = 1 /\ t[m].pkt_len = 0
         /\ t[m].data_len = 0 /\ t[m].data_off = Headroom0(s[m].buf_len)
         /\ t[m].buf_addr = s[m].buf_addr /\ t[m].buf_iova = s[m].buf_iova /\ t[m].buf_len = s[m].buf_len
         /\ t[m].priv_size = s[m].priv_size /\ t[m].attached = FALSE /\ t[m].in_pool = s[m].in_pool
<1>1. s[m] \in Mbuf /\ s[m].buf_len \in Small
  BY DEF Mbuf
<1>2. Headroom0(s[m].buf_len) \in Small
  BY <1>1, HeadroomFits
<1> DEFINE x == [s[m] EXCEPT !.next = NULL, !.pkt_len = 0, !.nb_segs = 1, !.attached = FALSE,
                             !.data_len = 0, !.data_off = Headroom0(s[m].buf_len)]
<1>3. x \in Mbuf
  <2>1. 0 \in Small /\ 1 \in 1 .. RTE_MBUF_MAX_NB_SEGS /\ 0 \in Nat /\ NULL \in Mbufs \cup {NULL} /\ FALSE \in BOOLEAN
    BY Numbers DEF Small
  <2> QED
    BY <1>1, <1>2, <2>1 DEF Mbuf
<1>4. rte_pktmbuf_reset(s, m) = [s EXCEPT ![m] = x]
  BY <1>1 DEF rte_pktmbuf_reset, rte_pktmbuf_reset_headroom, Mbuf
<1>5. /\ x.refcnt = s[m].refcnt /\ x.next = NULL /\ x.nb_segs = 1 /\ x.pkt_len = 0
      /\ x.data_len = 0 /\ x.data_off = Headroom0(s[m].buf_len)
      /\ x.buf_addr = s[m].buf_addr /\ x.buf_iova = s[m].buf_iova /\ x.buf_len = s[m].buf_len
      /\ x.priv_size = s[m].priv_size /\ x.attached = FALSE /\ x.in_pool = s[m].in_pool
  BY <1>1 DEF Mbuf
<1> HIDE DEF x
<1> QED
  BY <1>3, <1>4, <1>5, Written

(* The mbuf whose buffer m uses, and the mbufs attached to the one of m.    *)
Own(s, m) == s[m].buf_addr[1]
Att(s, m) == {i \in Mbufs \ {m} : Own(s, i) = m}

(* m uses the buffer of o and knows its length and its place.               *)
Uses(x, m, o) ==
  /\ x.buf_addr = rte_mbuf_to_baddr(o) /\ x.buf_iova = rte_mbuf_to_baddr(o)
  /\ x.buf_len = rte_pktmbuf_data_room_size(pool(o)) /\ x.priv_size = rte_pktmbuf_priv_size(pool(o))
  /\ x.attached = (o # m)

Fits(x) ==
  /\ x.data_off + x.data_len <= x.buf_len
  /\ x.next = NULL => x.nb_segs = 1

Clean(x, m) == Uses(x, m, m) /\ Fits(x) /\ x.refcnt = 1 /\ x.next = NULL /\ x.nb_segs = 1 /\ x.in_pool = 1

(* Only the count of i differs.                                             *)
Same(t, s, i) ==
  /\ t[i].next = s[i].next /\ t[i].nb_segs = s[i].nb_segs
  /\ t[i].pkt_len = s[i].pkt_len /\ t[i].data_len = s[i].data_len /\ t[i].data_off = s[i].data_off
  /\ t[i].buf_addr = s[i].buf_addr /\ t[i].buf_iova = s[i].buf_iova /\ t[i].buf_len = s[i].buf_len
  /\ t[i].priv_size = s[i].priv_size /\ t[i].attached = s[i].attached /\ t[i].in_pool = s[i].in_pool

(* The memory when r[m] references to m are held: what an mbuf is attached  *)
(* to is direct and in use; the count of an mbuf in use is the references   *)
(* to it plus the mbufs attached to it; one in its pool is clean and unused.*)
MemInv(s, r) ==
  /\ s \in [Mbufs -> Mbuf] /\ r \in [Mbufs -> 0 .. MaxHeld]
  /\ \A m \in Mbufs : Own(s, m) \in Mbufs /\ Own(s, Own(s, m)) = Own(s, m)
  /\ \A m \in Mbufs : Uses(s[m], m, Own(s, m)) /\ Fits(s[m])
  /\ \A m \in Mbufs : s[m].in_pool = 0 => s[m].refcnt = r[m] + Cardinality(Att(s, m)) /\ s[m].refcnt # 0
  /\ \A m \in Mbufs : s[m].in_pool # 0 => Clean(s[m], m) /\ r[m] = 0 /\ Att(s, m) = {}

LEMMA OwnIs ==
  ASSUME NEW s, NEW i, NEW o, NEW m, Uses(s[i], m, o)
  PROVE  Own(s, i) = o
  BY DEF Own, Uses, rte_mbuf_to_baddr

LEMMA SameOwn ==
  ASSUME NEW s, NEW t, NEW i, Same(t, s, i)
  PROVE  Own(t, i) = Own(s, i)
  BY DEF Own, Same

LEMMA AttFinite ==
  ASSUME NEW s, NEW m
  PROVE  IsFiniteSet(Att(s, m)) /\ Cardinality(Att(s, m)) \in Nat
<1>1. Att(s, m) \subseteq Mbufs
  BY DEF Att
<1> QED
  BY <1>1, BufAssumption, FS_Subset, FS_CardinalityType

LEMMA AttSame ==
  ASSUME NEW s, NEW t, \A i \in Mbufs : Own(t, i) = Own(s, i), NEW m
  PROVE  Att(t, m) = Att(s, m)
  BY DEF Att

(* An attached mbuf has a reference and no mbuf attached to it; the mbuf it *)
(* is attached to is in use.                                                *)
LEMMA Indirect ==
  ASSUME NEW s, NEW r, MemInv(s, r), NEW m \in Mbufs, Own(s, m) # m
  PROVE  /\ Att(s, m) = {} /\ s[m].in_pool = 0 /\ s[m].refcnt = r[m] /\ r[m] # 0
         /\ Own(s, m) \in Mbufs /\ s[Own(s, m)].in_pool = 0 /\ m \in Att(s, Own(s, m)) /\ s[m].attached
         /\ Own(s, Own(s, m)) = Own(s, m)
<1>1. Att(s, m) = {}
  <2>1. ASSUME NEW i \in Mbufs, Own(s, i) = m PROVE FALSE
    BY <2>1 DEF MemInv
  <2> QED
    BY <2>1 DEF Att
<1>2. s[m].in_pool = 0
  <2>1. ASSUME s[m].in_pool # 0 PROVE FALSE
    <3>1. Clean(s[m], m)
      BY <2>1 DEF MemInv
    <3>2. Own(s, m) = m
      BY <3>1, OwnIs DEF Clean
    <3> QED
      BY <3>2
  <2> QED
    BY <2>1
<1>3. s[m].refcnt = r[m] /\ r[m] # 0
  <2>1. s[m].refcnt = r[m] + Cardinality(Att(s, m)) /\ s[m].refcnt # 0
    BY <1>2 DEF MemInv
  <2>2. Cardinality(Att(s, m)) = 0
    BY <1>1, FS_EmptySet
  <2>3. r[m] \in 0 .. MaxHeld
    BY DEF MemInv
  <2> QED
    BY <2>1, <2>2, <2>3, Numbers
<1>4. Own(s, m) \in Mbufs /\ m \in Att(s, Own(s, m)) /\ Own(s, Own(s, m)) = Own(s, m)
  BY DEF MemInv, Att
<1>5. s[Own(s, m)].in_pool = 0
  BY <1>4 DEF MemInv
<1>6. s[m].attached
  BY DEF MemInv, Uses
<1> QED
  BY <1>1, <1>2, <1>3, <1>4, <1>5, <1>6

LEMMA OwnerIs ==
  ASSUME NEW s, NEW r, MemInv(s, r), NEW m \in Mbufs
  PROVE  /\ Owner(s, m) = Own(s, m)
         /\ Own(s, m) # m => rte_mbuf_from_indirect(s, m) = Own(s, m)
         /\ RTE_MBUF_INDIRECT(s, m) <=> Own(s, m) # m
<1>1. Uses(s[m], m, Own(s, m)) /\ Own(s, m) \in Mbufs
  BY DEF MemInv
<1>2. s[m].attached = (Own(s, m) # m)
  BY <1>1 DEF Uses
<1>3. PICK o : o = Own(s, m)
  OBVIOUS
<1>4. o \in Mbufs /\ s[m].buf_addr = <<o, SizeofMbuf + s[m].priv_size>>
  BY <1>1, <1>3 DEF Uses, rte_mbuf_to_baddr
<1>5. s[m].priv_size \in Nat
  BY DEF MemInv, Mbuf, Small
<1>6. \A md \in Mbufs : Plus(<<md, 0>>, SizeofMbuf + s[m].priv_size) = s[m].buf_addr <=> md = o
  <2>1. ASSUME NEW md \in Mbufs
        PROVE  Plus(<<md, 0>>, SizeofMbuf + s[m].priv_size) = <<md, SizeofMbuf + s[m].priv_size>>
    BY <1>5, Numbers DEF Plus
  <2>2. ASSUME NEW md \in Mbufs, <<md, SizeofMbuf + s[m].priv_size>> = <<o, SizeofMbuf + s[m].priv_size>>
        PROVE  md = o
    BY <2>2
  <2> QED
    BY <1>4, <2>1, <2>2
<1>7. rte_mbuf_from_indirect(s, m) = o
  BY <1>4, <1>6 DEF rte_mbuf_from_indirect
<1> QED
  BY <1>2, <1>3, <1>7 DEF Owner, RTE_MBUF_DIRECT, RTE_MBUF_INDIRECT

(* The buffer of its own that m gets back.                                  *)
LEMMA RestoreIs ==
  ASSUME NEW s \in [Mbufs -> Mbuf], NEW m \in Mbufs
  PROVE  LET t == Restore(s, m) IN
         /\ t \in [Mbufs -> Mbuf] /\ \A i \in Mbufs : i # m => t[i] = s[i]
         /\ t[m].refcnt = s[m].refcnt /\ t[m].next = s[m].next /\ t[m].nb_segs = s[m].nb_segs
         /\ t[m].in_pool = s[m].in_pool /\ t[m].data_off + t[m].data_len <= t[m].buf_len
         /\ Uses(t[m], m, m)
<1> DEFINE room == rte_pktmbuf_data_room_size(pool(m))
           priv == rte_pktmbuf_priv_size(pool(m))
           x == [s[m] EXCEPT !.priv_size = priv, !.buf_addr = rte_mbuf_to_baddr(m), !.buf_iova = rte_mbuf_to_baddr(m),
                             !.buf_len = room, !.data_len = 0, !.attached = FALSE, !.data_off = Headroom0(room)]
<1>1. s[m] \in Mbuf /\ room \in Small /\ priv \in Small
  BY Sizes
<1>2. Headroom0(room) \in Small /\ Headroom0(room) <= room /\ 0 \in Small /\ FALSE \in BOOLEAN
  BY <1>1, HeadroomFits, Numbers DEF Small
<1>3. rte_mbuf_to_baddr(m) \in Addresses
  BY Baddr
<1>4. Plus(rte_mempool_virt2iova(m), SizeofMbuf + priv) = rte_mbuf_to_baddr(m)
  <2>1. 0 + (SizeofMbuf + priv) = SizeofMbuf + priv
    BY <1>1, Numbers DEF Small
  <2> QED
    BY <2>1 DEF Plus, rte_mempool_virt2iova, rte_mbuf_to_baddr
<1>5. Restore(s, m) = [s EXCEPT ![m] = x]
  <2>1. <<m, SizeofMbuf + priv>> = rte_mbuf_to_baddr(m)
    BY DEF rte_mbuf_to_baddr
  <2> HIDE DEF room, priv
  <2> QED
    BY <1>1, <1>4, <2>1 DEF Restore, rte_pktmbuf_reset_headroom, Mbuf, room, priv
<1> HIDE DEF room, priv
<1>6. x \in Mbuf
  BY <1>1, <1>2, <1>3 DEF Mbuf
<1>7. /\ x.refcnt = s[m].refcnt /\ x.next = s[m].next /\ x.nb_segs = s[m].nb_segs /\ x.in_pool = s[m].in_pool
      /\ x.data_off = Headroom0(room) /\ x.data_len = 0 /\ x.buf_len = room /\ x.priv_size = priv
      /\ x.buf_addr = rte_mbuf_to_baddr(m) /\ x.buf_iova = rte_mbuf_to_baddr(m) /\ x.attached = FALSE
  BY <1>1 DEF Mbuf
<1> HIDE DEF x
<1>8. x.data_off + x.data_len <= x.buf_len
  BY <1>1, <1>2, <1>7 DEF Small
<1>9. Uses(x, m, m)
  BY <1>7 DEF Uses, room, priv
<1> QED
  BY <1>5, <1>6, <1>7, <1>8, <1>9, Written

LEMMA Overwrite ==
  ASSUME NEW s \in [Mbufs -> Mbuf], NEW m \in Mbufs, NEW x, NEW y
  PROVE  [[s EXCEPT ![m] = x] EXCEPT ![m] = y] = [s EXCEPT ![m] = y]
  OBVIOUS

LEMMA RawFreeIs ==
  ASSUME NEW s \in [Mbufs -> Mbuf], NEW m \in Mbufs, s[m].in_pool = 0
  PROVE  rte_mbuf_raw_free(s, m) = [s EXCEPT ![m] = [s[m] EXCEPT !.in_pool = 1]]
<1>1. s[m] \in Mbuf /\ s[m].in_pool + 1 = 1
  OBVIOUS
<1> QED
  BY <1>1 DEF rte_mbuf_raw_free, Mbuf

LEMMA UnlinkIs ==
  ASSUME NEW s \in [Mbufs -> Mbuf], NEW m \in Mbufs
  PROVE  LET u == [s[m] EXCEPT !.next = NULL, !.nb_segs = 1] IN
         /\ [s EXCEPT ![m].next = NULL, ![m].nb_segs = 1] = [s EXCEPT ![m] = u]
         /\ u \in Mbuf /\ u.in_pool = s[m].in_pool
<1>1. s[m] \in Mbuf /\ 1 \in 1 .. RTE_MBUF_MAX_NB_SEGS /\ NULL \in Mbufs \cup {NULL}
  BY Numbers
<1>2. [s[m] EXCEPT !.next = NULL, !.nb_segs = 1] \in Mbuf
  BY <1>1 DEF Mbuf
<1>3. [s[m] EXCEPT !.next = NULL, !.nb_segs = 1].in_pool = s[m].in_pool
  BY <1>1 DEF Mbuf
<1>4. [s EXCEPT ![m].next = NULL, ![m].nb_segs = 1] = [s EXCEPT ![m] = [s[m] EXCEPT !.next = NULL, !.nb_segs = 1]]
  BY <1>1 DEF Mbuf
<1> QED
  BY <1>2, <1>3, <1>4

(* What rte_pktmbuf_free_seg does to the last reference to a direct mbuf,   *)
LEMMA FreeDirect ==
  ASSUME NEW s, NEW r, MemInv(s, r), NEW m \in Mbufs, s[m].refcnt = 1, Own(s, m) = m, s[m].in_pool = 0
  PROVE  LET t == rte_pktmbuf_free_seg(s, m) IN
         /\ t \in [Mbufs -> Mbuf] /\ \A i \in Mbufs : i # m => t[i] = s[i]
         /\ Clean(t[m], m)
<1> DEFINE x == [s[m] EXCEPT !.next = NULL, !.nb_segs = 1, !.in_pool = 1]
<1>1. s \in [Mbufs -> Mbuf] /\ s[m] \in Mbuf /\ Uses(s[m], m, m) /\ Fits(s[m])
  BY DEF MemInv
<1>2. ~RTE_MBUF_INDIRECT(s, m)
  BY OwnerIs
<1>3. x \in Mbuf
  <2>1. 1 \in 1 .. RTE_MBUF_MAX_NB_SEGS /\ NULL \in Mbufs \cup {NULL} /\ 1 \in {0, 1}
    BY Numbers
  <2> QED
    BY <1>1, <2>1 DEF Mbuf
<1>4. rte_pktmbuf_free_seg(s, m) = rte_mbuf_raw_free(Release(s, m), m)
  BY DEF rte_pktmbuf_free_seg, rte_mbuf_refcnt_read
<1>5. Release(s, m) = IF s[m].next # NULL THEN [s EXCEPT ![m] = [s[m] EXCEPT !.next = NULL, !.nb_segs = 1]] ELSE s
  BY <1>1, <1>2 DEF Release, Mbuf
<1>6. rte_mbuf_raw_free(Release(s, m), m) = [s EXCEPT ![m] = x]
  <2>1. CASE s[m].next # NULL
    <3>1. PICK u : u = [s[m] EXCEPT !.next = NULL, !.nb_segs = 1]
      OBVIOUS
    <3>2. u \in Mbuf /\ u.in_pool = 0
      BY <1>1, <3>1, UnlinkIs
    <3>3. PICK b : b = [s EXCEPT ![m] = u]
      OBVIOUS
    <3>4. b \in [Mbufs -> Mbuf] /\ b[m] = u
      BY <1>1, <3>2, <3>3, Written
    <3>5. rte_mbuf_raw_free(b, m) = [b EXCEPT ![m] = [u EXCEPT !.in_pool = 1]]
      BY <3>2, <3>4, RawFreeIs
    <3>6. [u EXCEPT !.in_pool = 1] = x
      BY <1>1, <3>1 DEF Mbuf
    <3>7. Release(s, m) = b
      BY <1>5, <2>1, <3>1, <3>3
    <3>8. [b EXCEPT ![m] = x] = [s EXCEPT ![m] = x]
      BY <1>1, <3>3, Overwrite
    <3> QED
      BY <3>5, <3>6, <3>7, <3>8
  <2>2. CASE s[m].next = NULL
    <3>1. s[m].nb_segs = 1
      BY <1>1, <2>2 DEF Fits
    <3>2. [s[m] EXCEPT !.in_pool = 1] = x
      BY <1>1, <2>2, <3>1 DEF Mbuf
    <3>3. rte_mbuf_raw_free(s, m) = [s EXCEPT ![m] = [s[m] EXCEPT !.in_pool = 1]]
      BY <1>1, RawFreeIs
    <3> QED
      BY <1>5, <2>2, <3>2, <3>3
  <2> QED
    BY <2>1, <2>2
<1>7. /\ x.refcnt = 1 /\ x.next = NULL /\ x.nb_segs = 1 /\ x.in_pool = 1
      /\ x.data_off = s[m].data_off /\ x.data_len = s[m].data_len /\ x.buf_len = s[m].buf_len
      /\ x.priv_size = s[m].priv_size /\ x.buf_addr = s[m].buf_addr /\ x.buf_iova = s[m].buf_iova
      /\ x.attached = s[m].attached
  BY <1>1 DEF Mbuf
<1> HIDE DEF x
<1>8. Clean(x, m)
  BY <1>1, <1>7 DEF Clean, Uses, Fits
<1> QED
  BY <1>1, <1>3, <1>4, <1>6, <1>8, Written

(* to one of several references,                                            *)
LEMMA FreeShared ==
  ASSUME NEW s, NEW r, MemInv(s, r), NEW m \in Mbufs, s[m].refcnt # 1, s[m].in_pool = 0
  PROVE  LET t == rte_pktmbuf_free_seg(s, m) IN
         /\ t \in [Mbufs -> Mbuf] /\ \A i \in Mbufs : i # m => t[i] = s[i]
         /\ Same(t, s, m) /\ t[m].refcnt = s[m].refcnt - 1 /\ t[m].refcnt # 0
<1> DEFINE x == [s[m] EXCEPT !.refcnt = s[m].refcnt - 1]
<1>1. s \in [Mbufs -> Mbuf] /\ s[m] \in Mbuf /\ s[m].refcnt # 0
  BY DEF MemInv
<1>2. s[m].refcnt \in Small
  BY <1>1 DEF Mbuf
<1>3. s[m].refcnt - 1 \in Small /\ s[m].refcnt - 1 # 0 /\ (s[m].refcnt + (-1)) % UINT16 = s[m].refcnt - 1
  BY <1>1, <1>2, Numbers DEF Small
<1>4. rte_mbuf_refcnt_update(s, m, -1) = [s EXCEPT ![m] = x]
  BY <1>1, <1>3 DEF rte_mbuf_refcnt_update, Mbuf
<1>5. x \in Mbuf
  BY <1>1, <1>3 DEF Mbuf
<1>6. /\ x.refcnt = s[m].refcnt - 1
      /\ x.next = s[m].next /\ x.nb_segs = s[m].nb_segs
      /\ x.pkt_len = s[m].pkt_len /\ x.data_len = s[m].data_len /\ x.data_off = s[m].data_off
      /\ x.buf_addr = s[m].buf_addr /\ x.buf_iova = s[m].buf_iova /\ x.buf_len = s[m].buf_len
      /\ x.priv_size = s[m].priv_size /\ x.attached = s[m].attached /\ x.in_pool = s[m].in_pool
  BY <1>1 DEF Mbuf
<1> HIDE DEF x
<1>7. PICK t : t = [s EXCEPT ![m] = x]
  OBVIOUS
<1>8. t \in [Mbufs -> Mbuf] /\ t[m] = x /\ \A i \in Mbufs : i # m => t[i] = s[i]
  BY <1>1, <1>5, <1>7, Written
<1>9. rte_pktmbuf_free_seg(s, m) = t
  BY <1>3, <1>4, <1>6, <1>7, <1>8 DEF rte_pktmbuf_free_seg, rte_mbuf_refcnt_read
<1>10. Same(t, s, m)
  BY <1>6, <1>8 DEF Same
<1> QED
  BY <1>3, <1>6, <1>8, <1>9, <1>10

(* and to the last reference to an attached mbuf: the owner of the buffer   *)
(* goes back to its pool when nothing else kept it.                         *)
LEMMA FreeIndirect ==
  ASSUME NEW s, NEW r, MemInv(s, r), NEW m \in Mbufs, s[m].refcnt = 1, NEW o, o = Own(s, m), o # m
  PROVE  LET t == rte_pktmbuf_free_seg(s, m) IN
         /\ t \in [Mbufs -> Mbuf] /\ \A i \in Mbufs : i # m /\ i # o => t[i] = s[i]
         /\ Clean(t[m], m)
         /\ s[o].refcnt = 1 => Clean(t[o], o)
         /\ s[o].refcnt # 1 => Same(t, s, o) /\ t[o].refcnt = s[o].refcnt - 1 /\ t[o].refcnt # 0
<1>1. /\ s \in [Mbufs -> Mbuf] /\ s[m] \in Mbuf /\ s[o] \in Mbuf /\ o \in Mbufs
      /\ s[o].in_pool = 0 /\ s[m].in_pool = 0 /\ Own(s, o) = o
  BY Indirect DEF MemInv
<1>2. RTE_MBUF_INDIRECT(s, m) /\ rte_mbuf_from_indirect(s, m) = o
  BY OwnerIs
<1>3. s[o].refcnt # 0 /\ Uses(s[o], o, o) /\ Fits(s[o])
  BY <1>1 DEF MemInv
<1>4. PICK a : a = Restore(s, m)
  OBVIOUS
<1>5. /\ a \in [Mbufs -> Mbuf] /\ \A i \in Mbufs : i # m => a[i] = s[i]
      /\ a[m].refcnt = 1 /\ a[m].next = s[m].next /\ a[m].nb_segs = s[m].nb_segs
      /\ a[m].in_pool = 0 /\ a[m].data_off + a[m].data_len <= a[m].buf_len
      /\ Uses(a[m], m, m)
  BY <1>1, <1>4, RestoreIs
<1>6. a[o] = s[o] /\ a[m] \in Mbuf
  BY <1>1, <1>5
<1>7. s[o].refcnt \in Small /\ s[o].refcnt - 1 \in Small /\ (s[o].refcnt + (-1)) % UINT16 = s[o].refcnt - 1
      /\ (s[o].refcnt - 1 = 0 <=> s[o].refcnt = 1)
  <2>1. s[o].refcnt \in Small
    BY <1>1 DEF Mbuf
  <2> QED
    BY <1>3, <2>1, Numbers DEF Small
<1> DEFINE y == [s[o] EXCEPT !.refcnt = s[o].refcnt - 1]
           z == [s[o] EXCEPT !.next = NULL, !.nb_segs = 1, !.refcnt = 1, !.in_pool = 1]
           x == [a[m] EXCEPT !.next = NULL, !.nb_segs = 1, !.in_pool = 1]
<1>8. rte_mbuf_refcnt_update(a, o, -1) = [a EXCEPT ![o] = y]
  BY <1>1, <1>5, <1>6, <1>7 DEF rte_mbuf_refcnt_update, Mbuf
<1>9. y \in Mbuf /\ z \in Mbuf /\ x \in Mbuf
  <2>1. 1 \in 1 .. RTE_MBUF_MAX_NB_SEGS /\ NULL \in Mbufs \cup {NULL} /\ 1 \in {0, 1}
    BY Numbers
  <2>2. s[o].refcnt = 1 \/ s[o].refcnt # 1
    OBVIOUS
  <2>3. 1 \in Small
    <3>1. s[m].refcnt \in Small
      BY <1>1 DEF Mbuf
    <3> QED
      BY <3>1
  <2>4. y \in Mbuf
    BY <1>1, <1>7 DEF Mbuf
  <2>5. z \in Mbuf
    BY <1>1, <2>1, <2>3 DEF Mbuf
  <2>6. x \in Mbuf
    BY <1>6, <2>1 DEF Mbuf
  <2> QED
    BY <2>4, <2>5, <2>6
<1>10. PICK d : d = rte_pktmbuf_detach(s, m)
  OBVIOUS
<1>11. d = [a EXCEPT ![o] = IF s[o].refcnt = 1 THEN z ELSE y]
  <2> DEFINE b == [a EXCEPT ![o] = y]
  <2>1. b \in [Mbufs -> Mbuf] /\ b[o] = y
    BY <1>1, <1>5, <1>9, Written
  <2>2. y.refcnt = s[o].refcnt - 1 /\ y.in_pool = 0
    BY <1>1 DEF Mbuf
  <2>3. d = IF y.refcnt # 0 THEN b
            ELSE rte_mbuf_raw_free(rte_mbuf_refcnt_set([b EXCEPT ![o].next = NULL, ![o].nb_segs = 1], o, 1), o)
    <3>1. rte_mbuf_refcnt_update(Restore(s, m), o, -1) = b
      BY <1>4, <1>8
    <3>2. b[o].refcnt = y.refcnt
      BY <2>1
    <3> HIDE DEF y, b
    <3> QED
      BY <1>2, <1>10, <3>1, <3>2 DEF rte_pktmbuf_detach, rte_mbuf_refcnt_read
  <2>4. rte_mbuf_raw_free(rte_mbuf_refcnt_set([b EXCEPT ![o].next = NULL, ![o].nb_segs = 1], o, 1), o)
          = [b EXCEPT ![o] = [y EXCEPT !.next = NULL, !.nb_segs = 1, !.refcnt = 1, !.in_pool = 1]]
    <3> DEFINE u == [y EXCEPT !.next = NULL, !.nb_segs = 1]
               v == [u EXCEPT !.refcnt = 1]
    <3>1. [b EXCEPT ![o].next = NULL, ![o].nb_segs = 1] = [b EXCEPT ![o] = u] /\ u \in Mbuf /\ u.in_pool = 0
      <4> HIDE DEF b, y
      <4> QED
        BY <1>1, <2>1, <2>2, UnlinkIs
    <3>2. v \in Mbuf /\ v.in_pool = 0
      <4>1. 1 \in Small
        <5>1. s[m].refcnt \in Small
          BY <1>1 DEF Mbuf
        <5> QED
          BY <5>1
      <4> HIDE DEF u
      <4> QED
        BY <3>1, <4>1 DEF Mbuf
    <3>3. rte_mbuf_refcnt_set([b EXCEPT ![o] = u], o, 1) = [b EXCEPT ![o] = v]
      <4> HIDE DEF b, u
      <4>1. PICK e : e = [b EXCEPT ![o] = u]
        OBVIOUS
      <4>2. e \in [Mbufs -> Mbuf] /\ e[o] = u
        BY <1>1, <2>1, <3>1, <4>1, Written
      <4>3. rte_mbuf_refcnt_set(e, o, 1) = [e EXCEPT ![o] = v]
        BY <1>1, <4>2 DEF rte_mbuf_refcnt_set, Mbuf
      <4> HIDE DEF v
      <4>4. [e EXCEPT ![o] = v] = [b EXCEPT ![o] = v]
        BY <1>1, <2>1, <4>1, Overwrite
      <4> QED
        BY <4>1, <4>3, <4>4
    <3>4. rte_mbuf_raw_free([b EXCEPT ![o] = v], o) = [b EXCEPT ![o] = [v EXCEPT !.in_pool = 1]]
      <4> HIDE DEF b, v
      <4>1. PICK e : e = [b EXCEPT ![o] = v]
        OBVIOUS
      <4>2. e \in [Mbufs -> Mbuf] /\ e[o] = v
        BY <1>1, <2>1, <3>2, <4>1, Written
      <4>3. rte_mbuf_raw_free(e, o) = [e EXCEPT ![o] = [v EXCEPT !.in_pool = 1]]
        BY <1>1, <3>2, <4>2, RawFreeIs
      <4>4. [e EXCEPT ![o] = [v EXCEPT !.in_pool = 1]] = [b EXCEPT ![o] = [v EXCEPT !.in_pool = 1]]
        BY <1>1, <2>1, <4>1, Overwrite
      <4> QED
        BY <4>1, <4>3, <4>4
    <3>5. [v EXCEPT !.in_pool = 1] = [y EXCEPT !.next = NULL, !.nb_segs = 1, !.refcnt = 1, !.in_pool = 1]
      OBVIOUS
    <3> HIDE DEF b, y, u, v
    <3> QED
      BY <3>1, <3>3, <3>4, <3>5
  <2>5. [y EXCEPT !.next = NULL, !.nb_segs = 1, !.refcnt = 1, !.in_pool = 1] = z
    BY <1>1 DEF Mbuf
  <2>6. [b EXCEPT ![o] = z] = [a EXCEPT ![o] = z]
    <3> HIDE DEF y, z
    <3> QED
      BY <1>1, <1>5
  <2> HIDE DEF b, y, z
  <2> QED
    BY <1>7, <2>2, <2>3, <2>4, <2>5, <2>6 DEF b
<1> HIDE DEF y, z, x
<1>12. d \in [Mbufs -> Mbuf] /\ d[m] = a[m] /\ d[o] = (IF s[o].refcnt = 1 THEN z ELSE y)
       /\ \A i \in Mbufs : i # m /\ i # o => d[i] = s[i]
  BY <1>1, <1>5, <1>9, <1>11
<1>13. PICK t : t = rte_pktmbuf_free_seg(s, m)
  OBVIOUS
<1>14. t = [d EXCEPT ![m] = x]
  <2>1. t = rte_mbuf_raw_free(Release(s, m), m)
    BY <1>13 DEF rte_pktmbuf_free_seg, rte_mbuf_refcnt_read
  <2>2. Release(s, m) = IF d[m].next # NULL THEN [d EXCEPT ![m].next = NULL, ![m].nb_segs = 1] ELSE d
    BY <1>2, <1>10 DEF Release
  <2>3. CASE d[m].next # NULL
    <3>1. t = rte_mbuf_raw_free([d EXCEPT ![m].next = NULL, ![m].nb_segs = 1], m)
      BY <2>1, <2>2, <2>3
    <3>2. PICK u : u = [a[m] EXCEPT !.next = NULL, !.nb_segs = 1]
      OBVIOUS
    <3>3. [d EXCEPT ![m].next = NULL, ![m].nb_segs = 1] = [d EXCEPT ![m] = u] /\ u \in Mbuf /\ u.in_pool = 0
      BY <1>5, <1>12, <3>2, UnlinkIs
    <3>4. PICK b : b = [d EXCEPT ![m] = u]
      OBVIOUS
    <3>5. b \in [Mbufs -> Mbuf] /\ b[m] = u
      BY <1>12, <3>3, <3>4, Written
    <3>6. rte_mbuf_raw_free(b, m) = [b EXCEPT ![m] = [u EXCEPT !.in_pool = 1]]
      BY <3>3, <3>5, RawFreeIs
    <3>7. [u EXCEPT !.in_pool = 1] = x
      BY <1>6, <3>2 DEF Mbuf, x
    <3>8. [b EXCEPT ![m] = x] = [d EXCEPT ![m] = x]
      BY <1>12, <3>4, Overwrite
    <3> QED
      BY <3>1, <3>3, <3>4, <3>6, <3>7, <3>8
  <2>4. CASE d[m].next = NULL
    <3>1. t = rte_mbuf_raw_free(d, m)
      BY <2>1, <2>2, <2>4
    <3>2. a[m].next = NULL /\ a[m].nb_segs = 1
      <4>1. s[m].next = NULL => s[m].nb_segs = 1
        BY DEF MemInv, Fits
      <4> QED
        BY <1>5, <1>12, <2>4, <4>1
    <3>3. [a[m] EXCEPT !.in_pool = 1] = x
      BY <1>6, <3>2 DEF Mbuf, x
    <3>4. rte_mbuf_raw_free(d, m) = [d EXCEPT ![m] = [a[m] EXCEPT !.in_pool = 1]]
      BY <1>5, <1>12, RawFreeIs
    <3> QED
      BY <3>1, <3>3, <3>4
  <2> QED
    BY <2>3, <2>4
<1>15. t \in [Mbufs -> Mbuf] /\ t[m] = x /\ t[o] = (IF s[o].refcnt = 1 THEN z ELSE y)
       /\ \A i \in Mbufs : i # m /\ i # o => t[i] = s[i]
  BY <1>1, <1>9, <1>12, <1>14
<1>16. Clean(x, m)
  <2>1. /\ x.refcnt = 1 /\ x.next = NULL /\ x.nb_segs = 1 /\ x.in_pool = 1
        /\ x.data_off = a[m].data_off /\ x.data_len = a[m].data_len /\ x.buf_len = a[m].buf_len
        /\ x.priv_size = a[m].priv_size /\ x.buf_addr = a[m].buf_addr /\ x.buf_iova = a[m].buf_iova
        /\ x.attached = a[m].attached
    BY <1>5, <1>6 DEF Mbuf, x
  <2> QED
    BY <1>5, <2>1 DEF Clean, Uses, Fits
<1>17. Clean(z, o)
  <2>1. /\ z.refcnt = 1 /\ z.next = NULL /\ z.nb_segs = 1 /\ z.in_pool = 1
        /\ z.data_off = s[o].data_off /\ z.data_len = s[o].data_len /\ z.buf_len = s[o].buf_len
        /\ z.priv_size = s[o].priv_size /\ z.buf_addr = s[o].buf_addr /\ z.buf_iova = s[o].buf_iova
        /\ z.attached = s[o].attached
    BY <1>1 DEF Mbuf, z
  <2> QED
    BY <1>3, <2>1 DEF Clean, Uses, Fits
<1>18. s[o].refcnt # 1 => Same(t, s, o) /\ t[o].refcnt = s[o].refcnt - 1 /\ t[o].refcnt # 0
  <2>1. /\ y.refcnt = s[o].refcnt - 1
        /\ y.next = s[o].next /\ y.nb_segs = s[o].nb_segs
        /\ y.pkt_len = s[o].pkt_len /\ y.data_len = s[o].data_len /\ y.data_off = s[o].data_off
        /\ y.buf_addr = s[o].buf_addr /\ y.buf_iova = s[o].buf_iova /\ y.buf_len = s[o].buf_len
        /\ y.priv_size = s[o].priv_size /\ y.attached = s[o].attached /\ y.in_pool = s[o].in_pool
    BY <1>1 DEF Mbuf, y
  <2> QED
    BY <1>7, <1>15, <2>1 DEF Same
<1> QED
  BY <1>13, <1>15, <1>16, <1>17, <1>18

(* One reference to m is given up: the memory is as it should be with one   *)
(* reference less, and every mbuf that is still referred to as it was.      *)
LEMMA FreeSegKeeps ==
  ASSUME NEW s, NEW r, MemInv(s, r), NEW m \in Mbufs, r[m] # 0
  PROVE  /\ MemInv(rte_pktmbuf_free_seg(s, m), [r EXCEPT ![m] = r[m] - 1])
         /\ \A i \in Mbufs : [r EXCEPT ![m] = r[m] - 1][i] # 0 => Same(rte_pktmbuf_free_seg(s, m), s, i)
<1>1. PICK t : t = rte_pktmbuf_free_seg(s, m)
  OBVIOUS
<1>2. PICK q : q = [r EXCEPT ![m] = r[m] - 1]
  OBVIOUS
<1>3. /\ s \in [Mbufs -> Mbuf] /\ r \in [Mbufs -> 0 .. MaxHeld] /\ s[m].in_pool = 0
      /\ s[m].refcnt = r[m] + Cardinality(Att(s, m)) /\ r[m] \in 0 .. MaxHeld
  BY DEF MemInv
<1>4. /\ q \in [Mbufs -> 0 .. MaxHeld] /\ q[m] = r[m] - 1 /\ \A i \in Mbufs : i # m => q[i] = r[i]
  <2>1. r[m] - 1 \in 0 .. MaxHeld
    BY <1>3, Numbers
  <2> QED
    BY <1>2, <1>3, <2>1
<1>5. Cardinality(Att(s, m)) \in Nat
  BY AttFinite
<1>6. \A i \in Mbufs : Same(s, s, i)
  BY DEF Same
<1>7. SUFFICES MemInv(t, q) /\ \A i \in Mbufs : q[i] # 0 => Same(t, s, i)
  BY <1>1, <1>2
<1>8. CASE s[m].refcnt # 1
  <2>1. /\ t \in [Mbufs -> Mbuf] /\ \A i \in Mbufs : i # m => t[i] = s[i]
        /\ Same(t, s, m) /\ t[m].refcnt = s[m].refcnt - 1 /\ t[m].refcnt # 0
    BY <1>1, <1>3, <1>8, FreeShared
  <2>2. \A i \in Mbufs : Same(t, s, i)
    BY <2>1, <1>6 DEF Same
  <2>3. \A i \in Mbufs : Own(t, i) = Own(s, i)
    BY <2>2, SameOwn
  <2>4. \A i \in Mbufs : Att(t, i) = Att(s, i)
    BY <2>3, AttSame
  <2>5. t[m].refcnt = q[m] + Cardinality(Att(t, m))
    BY <1>3, <1>4, <1>5, <2>1, <2>4
  <2>6. \A i \in Mbufs : Uses(t[i], i, Own(t, i)) /\ Fits(t[i])
    BY <2>2, <2>3 DEF MemInv, Uses, Fits, Same
  <2>7. \A i \in Mbufs : Own(t, i) \in Mbufs /\ Own(t, Own(t, i)) = Own(t, i)
    BY <2>3 DEF MemInv
  <2>8. ASSUME NEW i \in Mbufs, t[i].in_pool = 0
        PROVE  t[i].refcnt = q[i] + Cardinality(Att(t, i)) /\ t[i].refcnt # 0
    <3>1. CASE i = m
      BY <2>1, <2>5, <3>1
    <3>2. CASE i # m
      BY <1>4, <2>1, <2>4, <2>8, <3>2 DEF MemInv
    <3> QED
      BY <3>1, <3>2
  <2>9. ASSUME NEW i \in Mbufs, t[i].in_pool # 0
        PROVE  Clean(t[i], i) /\ q[i] = 0 /\ Att(t, i) = {}
    <3>1. i # m
      BY <1>3, <2>1, <2>9 DEF Same
    <3> QED
      BY <1>4, <2>1, <2>4, <2>9, <3>1 DEF MemInv
  <2> QED
    BY <1>4, <2>1, <2>2, <2>6, <2>7, <2>8, <2>9 DEF MemInv
<1>9. CASE s[m].refcnt = 1 /\ Own(s, m) = m
  <2>1. /\ t \in [Mbufs -> Mbuf] /\ \A i \in Mbufs : i # m => t[i] = s[i]
        /\ Clean(t[m], m)
    BY <1>1, <1>3, <1>9, FreeDirect
  <2>2. r[m] = 1 /\ Cardinality(Att(s, m)) = 0
    BY <1>3, <1>5, <1>9, Numbers
  <2>3. Att(s, m) = {}
    BY <2>2, AttFinite, FS_EmptySet
  <2>4. \A i \in Mbufs : Own(t, i) = Own(s, i)
    <3>1. Own(t, m) = m
      BY <2>1, OwnIs DEF Clean
    <3> QED
      BY <1>9, <2>1, <3>1 DEF Own
  <2>5. \A i \in Mbufs : Att(t, i) = Att(s, i)
    BY <2>4, AttSame
  <2>6. \A i \in Mbufs : Uses(t[i], i, Own(t, i)) /\ Fits(t[i])
    BY <1>9, <2>1, <2>4 DEF MemInv, Clean
  <2>7. \A i \in Mbufs : Own(t, i) \in Mbufs /\ Own(t, Own(t, i)) = Own(t, i)
    BY <2>4 DEF MemInv
  <2>8. t[m].in_pool # 0 /\ q[m] = 0
    BY <1>4, <2>1, <2>2 DEF Clean
  <2>9. ASSUME NEW i \in Mbufs
        PROVE  /\ t[i].in_pool = 0 => t[i].refcnt = q[i] + Cardinality(Att(t, i)) /\ t[i].refcnt # 0
               /\ t[i].in_pool # 0 => Clean(t[i], i) /\ q[i] = 0 /\ Att(t, i) = {}
    <3>1. CASE i = m
      BY <2>1, <2>3, <2>5, <2>8, <3>1
    <3>2. CASE i # m
      BY <1>4, <2>1, <2>5, <3>2 DEF MemInv
    <3> QED
      BY <3>1, <3>2
  <2>10. \A i \in Mbufs : q[i] # 0 => Same(t, s, i)
    BY <1>6, <2>1, <2>8 DEF Same
  <2> QED
    BY <1>4, <2>1, <2>6, <2>7, <2>9, <2>10 DEF MemInv
<1>10. CASE s[m].refcnt = 1 /\ Own(s, m) # m
  <2>1. PICK o : o = Own(s, m)
    OBVIOUS
  <2>2. o # m /\ o \in Mbufs /\ Own(s, o) = o /\ s[o].in_pool = 0 /\ m \in Att(s, o) /\ Att(s, m) = {} /\ r[m] = 1
    BY <1>10, <2>1, Indirect
  <2>3. /\ t \in [Mbufs -> Mbuf] /\ \A i \in Mbufs : i # m /\ i # o => t[i] = s[i]
        /\ Clean(t[m], m)
        /\ s[o].refcnt = 1 => Clean(t[o], o)
        /\ s[o].refcnt # 1 => Same(t, s, o) /\ t[o].refcnt = s[o].refcnt - 1 /\ t[o].refcnt # 0
    BY <1>1, <1>10, <2>1, FreeIndirect
  <2>4. Own(t, m) = m /\ Own(t, o) = o /\ \A i \in Mbufs : i # m => Own(t, i) = Own(s, i)
    <3>1. Own(t, m) = m
      BY <2>3, OwnIs DEF Clean
    <3>2. Own(t, o) = o
      <4>1. CASE s[o].refcnt = 1
        BY <2>3, <4>1, OwnIs DEF Clean
      <4>2. CASE s[o].refcnt # 1
        BY <2>2, <2>3, <4>2, SameOwn
      <4> QED
        BY <4>1, <4>2
    <3> QED
      BY <2>2, <2>3, <3>1, <3>2 DEF Own
  <2>5. Att(t, o) = Att(s, o) \ {m} /\ \A i \in Mbufs : i # o => Att(t, i) = Att(s, i)
    <3>1. Att(t, o) = Att(s, o) \ {m}
      BY <2>2, <2>4 DEF Att
    <3>2. ASSUME NEW i \in Mbufs, i # o PROVE Att(t, i) = Att(s, i)
      <4>1. ASSUME NEW j PROVE j \in Att(t, i) <=> j \in Att(s, i)
        <5>1. CASE j = m
          BY <2>1, <2>2, <2>4, <3>2, <5>1 DEF Att
        <5>2. CASE j # m
          BY <2>4, <5>2 DEF Att
        <5> QED
          BY <5>1, <5>2
      <4> QED
        BY <4>1
    <3> QED
      BY <3>1, <3>2
  <2>6. Cardinality(Att(t, o)) = Cardinality(Att(s, o)) - 1 /\ Cardinality(Att(t, o)) \in Nat
        /\ Cardinality(Att(s, o)) \in Nat
    BY <2>2, <2>5, AttFinite, FS_RemoveElement
  <2>7. s[o].refcnt = r[o] + Cardinality(Att(s, o)) /\ r[o] \in 0 .. MaxHeld /\ q[o] = r[o] /\ q[m] = 0
    BY <1>3, <1>4, <2>2 DEF MemInv
  <2>8. s[o].refcnt = 1 => r[o] = 0 /\ Att(t, o) = {}
    <3>1. ASSUME s[o].refcnt = 1 PROVE r[o] = 0 /\ Cardinality(Att(t, o)) = 0
      BY <2>6, <2>7, <3>1, Numbers
    <3> QED
      BY <3>1, AttFinite, FS_EmptySet
  <2>9. \A i \in Mbufs : Own(t, i) \in Mbufs /\ Own(t, Own(t, i)) = Own(t, i)
    <3>1. ASSUME NEW i \in Mbufs PROVE Own(t, i) \in Mbufs /\ Own(t, Own(t, i)) = Own(t, i)
      <4>1. CASE i = m
        BY <2>4, <4>1
      <4>2. CASE i # m
        <5>1. Own(t, i) = Own(s, i) /\ Own(s, i) \in Mbufs /\ Own(s, Own(s, i)) = Own(s, i)
          BY <2>4, <4>2 DEF MemInv
        <5>2. Own(s, i) # m
          BY <1>10, <5>1
        <5> QED
          BY <2>4, <5>1, <5>2
      <4> QED
        BY <4>1, <4>2
    <3> QED
      BY <3>1
  <2>10. ASSUME NEW i \in Mbufs PROVE Uses(t[i], i, Own(t, i)) /\ Fits(t[i])
    <3>1. CASE i = m
      BY <2>3, <2>4, <3>1 DEF Clean
    <3>2. CASE i = o /\ s[o].refcnt = 1
      BY <2>3, <2>4, <3>2 DEF Clean
    <3>3. CASE i = o /\ s[o].refcnt # 1
      <4>1. Uses(s[o], o, o) /\ Fits(s[o])
        BY <2>2 DEF MemInv
      <4> QED
        BY <2>3, <2>4, <3>3, <4>1 DEF Uses, Fits, Same
    <3>4. CASE i # o /\ i # m
      BY <2>3, <2>4, <3>4 DEF MemInv
    <3> QED
      BY <3>1, <3>2, <3>3, <3>4
  <2>11. ASSUME NEW i \in Mbufs
         PROVE  /\ t[i].in_pool = 0 => t[i].refcnt = q[i] + Cardinality(Att(t, i)) /\ t[i].refcnt # 0
                /\ t[i].in_pool # 0 => Clean(t[i], i) /\ q[i] = 0 /\ Att(t, i) = {}
    <3>1. CASE i = m
      <4>1. t[m].in_pool # 0
        BY <2>3 DEF Clean
      <4> QED
        BY <2>2, <2>3, <2>5, <2>7, <3>1, <4>1
    <3>2. CASE i = o /\ s[o].refcnt = 1
      <4>1. t[o].in_pool # 0
        BY <2>3, <3>2 DEF Clean
      <4> QED
        BY <2>3, <2>7, <2>8, <3>2, <4>1
    <3>3. CASE i = o /\ s[o].refcnt # 1
      <4>1. t[o].in_pool = 0
        BY <2>2, <2>3, <3>3 DEF Same
      <4>2. t[o].refcnt = q[o] + Cardinality(Att(t, o))
        BY <2>3, <2>6, <2>7, <3>3, Numbers
      <4> QED
        BY <2>3, <3>3, <4>1, <4>2
    <3>4. CASE i # o /\ i # m
      BY <1>4, <2>3, <2>5, <3>4 DEF MemInv
    <3> QED
      BY <3>1, <3>2, <3>3, <3>4
  <2>12. ASSUME NEW i \in Mbufs, q[i] # 0 PROVE Same(t, s, i)
    <3>1. i # m
      BY <2>7, <2>12
    <3>2. CASE i = o
      <4>1. s[o].refcnt # 1
        BY <2>7, <2>8, <2>12, <3>2
      <4> QED
        BY <2>3, <3>2, <4>1
    <3>3. CASE i # o
      BY <2>3, <3>1, <3>3 DEF Same
    <3> QED
      BY <3>2, <3>3
  <2> QED
    BY <1>4, <2>3, <2>9, <2>10, <2>11, <2>12 DEF MemInv
<1> QED
  BY <1>8, <1>9, <1>10

LEMMA AllocIs ==
  ASSUME NEW s, NEW r, MemInv(s, r), NEW f \in Mbufs, s[f].in_pool # 0
  PROVE  LET t == Alloc(s, f) IN
         /\ t \in [Mbufs -> Mbuf] /\ \A i \in Mbufs : i # f => t[i] = s[i]
         /\ t[f].refcnt = 1 /\ t[f].next = NULL /\ t[f].nb_segs = 1 /\ t[f].pkt_len = 0 /\ t[f].data_len = 0
         /\ t[f].in_pool = 0 /\ Uses(t[f], f, f) /\ Fits(t[f])
<1>1. s \in [Mbufs -> Mbuf] /\ Clean(s[f], f) /\ s[f] \in Mbuf
  BY DEF MemInv
<1> DEFINE x == [s[f] EXCEPT !.in_pool = 0]
<1>2. x \in Mbuf
  BY <1>1 DEF Mbuf
<1>3. /\ x.refcnt = 1 /\ x.in_pool = 0 /\ x.buf_len = s[f].buf_len /\ x.priv_size = s[f].priv_size
      /\ x.buf_addr = s[f].buf_addr /\ x.buf_iova = s[f].buf_iova
  BY <1>1 DEF Mbuf, Clean
<1>4. PICK g : g = rte_mempool_get(s, f)
  OBVIOUS
<1>5. g = [s EXCEPT ![f] = x]
  <2>1. s[f].in_pool - 1 = 0
    BY <1>1 DEF Clean
  <2> QED
    BY <1>1, <1>4, <2>1 DEF rte_mempool_get, Mbuf
<1> HIDE DEF x
<1>6. g \in [Mbufs -> Mbuf] /\ g[f] = x /\ \A i \in Mbufs : i # f => g[i] = s[i]
  BY <1>1, <1>2, <1>5, Written
<1>7. PICK t : t = rte_pktmbuf_reset(g, f)
  OBVIOUS
<1>8. /\ t \in [Mbufs -> Mbuf] /\ \A i \in Mbufs : i # f => t[i] = g[i]
      /\ t[f].refcnt = x.refcnt /\ t[f].next = NULL /\ t[f].nb_segs = 1 /\ t[f].pkt_len = 0
      /\ t[f].data_len = 0 /\ t[f].data_off = Headroom0(x.buf_len)
      /\ t[f].buf_addr = x.buf_addr /\ t[f].buf_iova = x.buf_iova /\ t[f].buf_len = x.buf_len
      /\ t[f].priv_size = x.priv_size /\ t[f].attached = FALSE /\ t[f].in_pool = x.in_pool
  BY <1>6, <1>7, ResetIs
<1>9. Alloc(s, f) = t
  BY <1>4, <1>7 DEF Alloc
<1>10. Uses(t[f], f, f)
  BY <1>1, <1>3, <1>8 DEF Clean, Uses
<1>11. Fits(t[f])
  <2>1. x.buf_len \in Small
    BY <1>2 DEF Mbuf
  <2>2. Headroom0(x.buf_len) + 0 <= x.buf_len
    BY <2>1, HeadroomFits DEF Small
  <2> QED
    BY <1>8, <2>2 DEF Fits
<1> QED
  BY <1>3, <1>6, <1>8, <1>9, <1>10, <1>11

LEMMA AttachIs ==
  ASSUME NEW s, NEW r, MemInv(s, r), NEW f \in Mbufs, s[f].in_pool # 0, NEW d \in Mbufs, r[d] # 0,
         NEW o, o = Own(s, d)
  PROVE  LET t == rte_pktmbuf_attach(Alloc(s, f), f, d) IN
         /\ t \in [Mbufs -> Mbuf] /\ \A i \in Mbufs : i # f /\ i # o => t[i] = s[i]
         /\ Same(t, s, o) /\ t[o].refcnt = s[o].refcnt + 1
         /\ t[f].refcnt = 1 /\ t[f].next = NULL /\ t[f].nb_segs = 1 /\ t[f].data_len = s[d].data_len
         /\ t[f].in_pool = 0 /\ Uses(t[f], f, o) /\ Fits(t[f])
<1>1. /\ s \in [Mbufs -> Mbuf] /\ s[f] \in Mbuf /\ s[d] \in Mbuf /\ f # d /\ o \in Mbufs /\ Own(s, o) = o
      /\ Own(s, f) = f /\ Att(s, f) = {} /\ s[d].in_pool = 0 /\ Uses(s[d], d, o) /\ Fits(s[d])
  <2>1. Clean(s[f], f) /\ r[f] = 0 /\ Att(s, f) = {}
    BY DEF MemInv
  <2>2. Own(s, f) = f
    BY <2>1, OwnIs DEF Clean
  <2> QED
    BY <2>1, <2>2 DEF MemInv
<1>2. o # f /\ s[o].in_pool = 0
  <2>1. CASE o = d
    BY <1>1, <2>1
  <2>2. CASE o # d
    <3>1. s[o].in_pool = 0
      BY <2>2, Indirect
    <3> QED
      BY <3>1
  <2> QED
    BY <2>1, <2>2
<1>3. s[o] \in Mbuf /\ s[o].refcnt \in Small /\ s[o].refcnt + 1 \in Small
      /\ (s[o].refcnt + 1) % UINT16 = s[o].refcnt + 1
  <2>1. s[o] \in Mbuf /\ s[o].refcnt \in Small
    BY <1>1 DEF Mbuf
  <2>2. s[o].refcnt = r[o] + Cardinality(Att(s, o)) /\ r[o] \in 0 .. MaxHeld
    BY <1>1, <1>2 DEF MemInv
  <2>3. Cardinality(Att(s, o)) <= Cardinality(Mbufs \ {o}) - 1 /\ Cardinality(Mbufs \ {o}) = Cardinality(Mbufs) - 1
    <3>1. IsFiniteSet(Mbufs) /\ IsFiniteSet(Mbufs \ {o}) /\ Cardinality(Mbufs \ {o}) = Cardinality(Mbufs) - 1
      BY <1>1, BufAssumption, FS_RemoveElement
    <3>2. IsFiniteSet((Mbufs \ {o}) \ {f}) /\ Cardinality((Mbufs \ {o}) \ {f}) = Cardinality(Mbufs \ {o}) - 1
      BY <1>2, <3>1, FS_RemoveElement
    <3>3. Att(s, o) \subseteq (Mbufs \ {o}) \ {f}
      BY <1>1, <1>2 DEF Att
    <3>4. Cardinality(Att(s, o)) <= Cardinality((Mbufs \ {o}) \ {f})
      BY <3>2, <3>3, FS_Subset
    <3> QED
      BY <3>1, <3>2, <3>4
  <2>4. Cardinality(Att(s, o)) \in Nat /\ Cardinality(Mbufs) \in Nat
    BY AttFinite, BufAssumption, FS_CardinalityType
  <2>5. s[o].refcnt + 1 \in Small
    BY <2>2, <2>3, <2>4, Numbers, CountsAssumption DEF Small
  <2> QED
    BY <2>1, <2>5, Numbers DEF Small
<1>4. PICK a : a = Alloc(s, f)
  OBVIOUS
<1>5. /\ a \in [Mbufs -> Mbuf] /\ \A i \in Mbufs : i # f => a[i] = s[i]
      /\ a[f].refcnt = 1 /\ a[f].in_pool = 0 /\ a[f] \in Mbuf
  BY <1>4, AllocIs
<1>6. a[d] = s[d] /\ a[o] = s[o]
  BY <1>1, <1>2, <1>5
<1>7. Owner(a, d) = o
  <2>1. Owner(s, d) = o
    BY OwnerIs
  <2> QED
    BY <1>6, <2>1 DEF Owner, RTE_MBUF_DIRECT, RTE_MBUF_INDIRECT, rte_mbuf_from_indirect
<1> DEFINE y == [s[o] EXCEPT !.refcnt = s[o].refcnt + 1]
           x == [a[f] EXCEPT !.priv_size = s[d].priv_size, !.buf_iova = s[d].buf_iova,
                   !.buf_addr = s[d].buf_addr, !.buf_len = s[d].buf_len,
                   !.data_off = s[d].data_off, !.data_len = s[d].data_len,
                   !.next = NULL, !.pkt_len = s[d].data_len, !.nb_segs = 1, !.attached = TRUE]
<1>8. PICK b : b = rte_mbuf_refcnt_update(a, o, 1)
  OBVIOUS
<1>9. b = [a EXCEPT ![o] = y]
  BY <1>1, <1>3, <1>5, <1>6, <1>8 DEF rte_mbuf_refcnt_update, Mbuf
<1>10. y \in Mbuf /\ x \in Mbuf
  <2>1. 1 \in 1 .. RTE_MBUF_MAX_NB_SEGS /\ NULL \in Mbufs \cup {NULL} /\ TRUE \in BOOLEAN
    BY Numbers
  <2>2. y \in Mbuf
    BY <1>3 DEF Mbuf
  <2>3. s[d].data_len \in Nat
    BY <1>1 DEF Mbuf, Small
  <2>4. x \in Mbuf
    BY <1>1, <1>5, <2>1, <2>3 DEF Mbuf
  <2> QED
    BY <2>2, <2>4
<1> HIDE DEF y
<1>11. b \in [Mbufs -> Mbuf] /\ b[o] = y /\ b[f] = a[f] /\ \A i \in Mbufs : i # o => b[i] = a[i]
  BY <1>1, <1>2, <1>5, <1>9, <1>10, Written
<1>12. PICK t : t = rte_pktmbuf_attach(a, f, d)
  OBVIOUS
<1>13. t = [b EXCEPT ![f] = x]
  <2> DEFINE by(u) == [b EXCEPT
                ![f].priv_size = u.priv_size, ![f].buf_iova = u.buf_iova,
                ![f].buf_addr = u.buf_addr, ![f].buf_len = u.buf_len,
                ![f].data_off = u.data_off, ![f].data_len = u.data_len,
                ![f].next = NULL, ![f].pkt_len = u.data_len, ![f].nb_segs = 1, ![f].attached = TRUE]
  <2>1. t = by(a[d])
    BY <1>7, <1>8, <1>12 DEF rte_pktmbuf_attach
  <2>2. PICK u : u = s[d]
    OBVIOUS
  <2>3. t = by(u)
    <3> HIDE DEF by
    <3> QED
      BY <1>6, <2>1, <2>2
  <2>4. PICK v : v = a[f]
    OBVIOUS
  <2>5. b[f] = v /\ v \in Mbuf /\ b \in [Mbufs -> Mbuf]
    BY <1>5, <1>11, <2>4
  <2>6. x = [v EXCEPT !.priv_size = u.priv_size, !.buf_iova = u.buf_iova,
                   !.buf_addr = u.buf_addr, !.buf_len = u.buf_len,
                   !.data_off = u.data_off, !.data_len = u.data_len,
                   !.next = NULL, !.pkt_len = u.data_len, !.nb_segs = 1, !.attached = TRUE]
    BY <2>2, <2>4
  <2> HIDE DEF x
  <2>7. by(u) = [b EXCEPT ![f] = x]
    BY <2>5, <2>6 DEF Mbuf
  <2> QED
    BY <2>3, <2>7
<1>14. /\ x.priv_size = s[d].priv_size /\ x.buf_iova = s[d].buf_iova
       /\ x.buf_addr = s[d].buf_addr /\ x.buf_len = s[d].buf_len
       /\ x.data_off = s[d].data_off /\ x.data_len = s[d].data_len
       /\ x.next = NULL /\ x.nb_segs = 1 /\ x.attached = TRUE /\ x.refcnt = 1 /\ x.in_pool = 0
  BY <1>5 DEF Mbuf
<1> HIDE DEF x
<1>15. t \in [Mbufs -> Mbuf] /\ t[f] = x /\ t[o] = y /\ \A i \in Mbufs : i # o /\ i # f => t[i] = s[i]
  BY <1>1, <1>2, <1>5, <1>10, <1>11, <1>13, Written
<1>16. Same(t, s, o) /\ t[o].refcnt = s[o].refcnt + 1
  <2>1. /\ y.refcnt = s[o].refcnt + 1
        /\ y.next = s[o].next /\ y.nb_segs = s[o].nb_segs
        /\ y.pkt_len = s[o].pkt_len /\ y.data_len = s[o].data_len /\ y.data_off = s[o].data_off
        /\ y.buf_addr = s[o].buf_addr /\ y.buf_iova = s[o].buf_iova /\ y.buf_len = s[o].buf_len
        /\ y.priv_size = s[o].priv_size /\ y.attached = s[o].attached /\ y.in_pool = s[o].in_pool
    BY <1>3 DEF Mbuf, y
  <2> QED
    BY <1>15, <2>1 DEF Same
<1>17. Uses(x, f, o) /\ Fits(x)
  BY <1>1, <1>2, <1>14 DEF Uses, Fits
<1> QED
  BY <1>4, <1>12, <1>14, <1>15, <1>16, <1>17

(* A mbuf f of the pool is attached to the buffer of d.                     *)
LEMMA AttachKeeps ==
  ASSUME NEW s, NEW r, MemInv(s, r), NEW f \in Mbufs, s[f].in_pool # 0, NEW d \in Mbufs, r[d] # 0
  PROVE  LET t == rte_pktmbuf_attach(Alloc(s, f), f, d) IN
         /\ MemInv(t, [r EXCEPT ![f] = 1])
         /\ \A i \in Mbufs : i # f => Same(t, s, i)
         /\ t[f].next = NULL /\ t[f].nb_segs = 1 /\ t[f].data_len = s[d].data_len
<1>1. PICK t : t = rte_pktmbuf_attach(Alloc(s, f), f, d)
  OBVIOUS
<1>2. PICK q : q = [r EXCEPT ![f] = 1]
  OBVIOUS
<1>3. PICK o : o = Own(s, d)
  OBVIOUS
<1>4. /\ t \in [Mbufs -> Mbuf] /\ \A i \in Mbufs : i # f /\ i # o => t[i] = s[i]
      /\ Same(t, s, o) /\ t[o].refcnt = s[o].refcnt + 1
      /\ t[f].refcnt = 1 /\ t[f].next = NULL /\ t[f].nb_segs = 1 /\ t[f].data_len = s[d].data_len
      /\ t[f].in_pool = 0 /\ Uses(t[f], f, o) /\ Fits(t[f])
  BY <1>1, <1>3, AttachIs
<1>5. /\ s \in [Mbufs -> Mbuf] /\ r \in [Mbufs -> 0 .. MaxHeld] /\ f # d /\ o \in Mbufs /\ Own(s, o) = o
      /\ Own(s, f) = f /\ Att(s, f) = {} /\ r[f] = 0
  <2>1. Clean(s[f], f) /\ r[f] = 0 /\ Att(s, f) = {}
    BY DEF MemInv
  <2>2. Own(s, f) = f
    BY <2>1, OwnIs DEF Clean
  <2> QED
    BY <1>3, <2>1, <2>2 DEF MemInv
<1>6. o # f /\ s[o].in_pool = 0
  <2>1. CASE o = d
    BY <1>5, <2>1 DEF MemInv
  <2>2. CASE o # d
    <3>1. s[o].in_pool = 0
      BY <1>3, <2>2, Indirect
    <3> QED
      BY <3>1
  <2> QED
    BY <2>1, <2>2
<1>7. /\ q \in [Mbufs -> 0 .. MaxHeld] /\ q[f] = 1 /\ \A i \in Mbufs : i # f => q[i] = r[i]
  <2>1. 1 \in 0 .. MaxHeld
    BY Numbers
  <2> QED
    BY <1>2, <1>5, <2>1
<1>8. \A i \in Mbufs : i # f => Same(t, s, i)
  <2>1. \A i \in Mbufs : Same(s, s, i)
    BY DEF Same
  <2> QED
    BY <1>4, <2>1 DEF Same
<1>9. Own(t, f) = o /\ \A i \in Mbufs : i # f => Own(t, i) = Own(s, i)
  <2>1. Own(t, f) = o
    BY <1>4, OwnIs
  <2>2. \A i \in Mbufs : i # f => Own(t, i) = Own(s, i)
    BY <1>8, SameOwn
  <2> QED
    BY <2>1, <2>2
<1>10. Att(t, o) = Att(s, o) \cup {f} /\ f \notin Att(s, o)
  <2>1. ASSUME NEW j PROVE j \in Att(t, o) <=> j \in Att(s, o) \cup {f}
    <3>1. CASE j = f
      BY <1>6, <1>9, <3>1 DEF Att
    <3>2. CASE j # f
      BY <1>9, <3>2 DEF Att
    <3> QED
      BY <3>1, <3>2
  <2> QED
    BY <1>5, <1>6, <2>1 DEF Att
<1>11. \A i \in Mbufs : i # o => Att(t, i) = Att(s, i)
  <2>1. ASSUME NEW i \in Mbufs, i # o, NEW j PROVE j \in Att(t, i) <=> j \in Att(s, i)
    <3>1. CASE j = f
      BY <1>5, <1>9, <2>1, <3>1 DEF Att
    <3>2. CASE j # f
      BY <1>9, <3>2 DEF Att
    <3> QED
      BY <3>1, <3>2
  <2> QED
    BY <2>1
<1>12. Cardinality(Att(t, o)) = Cardinality(Att(s, o)) + 1 /\ Cardinality(Att(s, o)) \in Nat
  BY <1>10, AttFinite, FS_AddElement
<1>13. \A i \in Mbufs : Own(t, i) \in Mbufs /\ Own(t, Own(t, i)) = Own(t, i)
  <2>1. ASSUME NEW i \in Mbufs PROVE Own(t, i) \in Mbufs /\ Own(t, Own(t, i)) = Own(t, i)
    <3>1. CASE i = f
      BY <1>5, <1>6, <1>9, <3>1
    <3>2. CASE i # f
      <4>1. Own(t, i) = Own(s, i) /\ Own(s, i) \in Mbufs /\ Own(s, Own(s, i)) = Own(s, i)
        BY <1>9, <3>2 DEF MemInv
      <4>2. Own(s, i) # f
        BY <1>5, <3>2 DEF Att
      <4> QED
        BY <1>9, <4>1, <4>2
    <3> QED
      BY <3>1, <3>2
  <2> QED
    BY <2>1
<1>14. ASSUME NEW i \in Mbufs PROVE Uses(t[i], i, Own(t, i)) /\ Fits(t[i])
  <2>1. CASE i = f
    BY <1>4, <1>9, <2>1
  <2>2. CASE i # f
    <3>1. Uses(s[i], i, Own(s, i)) /\ Fits(s[i]) /\ Same(t, s, i) /\ Own(t, i) = Own(s, i)
      BY <1>8, <1>9, <2>2 DEF MemInv
    <3> QED
      BY <3>1 DEF Uses, Fits, Same
  <2> QED
    BY <2>1, <2>2
<1>15. ASSUME NEW i \in Mbufs
       PROVE  /\ t[i].in_pool = 0 => t[i].refcnt = q[i] + Cardinality(Att(t, i)) /\ t[i].refcnt # 0
              /\ t[i].in_pool # 0 => Clean(t[i], i) /\ q[i] = 0 /\ Att(t, i) = {}
  <2>1. CASE i = f
    <3>1. Cardinality(Att(t, f)) = 0
      BY <1>5, <1>6, <1>11, FS_EmptySet
    <3> QED
      BY <1>4, <1>7, <2>1, <3>1
  <2>2. CASE i = o
    <3>1. s[o].refcnt = r[o] + Cardinality(Att(s, o)) /\ r[o] \in 0 .. MaxHeld /\ s[o].refcnt # 0
      BY <1>5, <1>6 DEF MemInv
    <3>2. t[o].in_pool = 0 /\ q[o] = r[o]
      BY <1>4, <1>5, <1>6, <1>7 DEF Same
    <3>3. t[o].refcnt = q[o] + Cardinality(Att(t, o)) /\ t[o].refcnt # 0
      BY <1>4, <1>12, <3>1, <3>2, Numbers
    <3> QED
      BY <2>2, <3>2, <3>3
  <2>3. CASE i # f /\ i # o
    BY <1>4, <1>7, <1>11, <2>3 DEF MemInv
  <2> QED
    BY <2>1, <2>2, <2>3
<1>16. MemInv(t, q)
  BY <1>4, <1>7, <1>13, <1>14, <1>15 DEF MemInv
<1> QED
  BY <1>1, <1>2, <1>4, <1>8, <1>16

-----------------------------------------------------------------------------
(* Chains.                                                                  *)

(* c is the packet that starts at h.                                        *)
IsChain(s, h, c) ==
  /\ c \in Seq(Mbufs) /\ Len(c) # 0 /\ c[1] = h
  /\ \A i \in 1 .. Len(c) : s[c[i]].next = IF i = Len(c) THEN NULL ELSE c[i + 1]
  /\ \A i, j \in 1 .. Len(c) : c[i] = c[j] => i = j

LEMMA ChainFacts ==
  ASSUME NEW s, NEW h, NEW c, IsChain(s, h, c)
  PROVE  /\ Len(c) \in Nat \ {0} /\ \A i \in 1 .. Len(c) : c[i] \in Mbufs
         /\ Cardinality(Mbufs) \in Nat /\ Len(c) <= Cardinality(Mbufs)
         /\ c = [i \in 1 .. Len(c) |-> c[i]]
<1>1. c \in Seq(Mbufs) /\ Len(c) \in Nat \ {0} /\ \A i \in 1 .. Len(c) : c[i] \in Mbufs
  BY DEF IsChain
<1>2. c = [i \in 1 .. Len(c) |-> c[i]] /\ c \in [1 .. Len(c) -> Mbufs]
  BY <1>1
<1>3. c \in Injection(1 .. Len(c), Mbufs)
  BY <1>2 DEF IsChain, Injection, IsInjective
<1>4. Cardinality(1 .. Len(c)) <= Cardinality(Mbufs)
  BY <1>3, BufAssumption, FS_Injection
<1>5. Cardinality(1 .. Len(c)) = Len(c)
  <2>1. 1 \in Int /\ Len(c) \in Int /\ ~(1 > Len(c)) /\ Len(c) - 1 + 1 = Len(c)
    BY <1>1
  <2> QED
    BY <2>1, FS_Interval
<1>6. Cardinality(Mbufs) \in Nat
  BY BufAssumption, FS_CardinalityType
<1> QED
  BY <1>1, <1>2, <1>4, <1>5, <1>6

(* The walk over the links goes through it.                                 *)
LEMMA WalkIs ==
  ASSUME NEW s, NEW h, NEW c, IsChain(s, h, c)
  PROVE  Walk(s, h) = [n \in 0 .. Cardinality(Mbufs) |-> IF n < Len(c) THEN c[n + 1] ELSE NULL]
<1> DEFINE N == Cardinality(Mbufs)
           L == Len(c)
           turn(n, f) == IF n = 0 THEN h ELSE IF f[n - 1] = NULL THEN NULL ELSE s[f[n - 1]].next
           It(f) == f = [n \in 0 .. N |-> turn(n, f)]
           g == [n \in 0 .. N |-> IF n < L THEN c[n + 1] ELSE NULL]
<1>1. L \in Nat \ {0} /\ (\A i \in 1 .. L : c[i] \in Mbufs) /\ N \in Nat /\ L <= N /\ c[1] = h
      /\ \A i \in 1 .. L : s[c[i]].next = IF i = L THEN NULL ELSE c[i + 1]
  BY ChainFacts DEF IsChain
<1>2. NULL \notin Mbufs
  BY BufAssumption
<1>3. Walk(s, h) = CHOOSE f : It(f)
  BY DEF Walk
<1> HIDE DEF N, L
<1>4. It(g)
  <2>1. ASSUME NEW n \in 0 .. N PROVE g[n] = turn(n, g)
    <3>1. CASE n = 0
      BY <1>1, <3>1
    <3>2. CASE n # 0 /\ n <= L
      <4>1. n - 1 \in 0 .. N /\ n - 1 < L /\ n - 1 + 1 = n /\ n \in 1 .. L
        BY <1>1, <3>2
      <4>2. g[n - 1] = c[n]
        BY <4>1
      <4>3. turn(n, g) = s[c[n]].next
        BY <1>1, <1>2, <3>2, <4>1, <4>2
      <4>4. g[n] = IF n = L THEN NULL ELSE c[n + 1]
        BY <1>1, <3>2
      <4> QED
        BY <1>1, <4>1, <4>3, <4>4
    <3>3. CASE n > L
      <4>1. n - 1 \in 0 .. N /\ ~(n - 1 < L) /\ ~(n < L) /\ n # 0
        BY <1>1, <3>3
      <4> QED
        BY <4>1
    <3> QED
      BY <1>1, <3>1, <3>2, <3>3
  <2> HIDE DEF turn
  <2> QED
    BY <2>1
<1>5. PICK w : w = (CHOOSE f : It(f)) /\ It(w)
  <2> HIDE DEF It
  <2> QED
    BY <1>4
<1> DEFINE T == {n \in 0 .. N : w[n] = g[n]}
<1>6. 0 \in T
  <2>1. 0 \in 0 .. N
    BY <1>1
  <2>2. w[0] = turn(0, w) /\ g[0] = turn(0, g)
    <3> HIDE DEF g, turn
    <3> QED
      BY <1>4, <1>5, <2>1
  <2> HIDE DEF g
  <2> QED
    BY <2>1, <2>2
<1>7. ASSUME NEW n \in 0 .. (N - 1), n \in T PROVE n + 1 \in T
  <2>1. n + 1 \in 0 .. N /\ n + 1 - 1 = n /\ n + 1 # 0
    BY <1>1
  <2>2. w[n + 1] = turn(n + 1, w) /\ g[n + 1] = turn(n + 1, g)
    <3> HIDE DEF g, turn
    <3> QED
      BY <1>4, <1>5, <2>1
  <2>3. w[n] = g[n]
    BY <1>7
  <2> HIDE DEF g, It
  <2> QED
    BY <2>1, <2>2, <2>3
<1> HIDE DEF T
<1>8. 0 .. N \subseteq T
  BY <1>1, <1>6, <1>7, UpTo
<1>9. w = g
  <2>1. w = [n \in 0 .. N |-> w[n]]
    <3> HIDE DEF turn
    <3> QED
      BY <1>5
  <2>2. \A n \in 0 .. N : w[n] = g[n]
    BY <1>8 DEF T
  <2>3. g = [n \in 0 .. N |-> g[n]]
    OBVIOUS
  <2> HIDE DEF g, It
  <2> QED
    BY <2>1, <2>2, <2>3
<1> QED
  BY <1>3, <1>5, <1>9 DEF N, L

LEMMA ChainIs ==
  ASSUME NEW s, NEW h, NEW c, IsChain(s, h, c)
  PROVE  Segs(s, h) = c
<1>1. Len(c) \in Nat \ {0} /\ (\A i \in 1 .. Len(c) : c[i] \in Mbufs)
      /\ Cardinality(Mbufs) \in Nat /\ Len(c) <= Cardinality(Mbufs) /\ c = [i \in 1 .. Len(c) |-> c[i]]
  BY ChainFacts
<1>2. PICK w : w = Walk(s, h)
  OBVIOUS
<1>3. w = [n \in 0 .. Cardinality(Mbufs) |-> IF n < Len(c) THEN c[n + 1] ELSE NULL]
  BY <1>2, WalkIs
<1>4. PICK k : k = {i \in DOMAIN w : w[i] # NULL}
  OBVIOUS
<1>5. k = 0 .. (Len(c) - 1)
  <2>1. ASSUME NEW i \in 0 .. Cardinality(Mbufs) PROVE w[i] # NULL <=> i < Len(c)
    BY <1>1, <1>3, BufAssumption
  <2>2. DOMAIN w = 0 .. Cardinality(Mbufs)
    BY <1>3
  <2> QED
    BY <1>1, <1>4, <2>1, <2>2
<1>6. Cardinality(k) = Len(c)
  <2>1. 0 \in Int /\ Len(c) - 1 \in Int /\ ~(0 > Len(c) - 1) /\ (Len(c) - 1) - 0 + 1 = Len(c)
    BY <1>1
  <2> QED
    BY <1>5, <2>1, FS_Interval
<1>7. Segs(s, h) = [i \in 1 .. Len(c) |-> w[i - 1]]
  BY <1>2, <1>4, <1>6 DEF Segs
<1>8. \A i \in 1 .. Len(c) : w[i - 1] = c[i]
  BY <1>1, <1>3
<1> QED
  BY <1>1, <1>7, <1>8

(* Links that are as they were keep a packet what it was.                   *)
LEMMA ChainSame ==
  ASSUME NEW s, NEW t, NEW h, NEW c, IsChain(s, h, c), \A i \in 1 .. Len(c) : t[c[i]].next = s[c[i]].next
  PROVE  IsChain(t, h, c)
  BY DEF IsChain

-----------------------------------------------------------------------------
(* The bytes of a packet: the partial sums of its segments' lengths.        *)

SumOf(s, c, p) ==
  /\ p = [n \in 0 .. Len(c) |-> p[n]] /\ p[0] = 0
  /\ \A n \in 1 .. Len(c) : p[n] = p[n - 1] + s[c[n]].data_len

LEMMA SumIs ==
  ASSUME NEW s, NEW c, DOMAIN c = 1 .. Len(c), Len(c) \in Nat, NEW p, SumOf(s, c, p)
  PROVE  DataLen(s, c) = p[Len(c)]
<1> DEFINE N == Len(c)
           turn(t, f) == IF t = {} THEN 0 ELSE f[t \ {Max(t)}] + s[c[Max(t)]].data_len
           It(f) == f = [t \in SUBSET (1 .. N) |-> turn(t, f)]
<1>1. DataLen(s, c) = (CHOOSE f : It(f))[1 .. N]
  BY DEF DataLen, FoldLeft, MapThenFoldSet
<1>2. N \in Nat
  OBVIOUS
<1> HIDE DEF N
<1> DEFINE upto(n, f) == f = [t \in SUBSET (1 .. n) |-> turn(t, f)]
           T == {n \in 0 .. N : \E f : upto(n, f)}
<1>3. 0 \in T
  <2> DEFINE f == [t \in SUBSET (1 .. 0) |-> 0]
  <2>1. \A t \in SUBSET (1 .. 0) : t = {}
    OBVIOUS
  <2>2. \A t \in SUBSET (1 .. 0) : f[t] = turn(t, f)
    BY <2>1
  <2>3. upto(0, f)
    <3> HIDE DEF turn
    <3> QED
      BY <2>2
  <2>4. 0 \in 0 .. N
    BY <1>2
  <2> HIDE DEF upto, f
  <2> QED
    BY <2>3, <2>4
<1>4. ASSUME NEW n \in 0 .. (N - 1), n \in T PROVE n + 1 \in T
  <2>1. n \in Nat /\ n + 1 \in Nat /\ n + 1 \in 0 .. N
    BY <1>2
  <2>2. PICK f : upto(n, f)
    BY <1>4
  <2> DEFINE g == [t \in SUBSET (1 .. (n + 1)) |-> IF n + 1 \in t THEN f[t \ {n + 1}] + s[c[n + 1]].data_len ELSE f[t]]
  <2>3. ASSUME NEW t \in SUBSET (1 .. (n + 1)) PROVE g[t] = turn(t, g)
    <3>1. t \ {n + 1} \in SUBSET (1 .. n)
      BY <2>1
    <3>2. CASE n + 1 \in t
      <4>1. Max(t) = n + 1 /\ t # {}
        BY <2>1, <3>2, MaxIs
      <4>2. g[t] = f[t \ {n + 1}] + s[c[n + 1]].data_len
        BY <3>2
      <4>3. g[t \ {n + 1}] = f[t \ {n + 1}]
        BY <3>1
      <4>4. turn(t, g) = g[t \ {n + 1}] + s[c[n + 1]].data_len
        <5> HIDE DEF g
        <5> QED
          BY <4>1
      <4> QED
        BY <4>2, <4>3, <4>4
    <3>3. CASE n + 1 \notin t
      <4>1. t \in SUBSET (1 .. n)
        BY <3>1, <3>3
      <4>2. g[t] = f[t] /\ f[t] = turn(t, f)
        <5>1. g[t] = f[t]
          BY <3>3
        <5> HIDE DEF turn, g
        <5> QED
          BY <2>2, <4>1, <5>1
      <4>3. CASE t = {}
        BY <4>2, <4>3
      <4>4. CASE t # {}
        <5>1. t \ {Max(t)} \in SUBSET (1 .. (n + 1)) /\ n + 1 \notin t \ {Max(t)}
          BY <3>3
        <5>2. g[t \ {Max(t)}] = f[t \ {Max(t)}]
          BY <5>1
        <5> HIDE DEF g, upto
        <5> QED
          BY <4>2, <4>4, <5>2
      <4> QED
        BY <4>3, <4>4
    <3> QED
      BY <3>2, <3>3
  <2>4. upto(n + 1, g)
    <3> HIDE DEF turn
    <3> QED
      BY <2>3
  <2> HIDE DEF upto, g
  <2> QED
    BY <2>1, <2>4
<1>5. \E f : It(f)
  <2>1. N \in T
    <3> HIDE DEF T
    <3>1. 0 .. N \subseteq T
      BY <1>2, <1>3, <1>4, UpTo
    <3> QED
      BY <1>2, <3>1
  <2>2. PICK f : upto(N, f)
    BY <2>1
  <2> HIDE DEF turn
  <2> QED
    BY <2>2
<1>6. PICK f : f = (CHOOSE h : It(h)) /\ It(f)
  <2> HIDE DEF It
  <2> QED
    BY <1>5
<1> DEFINE U == {n \in 0 .. N : f[1 .. n] = p[n]}
<1>7. \A t \in SUBSET (1 .. N) : f[t] = turn(t, f)
  <2> HIDE DEF turn
  <2> QED
    BY <1>6
<1>8. p[0] = 0 /\ \A n \in 1 .. N : p[n] = p[n - 1] + s[c[n]].data_len
  BY DEF SumOf, N
<1> HIDE DEF It
<1>9. 0 \in U
  <2>1. 1 .. 0 = {} /\ {} \in SUBSET (1 .. N) /\ 0 \in 0 .. N
    BY <1>2
  <2>2. f[{}] = 0
    BY <1>7, <2>1
  <2> QED
    BY <1>8, <2>1, <2>2
<1>10. ASSUME NEW n \in 0 .. (N - 1), n \in U PROVE n + 1 \in U
  <2>1. /\ n + 1 \in Nat /\ n + 1 \in 0 .. N /\ n + 1 \in 1 .. (n + 1) /\ n + 1 \in 1 .. N /\ (n + 1) - 1 = n
        /\ 1 .. (n + 1) \in SUBSET (1 .. N) /\ 1 .. (n + 1) # {} /\ (1 .. (n + 1)) \ {n + 1} = 1 .. n
    <3>1. /\ n \in Nat /\ n + 1 \in Nat /\ n + 1 \in 0 .. N /\ n + 1 \in 1 .. (n + 1) /\ n + 1 \in 1 .. N
          /\ (n + 1) - 1 = n
      BY <1>2
    <3>2. 1 .. (n + 1) \in SUBSET (1 .. N)
      BY <1>2
    <3>3. (1 .. (n + 1)) \ {n + 1} = 1 .. n
      BY <3>1
    <3> QED
      BY <3>1, <3>2, <3>3
  <2>2. PICK t : t = 1 .. (n + 1)
    OBVIOUS
  <2>3. Max(t) = n + 1
    BY <2>1, <2>2, MaxIs
  <2>4. f[t] = turn(t, f)
    <3> HIDE DEF turn
    <3> QED
      BY <1>7, <2>1, <2>2
  <2>5. f[t] = f[1 .. n] + s[c[n + 1]].data_len
    BY <2>1, <2>2, <2>3, <2>4
  <2>6. p[n + 1] = p[n] + s[c[n + 1]].data_len /\ f[1 .. n] = p[n]
    BY <1>8, <1>10, <2>1
  <2> QED
    BY <2>1, <2>2, <2>5, <2>6
<1>11. f[1 .. N] = p[N]
  <2> HIDE DEF U
  <2>1. 0 .. N \subseteq U
    BY <1>2, <1>9, <1>10, UpTo
  <2>2. N \in U
    BY <1>2, <2>1
  <2> QED
    BY <2>2 DEF U
<1> QED
  BY <1>1, <1>6, <1>11 DEF N

-----------------------------------------------------------------------------
(* The loops over a packet.                                                 *)

LEMMA SameTrans ==
  ASSUME NEW s, NEW t, NEW u, NEW i, Same(u, t, i), Same(t, s, i)
  PROVE  Same(u, s, i)
  BY DEF Same

(* The turns of the loop of rte_pktmbuf_free.                               *)
FreeTurn(s, h, n, f) ==
  IF n = 0 THEN [mem |-> s, m |-> h]
  ELSE IF f[n - 1].m = NULL THEN f[n - 1]
  ELSE [mem |-> rte_pktmbuf_free_seg(f[n - 1].mem, f[n - 1].m),
        m |-> f[n - 1].mem[f[n - 1].m].next]

LEMMA FreeTurns ==
  ASSUME NEW s, NEW h
  PROVE  \E w : /\ FreeChain(s, h) = w[Cardinality(Mbufs)].mem
                /\ \A n \in 0 .. Cardinality(Mbufs) : w[n] = FreeTurn(s, h, n, w)
<1> DEFINE N == Cardinality(Mbufs)
           upto(n, f) == f = [k \in 0 .. n |-> FreeTurn(s, h, k, f)]
           T == {n \in 0 .. N : \E f : upto(n, f)}
<1>1. N \in Nat
  BY BufAssumption, FS_CardinalityType
<1>2. FreeChain(s, h) = (CHOOSE f : upto(N, f))[N].mem
  BY DEF FreeChain, FreeTurn
<1> HIDE DEF N
<1>3. 0 \in T
  <2> DEFINE f == [k \in 0 .. 0 |-> [mem |-> s, m |-> h]]
  <2>1. \A k \in 0 .. 0 : f[k] = FreeTurn(s, h, k, f)
    BY DEF FreeTurn
  <2>2. upto(0, f)
    BY <2>1
  <2> HIDE DEF upto, f
  <2> QED
    BY <1>1, <2>2
<1>4. ASSUME NEW n \in 0 .. (N - 1), n \in T PROVE n + 1 \in T
  <2>1. n \in Nat /\ n + 1 \in 0 .. N /\ (n + 1) - 1 = n /\ n + 1 # 0
    BY <1>1
  <2>2. PICK f : upto(n, f)
    BY <1>4
  <2> DEFINE g == [k \in 0 .. (n + 1) |-> IF k = n + 1 THEN FreeTurn(s, h, n + 1, f) ELSE f[k]]
  <2>3. ASSUME NEW k \in 0 .. (n + 1) PROVE g[k] = FreeTurn(s, h, k, g)
    <3>1. CASE k = n + 1
      <4>1. g[k] = FreeTurn(s, h, n + 1, f) /\ g[n] = f[n]
        BY <2>1, <3>1
      <4> HIDE DEF g
      <4> QED
        BY <2>1, <3>1, <4>1 DEF FreeTurn
    <3>2. CASE k # n + 1
      <4>1. k \in 0 .. n /\ g[k] = f[k] /\ f[k] = FreeTurn(s, h, k, f)
        <5>1. k \in 0 .. n /\ g[k] = f[k]
          BY <2>1, <3>2
        <5> HIDE DEF g
        <5> QED
          BY <2>2, <5>1
      <4>2. k # 0 => g[k - 1] = f[k - 1]
        BY <2>1, <4>1
      <4> HIDE DEF g
      <4> QED
        BY <4>1, <4>2 DEF FreeTurn
    <3> QED
      BY <3>1, <3>2
  <2>4. upto(n + 1, g)
    BY <2>3
  <2> HIDE DEF upto, g
  <2> QED
    BY <2>1, <2>4
<1>5. \E f : upto(N, f)
  <2>1. N \in T
    <3> HIDE DEF T
    <3>1. 0 .. N \subseteq T
      BY <1>1, <1>3, <1>4, UpTo
    <3> QED
      BY <1>1, <3>1
  <2> QED
    BY <2>1
<1>6. PICK w : w = (CHOOSE f : upto(N, f)) /\ upto(N, w)
  <2> HIDE DEF upto
  <2> QED
    BY <1>5
<1>7. \A n \in 0 .. N : w[n] = FreeTurn(s, h, n, w)
  BY <1>6
<1> QED
  BY <1>2, <1>6, <1>7 DEF N

(* One reference less to the first n segments.                              *)
Less(r, c, n) == [m \in Mbufs |-> IF \E i \in 1 .. n : c[i] = m THEN r[m] - 1 ELSE r[m]]

(* A reference to a whole packet is given up.                               *)
LEMMA FreeChainKeeps ==
  ASSUME NEW s, NEW r, MemInv(s, r), NEW h, NEW c, IsChain(s, h, c), \A i \in 1 .. Len(c) : r[c[i]] # 0
  PROVE  /\ MemInv(FreeChain(s, h), Less(r, c, Len(c)))
         /\ \A i \in Mbufs : Less(r, c, Len(c))[i] # 0 => Same(FreeChain(s, h), s, i)
<1> DEFINE N == Cardinality(Mbufs)
           L == Len(c)
<1>1. /\ L \in Nat \ {0} /\ (\A i \in 1 .. L : c[i] \in Mbufs) /\ N \in Nat /\ L <= N /\ c[1] = h
      /\ \A i \in 1 .. L : s[c[i]].next = IF i = L THEN NULL ELSE c[i + 1]
      /\ \A i, j \in 1 .. L : c[i] = c[j] => i = j
  BY ChainFacts DEF IsChain
<1>2. r \in [Mbufs -> 0 .. MaxHeld]
  BY DEF MemInv
<1>3. NULL \notin Mbufs
  BY BufAssumption
<1>4. PICK w : /\ FreeChain(s, h) = w[N].mem
               /\ \A n \in 0 .. N : w[n] = FreeTurn(s, h, n, w)
  BY FreeTurns
<1> HIDE DEF N, L
<1> DEFINE Done(n) == IF n < L THEN n ELSE L
           P(n) == /\ w[n].m = IF n < L THEN c[n + 1] ELSE NULL
                   /\ MemInv(w[n].mem, Less(r, c, Done(n)))
                   /\ \A i \in Mbufs : Less(r, c, Done(n))[i] # 0 => Same(w[n].mem, s, i)
           T == {n \in 0 .. N : P(n)}
<1>5. 0 \in T
  <2>1. w[0] = [mem |-> s, m |-> h] /\ 0 \in 0 .. N /\ Done(0) = 0 /\ 0 < L
    <3>1. 0 \in 0 .. N /\ 0 < L
      BY <1>1
    <3>2. w[0] = FreeTurn(s, h, 0, w)
      <4> HIDE DEF P, T, Done
      <4> QED
        BY <1>4, <3>1
    <3>3. FreeTurn(s, h, 0, w) = [mem |-> s, m |-> h]
      <4> HIDE DEF P, T, Done
      <4> QED
        BY DEF FreeTurn
    <3> HIDE DEF P, T
    <3> QED
      BY <3>1, <3>2, <3>3
  <2>2. Less(r, c, 0) = r
    BY <1>2 DEF Less
  <2>3. \A i \in Mbufs : Same(s, s, i)
    BY DEF Same
  <2>4. w[0].mem = s /\ w[0].m = h
    BY <2>1
  <2> QED
    BY <1>1, <2>1, <2>2, <2>3, <2>4
<1>6. ASSUME NEW n \in 0 .. (N - 1), n \in T PROVE n + 1 \in T
  <2>1. n \in Nat /\ n + 1 \in 0 .. N /\ (n + 1) - 1 = n /\ n + 1 # 0
    BY <1>1
  <2>2. w[n + 1] = IF w[n].m = NULL THEN w[n]
                   ELSE [mem |-> rte_pktmbuf_free_seg(w[n].mem, w[n].m), m |-> w[n].mem[w[n].m].next]
    BY <1>4, <2>1 DEF FreeTurn
  <2>3. P(n)
    BY <1>6
  <2>4. CASE n >= L
    <3>1. ~(n < L) /\ ~(n + 1 < L) /\ Done(n) = L /\ Done(n + 1) = L
      BY <1>1, <2>1, <2>4
    <3>2. w[n].m = NULL
      BY <2>3, <3>1
    <3>3. w[n + 1] = w[n]
      BY <2>2, <3>2
    <3>4. P(n + 1)
      BY <2>3, <3>1, <3>3
    <3> HIDE DEF P
    <3> QED
      BY <2>1, <3>4
  <2>5. CASE n < L
    <3>1. Done(n) = n /\ Done(n + 1) = n + 1 /\ n + 1 \in 1 .. L
      BY <1>1, <2>1, <2>5
    <3>2. PICK x, d, q : x = w[n].mem /\ d = c[n + 1] /\ q = Less(r, c, n)
      OBVIOUS
    <3>3. MemInv(x, q) /\ (\A i \in Mbufs : q[i] # 0 => Same(x, s, i)) /\ w[n].m = d
      BY <2>3, <2>5, <3>1, <3>2
    <3>4. d \in Mbufs /\ d # NULL
      BY <1>1, <1>3, <3>1, <3>2
    <3>5. q[d] = r[d] /\ q[d] # 0
      <4>1. ~\E i \in 1 .. n : c[i] = d
        BY <1>1, <2>1, <3>1, <3>2
      <4> QED
        BY <1>1, <3>1, <3>2, <3>4, <4>1 DEF Less, L
    <3>6. Less(r, c, n + 1) = [q EXCEPT ![d] = q[d] - 1]
      <4>1. ASSUME NEW m \in Mbufs PROVE Less(r, c, n + 1)[m] = [q EXCEPT ![d] = q[d] - 1][m]
        <5>1. (\E i \in 1 .. (n + 1) : c[i] = m) <=> m = d \/ \E i \in 1 .. n : c[i] = m
          BY <2>1, <3>1, <3>2
        <5>2. CASE m = d
          BY <3>2, <3>5, <5>1, <5>2 DEF Less
        <5>3. CASE m # d
          BY <3>2, <5>1, <5>3 DEF Less
        <5> QED
          BY <5>2, <5>3
      <4> QED
        BY <3>2, <4>1 DEF Less
    <3>7. w[n + 1] = [mem |-> rte_pktmbuf_free_seg(x, d), m |-> x[d].next]
      BY <2>2, <3>2, <3>3, <3>4
    <3>8. x[d].next = s[d].next
      BY <3>3, <3>4, <3>5 DEF Same
    <3>9. w[n + 1].m = IF n + 1 < L THEN c[n + 1 + 1] ELSE NULL
      <4>1. s[d].next = IF n + 1 = L THEN NULL ELSE c[n + 1 + 1]
        BY <1>1, <3>1, <3>2
      <4>2. n + 1 = L <=> ~(n + 1 < L)
        BY <1>1, <2>1, <2>5
      <4> QED
        BY <3>7, <3>8, <4>1, <4>2
    <3>10. PICK y : y = rte_pktmbuf_free_seg(x, d)
      OBVIOUS
    <3>11. PICK p : p = [q EXCEPT ![d] = q[d] - 1]
      OBVIOUS
    <3>12. MemInv(y, p) /\ \A i \in Mbufs : p[i] # 0 => Same(y, x, i)
      BY <3>3, <3>4, <3>5, <3>10, <3>11, FreeSegKeeps
    <3>13. \A i \in Mbufs : p[i] # 0 => q[i] # 0
      <4>1. q \in [Mbufs -> 0 .. MaxHeld]
        BY <3>3 DEF MemInv
      <4> QED
        BY <3>4, <3>5, <3>11, <4>1
    <3>14. \A i \in Mbufs : p[i] # 0 => Same(y, s, i)
      BY <3>3, <3>12, <3>13, SameTrans
    <3>15. w[n + 1].mem = y
      BY <3>7, <3>10
    <3>16. P(n + 1)
      BY <3>1, <3>6, <3>9, <3>11, <3>12, <3>14, <3>15
    <3> HIDE DEF P
    <3> QED
      BY <2>1, <3>16
  <2> QED
    BY <1>1, <2>1, <2>4, <2>5
<1>7. P(N)
  <2>1. N \in T
    <3> HIDE DEF T
    <3>1. 0 .. N \subseteq T
      BY <1>1, <1>5, <1>6, UpTo
    <3> QED
      BY <1>1, <3>1
  <2> QED
    BY <2>1
<1>8. Done(N) = L
  BY <1>1
<1> QED
  BY <1>4, <1>7, <1>8 DEF L

(* Fields that say nothing of the buffer, written in an mbuf in use.        *)
SameBuffer(x, y) ==
  /\ x.refcnt = y.refcnt /\ x.buf_addr = y.buf_addr /\ x.buf_iova = y.buf_iova /\ x.buf_len = y.buf_len
  /\ x.priv_size = y.priv_size /\ x.attached = y.attached /\ x.in_pool = y.in_pool

Wrote(t, s, m, x) == t = [s EXCEPT ![m] = x]

LEMMA WriteKeeps ==
  ASSUME NEW s, NEW r, MemInv(s, r), NEW m \in Mbufs, r[m] # 0, NEW x \in Mbuf, SameBuffer(x, s[m]), Fits(x),
         NEW t, Wrote(t, s, m, x)
  PROVE  MemInv(t, r) /\ t[m] = x /\ \A i \in Mbufs : i # m => t[i] = s[i]
<1>1. s \in [Mbufs -> Mbuf] /\ s[m].in_pool = 0
  BY DEF MemInv
<1>2. t \in [Mbufs -> Mbuf] /\ t[m] = x /\ \A i \in Mbufs : i # m => t[i] = s[i]
  BY <1>1, Written DEF Wrote
<1>3. \A i \in Mbufs : Own(t, i) = Own(s, i) /\ SameBuffer(t[i], s[i])
  BY <1>2 DEF Own, SameBuffer
<1>4. \A i : Att(t, i) = Att(s, i)
  BY <1>3, AttSame
<1>5. \A i \in Mbufs : Own(t, i) \in Mbufs /\ Own(t, Own(t, i)) = Own(t, i)
  <2>1. \A i \in Mbufs : Own(s, i) \in Mbufs /\ Own(s, Own(s, i)) = Own(s, i)
    BY DEF MemInv
  <2> QED
    BY <1>3, <2>1
<1>6. \A i \in Mbufs : Fits(t[i])
  BY <1>2 DEF MemInv
<1>7. \A i \in Mbufs : Uses(t[i], i, Own(t, i))
  <2>1. \A i \in Mbufs : Uses(s[i], i, Own(s, i))
    BY DEF MemInv
  <2> QED
    BY <1>3, <2>1 DEF Uses, SameBuffer
<1>8. ASSUME NEW i \in Mbufs
      PROVE  /\ t[i].in_pool = 0 => t[i].refcnt = r[i] + Cardinality(Att(t, i)) /\ t[i].refcnt # 0
             /\ t[i].in_pool # 0 => Clean(t[i], i) /\ r[i] = 0 /\ Att(t, i) = {}
  <2>1. CASE i = m
    <3>1. s[m].refcnt = r[m] + Cardinality(Att(s, m)) /\ s[m].refcnt # 0
      BY <1>1 DEF MemInv
    <3>2. t[m].refcnt = s[m].refcnt /\ t[m].in_pool = 0
      BY <1>1, <1>3 DEF SameBuffer
    <3>3. Att(t, m) = Att(s, m)
      BY <1>4
    <3> QED
      BY <2>1, <3>1, <3>2, <3>3
  <2>2. CASE i # m
    BY <1>2, <1>4, <2>2 DEF MemInv
  <2> QED
    BY <2>1, <2>2
<1>9. r \in [Mbufs -> 0 .. MaxHeld]
  BY DEF MemInv
<1> QED
  BY <1>2, <1>5, <1>6, <1>7, <1>8, <1>9 DEF MemInv

(* The turns of the loop of rte_pktmbuf_clone.                              *)
CloneTurn(s, md, fs, i, f) ==
  IF i = 0 THEN s
  ELSE LET s1 == rte_pktmbuf_attach(Alloc(f[i - 1], fs[i]), fs[i], Segs(s, md)[i])
       IN IF i = 1 THEN s1 ELSE [s1 EXCEPT ![fs[i - 1]].next = fs[i]]

LEMMA CloneTurns ==
  ASSUME NEW s, NEW md, NEW fs, Len(fs) \in Nat
  PROVE  \E w : /\ CloneSegs(s, md, fs)
                     = [w[Len(fs)] EXCEPT ![fs[1]].nb_segs = Len(fs), ![fs[1]].pkt_len = s[md].pkt_len]
                /\ \A n \in 0 .. Len(fs) : w[n] = CloneTurn(s, md, fs, n, w)
<1> DEFINE N == Len(fs)
           upto(n, f) == f = [k \in 0 .. n |-> CloneTurn(s, md, fs, k, f)]
           T == {n \in 0 .. N : \E f : upto(n, f)}
<1>1. N \in Nat
  OBVIOUS
<1>2. CloneSegs(s, md, fs)
        = [(CHOOSE f : upto(N, f))[N] EXCEPT ![fs[1]].nb_segs = Len(fs), ![fs[1]].pkt_len = s[md].pkt_len]
  BY DEF CloneSegs, CloneTurn
<1> HIDE DEF N
<1>3. 0 \in T
  <2> DEFINE f == [k \in 0 .. 0 |-> s]
  <2>1. \A k \in 0 .. 0 : f[k] = CloneTurn(s, md, fs, k, f)
    BY DEF CloneTurn
  <2>2. upto(0, f)
    BY <2>1
  <2> HIDE DEF upto, f
  <2> QED
    BY <1>1, <2>2
<1>4. ASSUME NEW n \in 0 .. (N - 1), n \in T PROVE n + 1 \in T
  <2>1. n \in Nat /\ n + 1 \in 0 .. N /\ (n + 1) - 1 = n /\ n + 1 # 0
    BY <1>1
  <2>2. PICK f : upto(n, f)
    BY <1>4
  <2> DEFINE g == [k \in 0 .. (n + 1) |-> IF k = n + 1 THEN CloneTurn(s, md, fs, n + 1, f) ELSE f[k]]
  <2>3. ASSUME NEW k \in 0 .. (n + 1) PROVE g[k] = CloneTurn(s, md, fs, k, g)
    <3>1. CASE k = n + 1
      <4>1. g[k] = CloneTurn(s, md, fs, n + 1, f) /\ g[n] = f[n]
        BY <2>1, <3>1
      <4> HIDE DEF g
      <4> QED
        BY <2>1, <3>1, <4>1 DEF CloneTurn
    <3>2. CASE k # n + 1
      <4>1. k \in 0 .. n /\ g[k] = f[k] /\ f[k] = CloneTurn(s, md, fs, k, f)
        <5>1. k \in 0 .. n /\ g[k] = f[k]
          BY <2>1, <3>2
        <5> HIDE DEF g
        <5> QED
          BY <2>2, <5>1
      <4>2. k # 0 => g[k - 1] = f[k - 1]
        BY <2>1, <4>1
      <4> HIDE DEF g
      <4> QED
        BY <4>1, <4>2 DEF CloneTurn
    <3> QED
      BY <3>1, <3>2
  <2>4. upto(n + 1, g)
    BY <2>3
  <2> HIDE DEF upto, g
  <2> QED
    BY <2>1, <2>4
<1>5. \E f : upto(N, f)
  <2>1. N \in T
    <3> HIDE DEF T
    <3>1. 0 .. N \subseteq T
      BY <1>1, <1>3, <1>4, UpTo
    <3> QED
      BY <1>1, <3>1
  <2> QED
    BY <2>1
<1>6. PICK w : w = (CHOOSE f : upto(N, f)) /\ upto(N, w)
  <2> HIDE DEF upto
  <2> QED
    BY <1>5
<1>7. \A n \in 0 .. N : w[n] = CloneTurn(s, md, fs, n, w)
  BY <1>6
<1> QED
  BY <1>2, <1>6, <1>7 DEF N

(* The first n of fs are in use, with one reference each.                   *)
With(r, fs, n) == [m \in Mbufs |-> IF \E i \in 1 .. n : fs[i] = m THEN 1 ELSE r[m]]

(* n mbufs taken from a pool for as many segments.                          *)
Fetched(s, fs) ==
  /\ fs \in Seq(Mbufs) /\ Len(fs) # 0 /\ (\A i, j \in 1 .. Len(fs) : fs[i] = fs[j] => i = j)
  /\ \A i \in 1 .. Len(fs) : s[fs[i]].in_pool # 0

(* What the first n turns of the loop have built.                           *)
ClonedTo(t, s, r, fs, c, n) ==
  /\ MemInv(t, With(r, fs, n))
  /\ \A i \in Mbufs : (\A k \in 1 .. n : fs[k] # i) => Same(t, s, i)
  /\ \A k \in 1 .. n : t[fs[k]].next = (IF k = n THEN NULL ELSE fs[k + 1]) /\ t[fs[k]].data_len = s[c[k]].data_len

LEMMA CloneStep ==
  ASSUME NEW s, NEW r, MemInv(s, r), NEW fs, Fetched(s, fs), NEW c, NEW n \in Nat, n + 1 <= Len(fs),
         c[n + 1] \in Mbufs, r[c[n + 1]] # 0, NEW x, ClonedTo(x, s, r, fs, c, n), NEW z,
         z = LET s1 == rte_pktmbuf_attach(Alloc(x, fs[n + 1]), fs[n + 1], c[n + 1])
             IN IF n = 0 THEN s1 ELSE [s1 EXCEPT ![fs[n]].next = fs[n + 1]]
  PROVE  ClonedTo(z, s, r, fs, c, n + 1)
<1> DEFINE q == With(r, fs, n)
<1>1. PICK f, d : f = fs[n + 1] /\ d = c[n + 1]
  OBVIOUS
<1>2. /\ fs \in Seq(Mbufs) /\ Len(fs) \in Nat /\ n + 1 \in 1 .. Len(fs) /\ f \in Mbufs /\ d \in Mbufs
      /\ \A i, j \in 1 .. Len(fs) : fs[i] = fs[j] => i = j
      /\ \A k \in 1 .. n : k \in 1 .. Len(fs) /\ fs[k] \in Mbufs /\ fs[k] # f /\ k # n + 1
  <2>1. fs \in Seq(Mbufs) /\ Len(fs) \in Nat /\ (\A i, j \in 1 .. Len(fs) : fs[i] = fs[j] => i = j)
    BY DEF Fetched
  <2>2. n + 1 \in 1 .. Len(fs) /\ \A k \in 1 .. n : k \in 1 .. Len(fs) /\ k # n + 1
    BY <2>1
  <2>3. \A k \in 1 .. Len(fs) : fs[k] \in Mbufs
    BY <2>1
  <2> QED
    BY <1>1, <2>1, <2>2, <2>3
<1>3. s[f].in_pool # 0 /\ r[d] # 0 /\ \A k \in 1 .. Len(fs) : s[fs[k]].in_pool # 0
  BY <1>1, <1>2 DEF Fetched
<1>4. r \in [Mbufs -> 0 .. MaxHeld] /\ \A k \in 1 .. Len(fs) : fs[k] # d
  BY <1>2, <1>3 DEF MemInv
<1>5. q[d] # 0 /\ Same(x, s, d)
  <2>1. \A k \in 1 .. n : fs[k] # d
    BY <1>2, <1>4
  <2>2. Same(x, s, d)
    BY <1>2, <2>1 DEF ClonedTo
  <2>3. q[d] = r[d]
    BY <1>2, <2>1 DEF With
  <2> QED
    BY <1>3, <2>2, <2>3
<1>6. x[f].in_pool # 0
  <2>1. Same(x, s, f)
    BY <1>2 DEF ClonedTo
  <2> QED
    BY <1>3, <2>1 DEF Same
<1>7. PICK y : y = rte_pktmbuf_attach(Alloc(x, f), f, d)
  OBVIOUS
<1>8. MemInv(x, q)
  BY DEF ClonedTo
<1> HIDE DEF q
<1>9. PICK p : p = [q EXCEPT ![f] = 1]
  OBVIOUS
<1>10. /\ MemInv(y, p) /\ \A i \in Mbufs : i # f => Same(y, x, i)
       /\ y[f].next = NULL /\ y[f].nb_segs = 1 /\ y[f].data_len = x[d].data_len
  <2>1. LET t == rte_pktmbuf_attach(Alloc(x, f), f, d) IN
        /\ MemInv(t, [q EXCEPT ![f] = 1]) /\ \A i \in Mbufs : i # f => Same(t, x, i)
        /\ t[f].next = NULL /\ t[f].nb_segs = 1 /\ t[f].data_len = x[d].data_len
    <3>1. f \in Mbufs /\ d \in Mbufs
      BY <1>2
    <3> QED
      BY ONLY <1>5, <1>6, <1>8, <3>1, AttachKeeps
  <2> QED
    BY <1>7, <1>9, <2>1
<1>11. p = With(r, fs, n + 1)
  <2>1. ASSUME NEW m \in Mbufs PROVE [q EXCEPT ![f] = 1][m] = With(r, fs, n + 1)[m]
    <3>1. (\E i \in 1 .. (n + 1) : fs[i] = m) <=> m = f \/ \E i \in 1 .. n : fs[i] = m
      BY <1>1
    <3> QED
      BY <1>2, <3>1 DEF With, q
  <2> QED
    BY <1>9, <2>1 DEF With, q
<1>12. y[f].data_len = s[d].data_len
  BY <1>5, <1>10 DEF Same
<1>13. CASE n = 0
  <2>1. z = y
    BY <1>1, <1>7, <1>13
  <2>2. \A i \in Mbufs : i # f => Same(y, s, i)
    <3>1. \A i \in Mbufs : Same(x, s, i)
      BY <1>13 DEF ClonedTo
    <3> QED
      BY <1>10, <3>1, SameTrans
  <2>3. \A i \in Mbufs : (\A k \in 1 .. (n + 1) : fs[k] # i) => Same(y, s, i)
    BY <1>1, <1>2, <2>2
  <2>4. \A k \in 1 .. (n + 1) : y[fs[k]].next = (IF k = n + 1 THEN NULL ELSE fs[k + 1]) /\ y[fs[k]].data_len = s[c[k]].data_len
    BY <1>1, <1>10, <1>12, <1>13
  <2> QED
    BY <1>10, <1>11, <2>1, <2>3, <2>4 DEF ClonedTo
<1>14. CASE n # 0
  <2>1. PICK a : a = fs[n]
    OBVIOUS
  <2>2. n \in 1 .. n /\ a \in Mbufs /\ a # f /\ n \in 1 .. Len(fs)
    BY <1>2, <1>14, <2>1
  <2>3. x[a].next = NULL /\ x[a].data_len = s[c[n]].data_len /\ Same(y, x, a)
    BY <1>10, <2>1, <2>2 DEF ClonedTo
  <2>4. p[a] # 0
    <3>1. \E i \in 1 .. (n + 1) : fs[i] = a
      BY <2>1, <2>2
    <3> QED
      BY <1>11, <2>2, <3>1 DEF With
  <2>5. y \in [Mbufs -> Mbuf] /\ y[a] \in Mbuf /\ Fits(y[a])
    BY <1>10, <2>2 DEF MemInv
  <2> DEFINE u == [y[a] EXCEPT !.next = f]
  <2>6. u \in Mbuf /\ SameBuffer(u, y[a]) /\ u.next = f /\ u.data_len = y[a].data_len
    BY <1>2, <2>5 DEF Mbuf, SameBuffer
  <2>7. Fits(u)
    <3>1. u.data_off = y[a].data_off /\ u.data_len = y[a].data_len /\ u.buf_len = y[a].buf_len /\ u.next # NULL
      BY <1>2, <2>5, BufAssumption DEF Mbuf
    <3> QED
      BY <2>5, <3>1 DEF Fits
  <2>8. z = [y EXCEPT ![a] = u]
    <3>1. z = [y EXCEPT ![a].next = f]
      BY <1>1, <1>7, <1>14, <2>1
    <3> QED
      BY <2>5, <3>1
  <2> HIDE DEF u
  <2>9. MemInv(z, p) /\ z[a] = u /\ \A i \in Mbufs : i # a => z[i] = y[i]
    <3>1. MemInv(y, p) /\ a \in Mbufs
      BY <1>10, <2>2
    <3>2. PICK v : v = u
      OBVIOUS
    <3>3. v \in Mbuf /\ SameBuffer(v, y[a]) /\ Fits(v) /\ Wrote(z, y, a, v)
      BY <2>6, <2>7, <2>8, <3>2 DEF Wrote
    <3>4. MemInv(z, p) /\ z[a] = v /\ \A i \in Mbufs : i # a => z[i] = y[i]
      BY ONLY <2>4, <3>1, <3>3, WriteKeeps
    <3> QED
      BY <3>2, <3>4
  <2>10. ASSUME NEW i \in Mbufs, \A k \in 1 .. (n + 1) : fs[k] # i PROVE Same(z, s, i)
    <3>1. n + 1 \in 1 .. (n + 1) /\ \A k \in 1 .. n : k \in 1 .. (n + 1)
      OBVIOUS
    <3>2. i # f /\ i # a /\ \A k \in 1 .. n : fs[k] # i
      BY <1>1, <2>1, <2>2, <2>10, <3>1
    <3>3. Same(y, x, i) /\ Same(x, s, i) /\ z[i] = y[i]
      BY <1>10, <2>9, <3>2 DEF ClonedTo
    <3>4. Same(y, s, i)
      BY <3>3, SameTrans
    <3> QED
      BY <3>3, <3>4 DEF Same
  <2>11. ASSUME NEW k \in 1 .. (n + 1)
         PROVE  z[fs[k]].next = (IF k = n + 1 THEN NULL ELSE fs[k + 1]) /\ z[fs[k]].data_len = s[c[k]].data_len
    <3>1. CASE k = n + 1
      BY <1>1, <1>2, <1>10, <1>12, <2>2, <2>9, <3>1
    <3>2. CASE k = n
      <4>1. z[fs[k]] = u /\ fs[k + 1] = f /\ k # n + 1
        BY <1>1, <2>1, <2>9, <3>2
      <4>2. u.data_len = s[c[k]].data_len
        BY <2>3, <2>6, <3>2 DEF Same
      <4> QED
        BY <2>6, <4>1, <4>2
    <3>3. CASE k # n /\ k # n + 1
      <4>1. k \in 1 .. n /\ k \in 1 .. Len(fs) /\ fs[k] \in Mbufs /\ fs[k] # f
        BY <1>2, <3>3
      <4>2. fs[k] # a
        BY <1>2, <2>1, <2>2, <3>3, <4>1
      <4>3. z[fs[k]] = y[fs[k]] /\ Same(y, x, fs[k])
        BY <1>10, <2>9, <4>1, <4>2
      <4>4. x[fs[k]].next = fs[k + 1] /\ x[fs[k]].data_len = s[c[k]].data_len
        BY <3>3, <4>1 DEF ClonedTo
      <4> QED
        BY <3>3, <4>3, <4>4 DEF Same
    <3> QED
      BY <3>1, <3>2, <3>3
  <2> QED
    BY <1>11, <2>9, <2>10, <2>11 DEF ClonedTo
<1> QED
  BY <1>13, <1>14

(* A clone of c in the mbufs fs: whole, or as far as they go.               *)
Cloned(t, s, r, h, fs, c) ==
  /\ MemInv(t, With(r, fs, Len(fs))) /\ IsChain(t, fs[1], fs)
  /\ \A i \in Mbufs : (\A k \in 1 .. Len(fs) : fs[k] # i) => Same(t, s, i)
  /\ \A k \in 1 .. Len(fs) : t[fs[k]].data_len = s[c[k]].data_len
  /\ t[fs[1]].nb_segs = Len(fs) /\ t[fs[1]].pkt_len = s[h].pkt_len

LEMMA CloneKeeps ==
  ASSUME NEW s, NEW r, MemInv(s, r), NEW h, NEW c, IsChain(s, h, c), \A i \in 1 .. Len(c) : r[c[i]] # 0,
         NEW fs, Fetched(s, fs), Len(fs) <= Len(c), Len(c) <= RTE_MBUF_MAX_NB_SEGS
  PROVE  Cloned(CloneSegs(s, h, fs), s, r, h, fs, c)
<1> DEFINE N == Len(fs)
           P(n, w) == ClonedTo(w[n], s, r, fs, c, n)
<1>1. /\ N \in Nat \ {0} /\ N <= Len(c) /\ N <= RTE_MBUF_MAX_NB_SEGS /\ (\A i \in 1 .. N : fs[i] \in Mbufs)
      /\ \A i, j \in 1 .. N : fs[i] = fs[j] => i = j
  <2>1. fs \in Seq(Mbufs) /\ Len(fs) # 0 /\ \A i, j \in 1 .. Len(fs) : fs[i] = fs[j] => i = j
    BY DEF Fetched
  <2>2. Len(c) \in Nat
    BY ChainFacts
  <2> QED
    BY <2>1, <2>2, Numbers
<1>2. Len(c) \in Nat /\ h \in Mbufs /\ \A i \in 1 .. Len(c) : c[i] \in Mbufs
  <2>1. Len(c) \in Nat \ {0} /\ c[1] = h /\ \A i \in 1 .. Len(c) : c[i] \in Mbufs
    BY ChainFacts DEF IsChain
  <2> QED
    BY <2>1
<1>3. Segs(s, h) = c
  BY ChainIs
<1>4. PICK w : /\ CloneSegs(s, h, fs) = [w[N] EXCEPT ![fs[1]].nb_segs = N, ![fs[1]].pkt_len = s[h].pkt_len]
               /\ \A n \in 0 .. N : w[n] = CloneTurn(s, h, fs, n, w)
  BY <1>1, CloneTurns
<1> HIDE DEF N
<1> DEFINE T == {n \in 0 .. N : P(n, w)}
<1>5. 0 \in T
  <2>1. w[0] = s /\ 0 \in 0 .. N
    <3>1. 0 \in 0 .. N
      BY <1>1
    <3> HIDE DEF P, T
    <3> QED
      BY <1>4, <3>1 DEF CloneTurn
  <2>2. With(r, fs, 0) = r
    <3>1. r \in [Mbufs -> 0 .. MaxHeld]
      BY DEF MemInv
    <3> QED
      BY <3>1 DEF With
  <2>3. \A i \in Mbufs : Same(s, s, i)
    BY DEF Same
  <2>4. ClonedTo(s, s, r, fs, c, 0)
    BY <2>2, <2>3 DEF ClonedTo
  <2> QED
    BY <2>1, <2>4
<1>6. ASSUME NEW n \in 0 .. (N - 1), n \in T PROVE n + 1 \in T
  <2>1. n \in Nat /\ n + 1 \in 0 .. N /\ (n + 1) - 1 = n /\ n + 1 # 0 /\ (n + 1 = 1 <=> n = 0) /\ n + 1 <= N
        /\ n + 1 \in 1 .. Len(c)
    BY <1>1, <1>2
  <2>2. w[n + 1] = LET s1 == rte_pktmbuf_attach(Alloc(w[n], fs[n + 1]), fs[n + 1], c[n + 1])
                   IN IF n = 0 THEN s1 ELSE [s1 EXCEPT ![fs[n]].next = fs[n + 1]]
    <3>1. w[n + 1] = CloneTurn(s, h, fs, n + 1, w)
      BY <1>4, <2>1
    <3> HIDE DEF P, T
    <3> QED
      BY <1>3, <2>1, <3>1 DEF CloneTurn
  <2>3. PICK x, z : x = w[n] /\ z = w[n + 1]
    OBVIOUS
  <2>4. ClonedTo(x, s, r, fs, c, n)
    BY <1>6, <2>3
  <2>5. z = LET s1 == rte_pktmbuf_attach(Alloc(x, fs[n + 1]), fs[n + 1], c[n + 1])
            IN IF n = 0 THEN s1 ELSE [s1 EXCEPT ![fs[n]].next = fs[n + 1]]
    BY <2>2, <2>3
  <2>6. c[n + 1] \in Mbufs /\ r[c[n + 1]] # 0 /\ n + 1 <= Len(fs) /\ n \in Nat
    BY <1>2, <2>1 DEF N
  <2>7. ClonedTo(z, s, r, fs, c, n + 1)
    BY ONLY MemInv(s, r), Fetched(s, fs), <2>4, <2>5, <2>6, CloneStep
  <2> QED
    BY <2>1, <2>3, <2>7
<1>7. P(N, w)
  <2>1. N \in T
    <3> HIDE DEF T
    <3>1. 0 .. N \subseteq T
      BY <1>1, <1>5, <1>6, UpTo
    <3> QED
      BY <1>1, <3>1
  <2> QED
    BY <2>1
<1>8. PICK y, a, t : y = w[N] /\ a = fs[1] /\ t = CloneSegs(s, h, fs)
  OBVIOUS
<1>9. PICK q : q = With(r, fs, N)
  OBVIOUS
<1>10. /\ MemInv(y, q) /\ \A i \in Mbufs : (\A k \in 1 .. N : fs[k] # i) => Same(y, s, i)
       /\ \A k \in 1 .. N : y[fs[k]].next = (IF k = N THEN NULL ELSE fs[k + 1]) /\ y[fs[k]].data_len = s[c[k]].data_len
  BY <1>7, <1>8, <1>9 DEF ClonedTo
<1> HIDE DEF P, T
<1>11. 1 \in 1 .. N /\ a \in Mbufs /\ q[a] # 0
  <2>1. 1 \in 1 .. N /\ a \in Mbufs
    BY <1>1, <1>8
  <2> QED
    BY <1>8, <1>9, <2>1 DEF With
<1> DEFINE v == [y[a] EXCEPT !.nb_segs = N, !.pkt_len = s[h].pkt_len]
<1>12. y \in [Mbufs -> Mbuf] /\ y[a] \in Mbuf /\ Fits(y[a]) /\ s[h] \in Mbuf /\ s[h].pkt_len \in Nat
  <2>1. s[h] \in Mbuf
    BY <1>2 DEF MemInv
  <2> QED
    BY <1>10, <1>11, <2>1 DEF MemInv, Mbuf
<1>13. v \in Mbuf /\ SameBuffer(v, y[a]) /\ v.next = y[a].next /\ v.data_len = y[a].data_len
       /\ v.nb_segs = N /\ v.pkt_len = s[h].pkt_len /\ v.data_off = y[a].data_off
  <2>1. N \in 1 .. RTE_MBUF_MAX_NB_SEGS
    BY <1>1, Numbers
  <2> QED
    BY <1>12, <2>1 DEF Mbuf, SameBuffer
<1>14. Fits(v)
  <2>1. v.next = NULL => N = 1
    <3>1. CASE N = 1
      BY <3>1
    <3>2. CASE N # 1
      <4>1. 2 \in 1 .. N /\ fs[2] # NULL
        BY <1>1, <3>2, BufAssumption
      <4>2. y[a].next = fs[2]
        BY <1>8, <1>10, <1>11, <3>2
      <4> QED
        BY <1>13, <4>1, <4>2
    <3> QED
      BY <3>1, <3>2
  <2>2. v.buf_len = y[a].buf_len
    BY <1>13 DEF SameBuffer
  <2> HIDE DEF v
  <2> QED
    BY <1>12, <1>13, <2>1, <2>2 DEF Fits
<1>15. Wrote(t, y, a, v)
  <2>1. t = [y EXCEPT ![a].nb_segs = N, ![a].pkt_len = s[h].pkt_len]
    BY <1>4, <1>8
  <2> QED
    BY <1>11, <1>12, <2>1 DEF Wrote, Mbuf
<1> HIDE DEF v
<1>16. MemInv(t, q) /\ t[a] = v /\ \A i \in Mbufs : i # a => t[i] = y[i]
  <2>1. PICK u : u = v
    OBVIOUS
  <2>2. u \in Mbuf /\ SameBuffer(u, y[a]) /\ Fits(u) /\ Wrote(t, y, a, u) /\ MemInv(y, q) /\ a \in Mbufs /\ q[a] # 0
    BY <1>10, <1>11, <1>13, <1>14, <1>15, <2>1
  <2>3. MemInv(t, q) /\ t[a] = u /\ \A i \in Mbufs : i # a => t[i] = y[i]
    BY ONLY <2>2, WriteKeeps
  <2> QED
    BY <2>1, <2>3
<1>17. \A i \in Mbufs : t[i].next = y[i].next /\ t[i].data_len = y[i].data_len
  BY <1>11, <1>13, <1>16
<1>18. \A k \in 1 .. N : t[fs[k]].next = (IF k = N THEN NULL ELSE fs[k + 1]) /\ t[fs[k]].data_len = s[c[k]].data_len
  BY <1>1, <1>10, <1>17
<1>19. IsChain(t, a, fs)
  <2>1. fs \in Seq(Mbufs) /\ Len(fs) # 0 /\ fs[1] = a /\ \A i, j \in 1 .. Len(fs) : fs[i] = fs[j] => i = j
    BY <1>8 DEF Fetched
  <2> QED
    BY <1>18, <2>1 DEF IsChain, N
<1>20. ASSUME NEW i \in Mbufs, \A k \in 1 .. N : fs[k] # i PROVE Same(t, s, i)
  <2>1. i # a
    BY <1>8, <1>11, <1>20
  <2>2. t[i] = y[i] /\ Same(y, s, i)
    BY <1>10, <1>16, <1>20, <2>1
  <2> QED
    BY <2>2 DEF Same
<1>21. t[a].nb_segs = N /\ t[a].pkt_len = s[h].pkt_len
  BY <1>13, <1>16
<1>22. Cloned(t, s, r, h, fs, c)
  BY <1>8, <1>9, <1>16, <1>18, <1>19, <1>20, <1>21 DEF Cloned, N
<1> QED
  BY <1>8, <1>22

-----------------------------------------------------------------------------
(* The inductive invariant.                                                 *)

In(m, c) == \E i \in 1 .. Len(c) : c[i] = m

(* The n references to the packet that starts at h are to each segment.     *)
Chained(s, r, n, h, c) ==
  /\ IsChain(s, h, c)
  /\ s[h].nb_segs = Len(c)
  /\ \E p : SumOf(s, c, p) /\ s[h].pkt_len = p[Len(c)]
  /\ \A m \in Mbufs : In(m, c) => r[m] = n

(* The packets in C, of which hd counts the references, are apart, and they *)
(* are all that is referred to.                                             *)
Good(s, hd, r, C) ==
  /\ MemInv(s, r) /\ hd \in [Mbufs -> 0 .. MaxHeld] /\ C \in [Mbufs -> Seq(Mbufs)]
  /\ \A h \in Mbufs : hd[h] # 0 => Chained(s, r, hd[h], h, C[h])
  /\ \A h, g \in Mbufs : hd[h] # 0 /\ hd[g] # 0 /\ h # g => ~\E m \in Mbufs : In(m, C[h]) /\ In(m, C[g])
  /\ \A m \in Mbufs : r[m] # 0 => \E h \in Mbufs : hd[h] # 0 /\ In(m, C[h])

LEMMA InChain ==
  ASSUME NEW s, NEW h, NEW c, IsChain(s, h, c)
  PROVE  h \in Mbufs /\ In(h, c) /\ \A m : In(m, c) => m \in Mbufs
<1>1. Len(c) \in Nat \ {0} /\ c[1] = h /\ \A i \in 1 .. Len(c) : c[i] \in Mbufs
  BY ChainFacts DEF IsChain
<1> QED
  BY <1>1 DEF In

LEMMA SumSame ==
  ASSUME NEW s, NEW t, NEW c, NEW d, Len(d) = Len(c), \A i \in 1 .. Len(c) : t[d[i]].data_len = s[c[i]].data_len,
         NEW p, SumOf(s, c, p)
  PROVE  SumOf(t, d, p)
  BY DEF SumOf

LEMMA PacketSame ==
  ASSUME NEW s, NEW t, NEW r, NEW q, NEW n, NEW k, NEW h, NEW c, Chained(s, r, n, h, c),
         \A m \in Mbufs : In(m, c) => Same(t, s, m) /\ q[m] = k
  PROVE  Chained(t, q, k, h, c)
<1>1. IsChain(s, h, c)
  BY DEF Chained
<1>2. h \in Mbufs /\ In(h, c)
  BY <1>1, InChain
<1>3. \A i \in 1 .. Len(c) : c[i] \in Mbufs /\ In(c[i], c)
  BY <1>1, ChainFacts DEF In
<1>4. \A i \in 1 .. Len(c) : t[c[i]].next = s[c[i]].next /\ t[c[i]].data_len = s[c[i]].data_len
  BY <1>3 DEF Same
<1>5. IsChain(t, h, c)
  BY <1>1, <1>4, ChainSame
<1>6. t[h].nb_segs = Len(c) /\ t[h].pkt_len = s[h].pkt_len
  BY <1>2 DEF Chained, Same
<1>7. PICK p : SumOf(s, c, p) /\ s[h].pkt_len = p[Len(c)]
  BY DEF Chained
<1>8. SumOf(t, c, p)
  BY <1>4, <1>7, SumSame
<1> QED
  BY <1>5, <1>6, <1>7, <1>8 DEF Chained

LEMMA InUse ==
  ASSUME NEW s, NEW r, MemInv(s, r), NEW m \in Mbufs, r[m] # 0
  PROVE  s[m].in_pool = 0
  BY DEF MemInv

LEMMA HeldFacts ==
  ASSUME NEW s, NEW hd, NEW r, NEW C, Good(s, hd, r, C), NEW h \in Mbufs, hd[h] # 0
  PROVE  /\ MemInv(s, r) /\ Chained(s, r, hd[h], h, C[h]) /\ IsChain(s, h, C[h]) /\ Segs(s, h) = C[h]
         /\ hd[h] \in Nat /\ \A m \in Mbufs : In(m, C[h]) => r[m] = hd[h]
         /\ \A i \in 1 .. Len(C[h]) : C[h][i] \in Mbufs /\ r[C[h][i]] = hd[h]
         /\ r[h] = hd[h] /\ s[h].in_pool = 0
         /\ Len(C[h]) \in Nat \ {0} /\ Len(C[h]) <= RTE_MBUF_MAX_NB_SEGS
         /\ \A g \in Mbufs : hd[g] # 0 /\ g # h => ~\E m \in Mbufs : In(m, C[h]) /\ In(m, C[g])
<1>1. MemInv(s, r) /\ Chained(s, r, hd[h], h, C[h]) /\ hd[h] \in 0 .. MaxHeld
  BY DEF Good
<1>2. IsChain(s, h, C[h]) /\ \A m \in Mbufs : In(m, C[h]) => r[m] = hd[h]
  BY <1>1 DEF Chained
<1>3. Segs(s, h) = C[h] /\ In(h, C[h]) /\ Len(C[h]) \in Nat \ {0} /\ \A i \in 1 .. Len(C[h]) : C[h][i] \in Mbufs
  BY <1>2, ChainIs, InChain, ChainFacts
<1>4. r[h] = hd[h] /\ \A i \in 1 .. Len(C[h]) : r[C[h][i]] = hd[h]
  BY <1>2, <1>3 DEF In
<1>5. s[h].in_pool = 0
  BY <1>1, <1>4, InUse
<1>6. Len(C[h]) <= RTE_MBUF_MAX_NB_SEGS
  <2>1. s[h] \in Mbuf /\ s[h].nb_segs = Len(C[h])
    BY <1>1 DEF MemInv, Chained
  <2>2. s[h].nb_segs \in 1 .. RTE_MBUF_MAX_NB_SEGS
    BY <2>1 DEF Mbuf
  <2> QED
    BY <2>1, <2>2, Numbers
<1>7. \A g \in Mbufs : hd[g] # 0 /\ g # h => ~\E m \in Mbufs : In(m, C[h]) /\ In(m, C[g])
  BY DEF Good
<1>8. hd[h] \in Nat
  BY <1>1, Numbers
<1> QED
  BY <1>1, <1>2, <1>3, <1>4, <1>5, <1>6, <1>7, <1>8

LEMMA Unheld ==
  ASSUME NEW s, NEW hd, NEW r, NEW C, Good(s, hd, r, C), NEW m \in Mbufs, s[m].in_pool # 0
  PROVE  hd[m] = 0 /\ r[m] = 0 /\ \A h \in Mbufs : hd[h] # 0 => ~In(m, C[h])
<1>1. r[m] = 0
  BY DEF Good, MemInv
<1>2. hd[m] = 0
  BY HeldFacts
<1>3. ASSUME NEW h \in Mbufs, hd[h] # 0 PROVE ~In(m, C[h])
  BY <1>1, <1>3, HeldFacts
<1> QED
  BY <1>1, <1>2, <1>3

-----------------------------------------------------------------------------
(* The calls.                                                               *)

LEMMA InitGood ==
  ASSUME NEW s, s = [m \in Mbufs |-> Fresh(m)]
  PROVE  Good(s, [m \in Mbufs |-> 0], [m \in Mbufs |-> 0], [m \in Mbufs |-> <<>>])
<1> DEFINE z == [m \in Mbufs |-> 0]
<1>1. ASSUME NEW m \in Mbufs PROVE Fresh(m) \in Mbuf /\ Clean(Fresh(m), m)
  <2>1. PICK room, priv : room = rte_pktmbuf_data_room_size(pool(m)) /\ priv = rte_pktmbuf_priv_size(pool(m))
    OBVIOUS
  <2>2. room \in Small /\ priv \in Small /\ rte_mbuf_to_baddr(m) \in Addresses
    BY <2>1, Sizes, Baddr
  <2>3. Headroom0(room) \in Small /\ Headroom0(room) <= room
    BY <2>2, HeadroomFits
  <2>4. 0 \in Small /\ 1 \in Small /\ 1 \in 1 .. RTE_MBUF_MAX_NB_SEGS
    <3>1. 1 \in 1 .. RTE_MBUF_MAX_NB_SEGS /\ 0 \in Small
      BY Numbers DEF Small
    <3>2. Cardinality(Mbufs) \in Nat /\ Cardinality(Mbufs) # 0
      BY BufAssumption, FS_EmptySet, FS_CardinalityType
    <3>3. 1 \in Small
      BY <3>2, Numbers, CountsAssumption DEF Small
    <3> QED
      BY <3>1, <3>3
  <2>5. Fresh(m) \in Mbuf
    BY <2>1, <2>2, <2>3, <2>4 DEF Fresh, Mbuf
  <2>6. Uses(Fresh(m), m, m)
    BY DEF Fresh, Uses
  <2>7. Fits(Fresh(m))
    <3>1. Headroom0(room) + 0 <= room
      BY <2>2, <2>3 DEF Small
    <3> QED
      BY <2>1, <3>1 DEF Fresh, Fits
  <2>8. Clean(Fresh(m), m)
    BY <2>6, <2>7 DEF Clean, Fresh
  <2> QED
    BY <2>5, <2>8
<1>2. s \in [Mbufs -> Mbuf] /\ \A m \in Mbufs : Clean(s[m], m)
  BY <1>1
<1>3. \A m \in Mbufs : Own(s, m) = m
  BY <1>2, OwnIs DEF Clean
<1>4. \A m \in Mbufs : Att(s, m) = {}
  BY <1>3 DEF Att
<1>5. z \in [Mbufs -> 0 .. MaxHeld]
  BY Numbers
<1>6. MemInv(s, z)
  BY <1>2, <1>3, <1>4, <1>5 DEF MemInv, Clean
<1> QED
  BY <1>5, <1>6 DEF Good

(* rte_pktmbuf_alloc_bulk: ms leave their pool.                             *)
Allocated(t, e, s, hd, ms) ==
  /\ t = [m \in Mbufs |-> IF m \in ms THEN Alloc(s, m)[m] ELSE s[m]]
  /\ e = [m \in Mbufs |-> IF m \in ms THEN 1 ELSE hd[m]]

LEMMA AllocGood ==
  ASSUME NEW s, NEW hd, NEW r, NEW C, Good(s, hd, r, C), NEW ms, ms \subseteq Mbufs,
         \A m \in ms : s[m].in_pool # 0, NEW t, NEW e, Allocated(t, e, s, hd, ms)
  PROVE  \E q, D : Good(t, e, q, D)
<1>1. PICK q, D : /\ e = [m \in Mbufs |-> IF m \in ms THEN 1 ELSE hd[m]]
                  /\ t = [m \in Mbufs |-> IF m \in ms THEN Alloc(s, m)[m] ELSE s[m]]
                  /\ q = [m \in Mbufs |-> IF m \in ms THEN 1 ELSE r[m]]
                  /\ D = [m \in Mbufs |-> IF m \in ms THEN <<m>> ELSE C[m]]
  BY DEF Allocated
<1>2. MemInv(s, r) /\ s \in [Mbufs -> Mbuf] /\ r \in [Mbufs -> 0 .. MaxHeld] /\ hd \in [Mbufs -> 0 .. MaxHeld]
      /\ C \in [Mbufs -> Seq(Mbufs)]
  BY DEF Good, MemInv
<1>3. 1 \in 0 .. MaxHeld
  BY Numbers
<1>4. /\ e \in [Mbufs -> 0 .. MaxHeld] /\ q \in [Mbufs -> 0 .. MaxHeld]
      /\ \A m \in Mbufs : e[m] = (IF m \in ms THEN 1 ELSE hd[m]) /\ q[m] = (IF m \in ms THEN 1 ELSE r[m])
  BY <1>1, <1>2, <1>3
<1>5. D \in [Mbufs -> Seq(Mbufs)] /\ \A m \in Mbufs : D[m] = IF m \in ms THEN <<m>> ELSE C[m]
  BY <1>1, <1>2
<1>6. ASSUME NEW m \in ms
      PROVE  /\ t[m] \in Mbuf /\ t[m].refcnt = 1 /\ t[m].next = NULL /\ t[m].nb_segs = 1 /\ t[m].pkt_len = 0
             /\ t[m].data_len = 0 /\ t[m].in_pool = 0 /\ Uses(t[m], m, m) /\ Fits(t[m])
             /\ Own(s, m) = m /\ Own(t, m) = m /\ Att(s, m) = {}
  <2>1. m \in Mbufs
    OBVIOUS
  <2>2. PICK x : x = Alloc(s, m)
    OBVIOUS
  <2>3. /\ x \in [Mbufs -> Mbuf] /\ x[m].refcnt = 1 /\ x[m].next = NULL /\ x[m].nb_segs = 1 /\ x[m].pkt_len = 0
        /\ x[m].data_len = 0 /\ x[m].in_pool = 0 /\ Uses(x[m], m, m) /\ Fits(x[m])
    BY <1>2, <2>1, <2>2, AllocIs
  <2>4. t[m] = x[m]
    BY <1>1, <2>1, <2>2
  <2>5. Clean(s[m], m) /\ Att(s, m) = {}
    BY <1>2, <2>1 DEF MemInv
  <2>6. Own(s, m) = m /\ Own(t, m) = m
    BY <2>3, <2>4, <2>5, OwnIs DEF Clean
  <2> QED
    BY <2>1, <2>3, <2>4, <2>5, <2>6
<1>7. \A m \in Mbufs : m \notin ms => t[m] = s[m]
  BY <1>1
<1>8. t \in [Mbufs -> Mbuf]
  <2>1. \A m \in Mbufs : t[m] \in Mbuf
    BY <1>2, <1>6, <1>7
  <2> QED
    BY <1>1, <2>1
<1>9. \A m \in Mbufs : Own(t, m) = Own(s, m)
  BY <1>6, <1>7 DEF Own
<1>10. \A m : Att(t, m) = Att(s, m)
  BY <1>9, AttSame
<1>11. ASSUME NEW m \in Mbufs
       PROVE  /\ Own(t, m) \in Mbufs /\ Own(t, Own(t, m)) = Own(t, m)
              /\ Uses(t[m], m, Own(t, m)) /\ Fits(t[m])
              /\ t[m].in_pool = 0 => t[m].refcnt = q[m] + Cardinality(Att(t, m)) /\ t[m].refcnt # 0
              /\ t[m].in_pool # 0 => Clean(t[m], m) /\ q[m] = 0 /\ Att(t, m) = {}
  <2>1. Own(t, m) \in Mbufs /\ Own(t, Own(t, m)) = Own(t, m)
    <3>1. Own(s, m) \in Mbufs /\ Own(s, Own(s, m)) = Own(s, m)
      BY <1>2 DEF MemInv
    <3> QED
      BY <1>9, <3>1
  <2>2. CASE m \in ms
    <3>1. Cardinality(Att(t, m)) = 0
      BY <1>6, <1>10, <2>2, FS_EmptySet
    <3> QED
      BY <1>4, <1>6, <2>1, <2>2, <3>1
  <2>3. CASE m \notin ms
    <3>1. /\ Uses(s[m], m, Own(s, m)) /\ Fits(s[m])
          /\ s[m].in_pool = 0 => s[m].refcnt = r[m] + Cardinality(Att(s, m)) /\ s[m].refcnt # 0
          /\ s[m].in_pool # 0 => Clean(s[m], m) /\ r[m] = 0 /\ Att(s, m) = {}
      BY <1>2 DEF MemInv
    <3> QED
      BY <1>4, <1>7, <1>9, <1>10, <2>1, <2>3, <3>1
  <2> QED
    BY <2>2, <2>3
<1>12. MemInv(t, q)
  BY <1>4, <1>8, <1>11 DEF MemInv
<1>13. ASSUME NEW m \in ms, NEW i PROVE In(i, <<m>>) <=> i = m
  BY DEF In
<1>14. ASSUME NEW h \in Mbufs, e[h] # 0, h \notin ms
       PROVE  hd[h] # 0 /\ e[h] = hd[h] /\ D[h] = C[h] /\ \A m \in Mbufs : In(m, C[h]) => m \notin ms
  <2>1. hd[h] # 0 /\ e[h] = hd[h] /\ D[h] = C[h]
    BY <1>4, <1>5, <1>14
  <2>2. \A m \in ms : ~In(m, C[h])
    <3>1. ASSUME NEW m \in ms PROVE ~In(m, C[h])
      <4>1. m \in Mbufs /\ s[m].in_pool # 0
        OBVIOUS
      <4> QED
        BY <2>1, <4>1, Unheld
    <3> QED
      BY <3>1
  <2> QED
    BY <2>1, <2>2
<1>15. ASSUME NEW h \in Mbufs, e[h] # 0 PROVE Chained(t, q, e[h], h, D[h])
  <2>1. CASE h \in ms
    <3>1. e[h] = 1 /\ D[h] = <<h>> /\ q[h] = 1
      BY <1>4, <1>5, <2>1
    <3>2. IsChain(t, h, <<h>>)
      <4>1. <<h>> \in Seq(Mbufs) /\ Len(<<h>>) = 1 /\ <<h>>[1] = h
        OBVIOUS
      <4>2. \A i \in 1 .. 1 : i = 1
        OBVIOUS
      <4> QED
        BY <1>6, <2>1, <4>1, <4>2 DEF IsChain
    <3> DEFINE p == [n \in 0 .. 1 |-> 0]
    <3>3. SumOf(t, <<h>>, p) /\ p[Len(<<h>>)] = 0
      <4>1. Len(<<h>>) = 1 /\ <<h>>[1] = h /\ p[0] = 0 /\ p[1] = 0 /\ t[h].data_len = 0
        BY <1>6, <2>1
      <4>2. p = [n \in 0 .. 1 |-> p[n]]
        OBVIOUS
      <4>3. \A n \in 1 .. 1 : n = 1
        OBVIOUS
      <4> HIDE DEF p
      <4>4. \A n \in 1 .. 1 : p[n] = p[n - 1] + t[<<h>>[n]].data_len
        BY <4>1, <4>3
      <4> QED
        BY <4>1, <4>2, <4>4 DEF SumOf
    <3> HIDE DEF p
    <3>4. t[h].nb_segs = Len(<<h>>) /\ t[h].pkt_len = 0
      BY <1>6, <2>1
    <3>5. \A m \in Mbufs : In(m, <<h>>) => q[m] = 1
      BY <1>13, <2>1, <3>1
    <3> QED
      BY <3>1, <3>2, <3>3, <3>4, <3>5 DEF Chained
  <2>2. CASE h \notin ms
    <3>1. hd[h] # 0 /\ e[h] = hd[h] /\ D[h] = C[h] /\ \A m \in Mbufs : In(m, C[h]) => m \notin ms
      BY <1>14, <1>15, <2>2
    <3>2. Chained(s, r, hd[h], h, C[h]) /\ \A m \in Mbufs : In(m, C[h]) => r[m] = hd[h]
      BY <3>1, HeldFacts
    <3>3. \A m \in Mbufs : In(m, C[h]) => Same(t, s, m) /\ q[m] = hd[h]
      BY <1>4, <1>7, <3>1, <3>2 DEF Same
    <3> QED
      BY <3>1, <3>2, <3>3, PacketSame
  <2> QED
    BY <2>1, <2>2
<1>16. ASSUME NEW h \in Mbufs, NEW g \in Mbufs, e[h] # 0, e[g] # 0, h # g, NEW m \in Mbufs, In(m, D[h]), In(m, D[g])
       PROVE  FALSE
  <2>1. CASE h \in ms
    <3>1. m = h
      BY <1>5, <1>13, <1>16, <2>1
    <3>2. CASE g \in ms
      BY <1>5, <1>13, <1>16, <3>1, <3>2
    <3>3. CASE g \notin ms
      BY <1>14, <1>16, <2>1, <3>1, <3>3
    <3> QED
      BY <3>2, <3>3
  <2>2. CASE h \notin ms /\ g \in ms
    <3>1. m = g
      BY <1>5, <1>13, <1>16, <2>2
    <3> QED
      BY <1>14, <1>16, <2>2, <3>1
  <2>3. CASE h \notin ms /\ g \notin ms
    <3>1. hd[h] # 0 /\ hd[g] # 0 /\ In(m, C[h]) /\ In(m, C[g])
      BY <1>14, <1>16, <2>3
    <3> QED
      BY <1>16, <3>1 DEF Good
  <2> QED
    BY <2>1, <2>2, <2>3
<1>17. ASSUME NEW m \in Mbufs, q[m] # 0 PROVE \E h \in Mbufs : e[h] # 0 /\ In(m, D[h])
  <2>1. CASE m \in ms
    <3>1. e[m] = 1 /\ D[m] = <<m>> /\ In(m, <<m>>)
      BY <1>4, <1>5, <1>13, <2>1
    <3>2. e[m] # 0 /\ In(m, D[m])
      BY <3>1
    <3> QED
      BY <3>2
  <2>2. CASE m \notin ms
    <3>1. PICK h \in Mbufs : hd[h] # 0 /\ In(m, C[h])
      BY <1>4, <1>17, <2>2 DEF Good
    <3>2. h \notin ms
      <4>1. ASSUME h \in ms PROVE FALSE
        <5>1. s[h].in_pool # 0
          BY <4>1
        <5> QED
          BY <3>1, <5>1, Unheld
      <4> QED
        BY <4>1
    <3> QED
      BY <1>4, <1>5, <3>1, <3>2
  <2> QED
    BY <2>1, <2>2
<1>18. Good(t, e, q, D)
  BY <1>4, <1>5, <1>12, <1>15, <1>16, <1>17 DEF Good
<1> QED
  BY <1>18

(* Segments that are as they were, and references to whole packets.         *)
LEMMA GoodStays ==
  ASSUME NEW s, NEW hd, NEW r, NEW C, Good(s, hd, r, C), NEW t, NEW e, NEW q, MemInv(t, q),
         e \in [Mbufs -> 0 .. MaxHeld], \A h \in Mbufs : e[h] # 0 => hd[h] # 0,
         \A h \in Mbufs : e[h] # 0 => \A m \in Mbufs : In(m, C[h]) => Same(t, s, m) /\ q[m] = e[h],
         \A m \in Mbufs : q[m] # 0 => \E h \in Mbufs : e[h] # 0 /\ In(m, C[h])
  PROVE  Good(t, e, q, C)
<1>1. ASSUME NEW h \in Mbufs, e[h] # 0 PROVE Chained(t, q, e[h], h, C[h])
  <2>1. Chained(s, r, hd[h], h, C[h])
    BY <1>1, HeldFacts
  <2> QED
    BY <1>1, <2>1, PacketSame
<1>2. C \in [Mbufs -> Seq(Mbufs)]
      /\ \A h, g \in Mbufs : e[h] # 0 /\ e[g] # 0 /\ h # g => ~\E m \in Mbufs : In(m, C[h]) /\ In(m, C[g])
  BY DEF Good
<1> QED
  BY <1>1, <1>2 DEF Good

(* rte_pktmbuf_refcnt_update: one reference more to the whole packet.       *)
LEMMA RefcntGood ==
  ASSUME NEW s, NEW hd, NEW r, NEW C, Good(s, hd, r, C), NEW h \in Mbufs, hd[h] \in 1 .. (MaxHeld - 1), NEW t,
         t = [m \in Mbufs |-> IF m \in Range(Segs(s, h)) THEN rte_mbuf_refcnt_update(s, m, 1)[m] ELSE s[m]]
  PROVE  Good(t, [hd EXCEPT ![h] = hd[h] + 1], [m \in Mbufs |-> IF In(m, C[h]) THEN hd[h] + 1 ELSE r[m]], C)
<1>1. PICK e, q : e = [hd EXCEPT ![h] = hd[h] + 1] /\ q = [m \in Mbufs |-> IF In(m, C[h]) THEN hd[h] + 1 ELSE r[m]]
  OBVIOUS
<1>2. /\ MemInv(s, r) /\ s \in [Mbufs -> Mbuf] /\ r \in [Mbufs -> 0 .. MaxHeld] /\ hd \in [Mbufs -> 0 .. MaxHeld]
      /\ hd[h] # 0 /\ hd[h] + 1 # 0
  BY DEF Good, MemInv
<1>3. hd[h] + 1 \in 0 .. MaxHeld /\ hd[h] \in Nat
  BY Numbers
<1>4. /\ e \in [Mbufs -> 0 .. MaxHeld] /\ q \in [Mbufs -> 0 .. MaxHeld]
      /\ e[h] = hd[h] + 1 /\ \A m \in Mbufs : m # h => e[m] = hd[m]
      /\ \A m \in Mbufs : q[m] = IF In(m, C[h]) THEN hd[h] + 1 ELSE r[m]
  BY <1>1, <1>2, <1>3
<1>5. /\ Segs(s, h) = C[h] /\ \A m \in Mbufs : In(m, C[h]) => r[m] = hd[h]
      /\ Len(C[h]) \in Nat /\ C[h] \in Seq(Mbufs)
      /\ \A g \in Mbufs : hd[g] # 0 /\ g # h => ~\E m \in Mbufs : In(m, C[h]) /\ In(m, C[g])
  <2>1. C[h] \in Seq(Mbufs)
    BY DEF Good
  <2> QED
    BY <1>2, <2>1, HeldFacts
<1>6. \A m : m \in Range(Segs(s, h)) <=> In(m, C[h])
  <2>1. DOMAIN C[h] = 1 .. Len(C[h])
    BY <1>5
  <2> QED
    BY <1>5, <2>1 DEF Range, In
<1>7. ASSUME NEW m \in Mbufs, In(m, C[h]) PROVE t[m] \in Mbuf /\ t[m].refcnt = s[m].refcnt + 1 /\ Same(t, s, m)
  <2>1. s[m] \in Mbuf /\ s[m].refcnt \in Nat /\ s[m].in_pool = 0 /\ s[m].refcnt = r[m] + Cardinality(Att(s, m))
    <3>1. s[m].in_pool = 0
      BY <1>2, <1>5, <1>7, InUse
    <3>2. s[m].refcnt \in Nat
      BY <1>2, Numbers DEF Mbuf, Small
    <3> QED
      BY <1>2, <3>1, <3>2 DEF MemInv
  <2>2. Cardinality(Att(s, m)) <= Cardinality(Mbufs) - 1 /\ Cardinality(Att(s, m)) \in Nat /\ Cardinality(Mbufs) \in Nat
    <3>1. IsFiniteSet(Mbufs \ {m}) /\ Cardinality(Mbufs \ {m}) = Cardinality(Mbufs) - 1
      BY BufAssumption, FS_RemoveElement
    <3>2. Att(s, m) \subseteq Mbufs \ {m}
      BY DEF Att
    <3>3. Cardinality(Att(s, m)) <= Cardinality(Mbufs \ {m})
      BY <3>1, <3>2, FS_Subset
    <3> QED
      BY <3>1, <3>3, AttFinite, BufAssumption, FS_CardinalityType
  <2>3. s[m].refcnt + 1 \in Small /\ (s[m].refcnt + 1) % UINT16 = s[m].refcnt + 1
    <3>1. r[m] = hd[h] /\ hd[h] <= MaxHeld - 1
      BY <1>5, <1>7, Numbers
    <3>2. s[m].refcnt + 1 \in 0 .. UINT16 - 1
      BY <1>3, <2>1, <2>2, <3>1, Numbers, CountsAssumption
    <3> QED
      BY <3>2, Numbers DEF Small
  <2> DEFINE x == [s[m] EXCEPT !.refcnt = s[m].refcnt + 1]
  <2>4. t[m] = x
    <3>1. t[m] = rte_mbuf_refcnt_update(s, m, 1)[m]
      BY <1>6, <1>7
    <3> QED
      BY <1>2, <2>1, <2>3, <3>1 DEF rte_mbuf_refcnt_update
  <2>5. x \in Mbuf /\ x.refcnt = s[m].refcnt + 1
    BY <2>1, <2>3 DEF Mbuf
  <2>6. /\ x.next = s[m].next /\ x.nb_segs = s[m].nb_segs
        /\ x.pkt_len = s[m].pkt_len /\ x.data_len = s[m].data_len /\ x.data_off = s[m].data_off
        /\ x.buf_addr = s[m].buf_addr /\ x.buf_iova = s[m].buf_iova /\ x.buf_len = s[m].buf_len
        /\ x.priv_size = s[m].priv_size /\ x.attached = s[m].attached /\ x.in_pool = s[m].in_pool
    BY <2>1 DEF Mbuf
  <2> HIDE DEF x
  <2> QED
    BY <2>4, <2>5, <2>6 DEF Same
<1>8. \A m \in Mbufs : ~In(m, C[h]) => t[m] = s[m]
  BY <1>6
<1>9. \A m \in Mbufs : Same(t, s, m)
  <2>1. \A m \in Mbufs : ~In(m, C[h]) => Same(t, s, m)
    BY <1>8 DEF Same
  <2> QED
    BY <1>7, <2>1
<1>10. t \in [Mbufs -> Mbuf]
  <2>1. \A m \in Mbufs : t[m] \in Mbuf
    BY <1>2, <1>7, <1>8
  <2> QED
    BY <2>1
<1>11. (\A m \in Mbufs : Own(t, m) = Own(s, m)) /\ \A m : Att(t, m) = Att(s, m)
  <2>1. \A m \in Mbufs : Own(t, m) = Own(s, m)
    BY <1>9, SameOwn
  <2> QED
    BY <2>1, AttSame
<1>12. ASSUME NEW m \in Mbufs
       PROVE  /\ Own(t, m) \in Mbufs /\ Own(t, Own(t, m)) = Own(t, m)
              /\ Uses(t[m], m, Own(t, m)) /\ Fits(t[m])
              /\ t[m].in_pool = 0 => t[m].refcnt = q[m] + Cardinality(Att(t, m)) /\ t[m].refcnt # 0
              /\ t[m].in_pool # 0 => Clean(t[m], m) /\ q[m] = 0 /\ Att(t, m) = {}
  <2>1. Own(t, m) \in Mbufs /\ Own(t, Own(t, m)) = Own(t, m)
    <3>1. Own(s, m) \in Mbufs /\ Own(s, Own(s, m)) = Own(s, m)
      BY <1>2 DEF MemInv
    <3> QED
      BY <1>11, <3>1
  <2>2. Uses(t[m], m, Own(t, m)) /\ Fits(t[m])
    <3>1. Uses(s[m], m, Own(s, m)) /\ Fits(s[m]) /\ Same(t, s, m) /\ Own(t, m) = Own(s, m)
      BY <1>2, <1>9, <1>11 DEF MemInv
    <3> QED
      BY <3>1 DEF Uses, Fits, Same
  <2>3. CASE In(m, C[h])
    <3>1. s[m].in_pool = 0 /\ s[m].refcnt = r[m] + Cardinality(Att(s, m)) /\ r[m] = hd[h]
      <4>1. r[m] = hd[h] /\ s[m].in_pool = 0
        BY <1>2, <1>5, <2>3, InUse
      <4> QED
        BY <1>2, <4>1 DEF MemInv
    <3>2. t[m].in_pool = 0 /\ t[m].refcnt = s[m].refcnt + 1 /\ q[m] = hd[h] + 1 /\ Cardinality(Att(s, m)) \in Nat
      BY <1>4, <1>7, <2>3, <3>1, AttFinite DEF Same
    <3>3. t[m].refcnt = q[m] + Cardinality(Att(s, m)) /\ t[m].refcnt # 0
      BY <1>3, <3>1, <3>2
    <3> QED
      BY <1>11, <2>1, <2>2, <3>2, <3>3
  <2>4. CASE ~In(m, C[h])
    <3>1. /\ s[m].in_pool = 0 => s[m].refcnt = r[m] + Cardinality(Att(s, m)) /\ s[m].refcnt # 0
          /\ s[m].in_pool # 0 => Clean(s[m], m) /\ r[m] = 0 /\ Att(s, m) = {}
      BY <1>2 DEF MemInv
    <3>2. t[m] = s[m] /\ q[m] = r[m] /\ Att(t, m) = Att(s, m)
      BY <1>4, <1>8, <1>11, <2>4
    <3> QED
      BY <2>1, <2>2, <3>1, <3>2
  <2> QED
    BY <2>3, <2>4
<1>13. MemInv(t, q)
  BY <1>4, <1>10, <1>12 DEF MemInv
<1>14. \A g \in Mbufs : e[g] # 0 => hd[g] # 0
  BY <1>2, <1>4
<1>15. ASSUME NEW g \in Mbufs, e[g] # 0, NEW m \in Mbufs, In(m, C[g]) PROVE Same(t, s, m) /\ q[m] = e[g]
  <2>1. CASE g = h
    BY <1>4, <1>9, <1>15, <2>1
  <2>2. CASE g # h
    <3>1. hd[g] # 0 /\ e[g] = hd[g] /\ ~In(m, C[h])
      BY <1>4, <1>5, <1>15, <2>2
    <3>2. r[m] = hd[g]
      BY <1>15, <3>1, HeldFacts
    <3> QED
      BY <1>4, <1>9, <3>1, <3>2
  <2> QED
    BY <2>1, <2>2
<1>16. ASSUME NEW m \in Mbufs, q[m] # 0 PROVE \E g \in Mbufs : e[g] # 0 /\ In(m, C[g])
  <2>1. \A g \in Mbufs : hd[g] # 0 => e[g] # 0
    BY <1>2, <1>4
  <2>2. CASE In(m, C[h])
    BY <1>2, <2>1, <2>2
  <2>3. CASE ~In(m, C[h])
    <3>1. PICK g \in Mbufs : hd[g] # 0 /\ In(m, C[g])
      BY <1>4, <1>16, <2>3 DEF Good
    <3> QED
      BY <2>1, <3>1
  <2> QED
    BY <2>2, <2>3
<1>17. Good(t, e, q, C)
  BY <1>4, <1>13, <1>14, <1>15, <1>16, GoodStays
<1> QED
  BY <1>1, <1>17

LEMMA LessIs ==
  ASSUME NEW r, NEW c, NEW m \in Mbufs
  PROVE  Less(r, c, Len(c))[m] = IF In(m, c) THEN r[m] - 1 ELSE r[m]
  BY DEF Less, In

LEMMA WithIs ==
  ASSUME NEW r, NEW c, NEW m \in Mbufs
  PROVE  With(r, c, Len(c))[m] = IF In(m, c) THEN 1 ELSE r[m]
  BY DEF With, In

(* rte_pktmbuf_free: a reference to a packet is given up.                   *)
LEMMA FreeGood ==
  ASSUME NEW s, NEW hd, NEW r, NEW C, Good(s, hd, r, C), NEW h \in Mbufs, hd[h] # 0, NEW t, t = FreeChain(s, h)
  PROVE  \E q : /\ Good(t, [hd EXCEPT ![h] = hd[h] - 1], q, C)
                /\ \A m \in Mbufs : q[m] # 0 => Same(t, s, m)
<1>1. PICK e, q : e = [hd EXCEPT ![h] = hd[h] - 1] /\ q = Less(r, C[h], Len(C[h]))
  OBVIOUS
<1>2. /\ MemInv(s, r) /\ r \in [Mbufs -> 0 .. MaxHeld] /\ hd \in [Mbufs -> 0 .. MaxHeld]
  BY DEF Good, MemInv
<1>3. /\ IsChain(s, h, C[h]) /\ (\A i \in 1 .. Len(C[h]) : r[C[h][i]] # 0)
      /\ \A m \in Mbufs : In(m, C[h]) => r[m] = hd[h]
      /\ \A g \in Mbufs : hd[g] # 0 /\ g # h => ~\E m \in Mbufs : In(m, C[h]) /\ In(m, C[g])
  BY HeldFacts
<1>4. MemInv(t, q) /\ \A m \in Mbufs : q[m] # 0 => Same(t, s, m)
  BY <1>1, <1>2, <1>3, FreeChainKeeps
<1>5. hd[h] - 1 \in 0 .. MaxHeld
  BY <1>2, Numbers
<1>6. /\ e \in [Mbufs -> 0 .. MaxHeld] /\ e[h] = hd[h] - 1 /\ \A g \in Mbufs : g # h => e[g] = hd[g]
      /\ \A m \in Mbufs : q[m] = IF In(m, C[h]) THEN hd[h] - 1 ELSE r[m]
  <2>1. \A m \in Mbufs : q[m] = IF In(m, C[h]) THEN hd[h] - 1 ELSE r[m]
    BY <1>1, <1>3, LessIs
  <2> QED
    BY <1>1, <1>2, <1>5, <2>1
<1>7. \A g \in Mbufs : e[g] # 0 => hd[g] # 0
  BY <1>6
<1>8. ASSUME NEW g \in Mbufs, e[g] # 0, NEW m \in Mbufs, In(m, C[g]) PROVE Same(t, s, m) /\ q[m] = e[g]
  <2>1. q[m] = e[g]
    <3>1. CASE g = h
      BY <1>6, <1>8, <3>1
    <3>2. CASE g # h
      <4>1. hd[g] # 0 /\ e[g] = hd[g] /\ ~In(m, C[h])
        BY <1>3, <1>6, <1>8, <3>2
      <4>2. r[m] = hd[g]
        BY <1>8, <4>1, HeldFacts
      <4> QED
        BY <1>6, <4>1, <4>2
    <3> QED
      BY <3>1, <3>2
  <2> QED
    BY <1>4, <1>8, <2>1
<1>9. ASSUME NEW m \in Mbufs, q[m] # 0 PROVE \E g \in Mbufs : e[g] # 0 /\ In(m, C[g])
  <2>1. CASE In(m, C[h])
    BY <1>6, <1>9, <2>1
  <2>2. CASE ~In(m, C[h])
    <3>1. PICK g \in Mbufs : hd[g] # 0 /\ In(m, C[g])
      BY <1>6, <1>9, <2>2 DEF Good
    <3>2. g # h
      BY <2>2, <3>1
    <3> QED
      BY <1>6, <3>1, <3>2
  <2> QED
    BY <2>1, <2>2
<1>10. Good(t, e, q, C)
  BY <1>4, <1>6, <1>7, <1>8, <1>9, GoodStays
<1> QED
  BY <1>1, <1>4, <1>10

LEMMA FetchedFacts ==
  ASSUME NEW s, NEW hd, NEW r, NEW C, Good(s, hd, r, C), NEW fs, Fetched(s, fs)
  PROVE  /\ fs \in Seq(Mbufs) /\ Len(fs) \in Nat \ {0} /\ fs[1] \in Mbufs /\ In(fs[1], fs)
         /\ \A m \in Mbufs : In(m, fs) => /\ r[m] = 0 /\ hd[m] = 0
                                          /\ \A g \in Mbufs : hd[g] # 0 => ~In(m, C[g])
<1>1. fs \in Seq(Mbufs) /\ Len(fs) \in Nat \ {0} /\ \A i \in 1 .. Len(fs) : fs[i] \in Mbufs /\ s[fs[i]].in_pool # 0
  <2>1. fs \in Seq(Mbufs) /\ Len(fs) # 0 /\ \A i \in 1 .. Len(fs) : s[fs[i]].in_pool # 0
    BY DEF Fetched
  <2> QED
    BY <2>1
<1>2. 1 \in 1 .. Len(fs)
  BY <1>1
<1>3. fs[1] \in Mbufs /\ In(fs[1], fs)
  BY <1>1, <1>2 DEF In
<1>4. ASSUME NEW m \in Mbufs, In(m, fs)
      PROVE  r[m] = 0 /\ hd[m] = 0 /\ \A g \in Mbufs : hd[g] # 0 => ~In(m, C[g])
  <2>1. s[m].in_pool # 0
    BY <1>1, <1>4 DEF In
  <2> QED
    BY <2>1, Unheld
<1> QED
  BY <1>1, <1>3, <1>4

(* rte_pktmbuf_clone: a packet of its own, attached to the first one.       *)
LEMMA CloneGood ==
  ASSUME NEW s, NEW hd, NEW r, NEW C, Good(s, hd, r, C), NEW h \in Mbufs, hd[h] # 0,
         NEW fs, Fetched(s, fs), Len(fs) = Len(C[h]), NEW t, t = CloneSegs(s, h, fs)
  PROVE  Good(t, [hd EXCEPT ![fs[1]] = 1], With(r, fs, Len(fs)), [C EXCEPT ![fs[1]] = fs])
<1>1. PICK a, c, e, q, D : /\ a = fs[1] /\ c = C[h] /\ e = [hd EXCEPT ![fs[1]] = 1] /\ q = With(r, fs, Len(fs))
                           /\ D = [C EXCEPT ![fs[1]] = fs]
  OBVIOUS
<1>2. /\ MemInv(s, r) /\ IsChain(s, h, c) /\ (\A i \in 1 .. Len(c) : r[c[i]] # 0) /\ Len(c) <= RTE_MBUF_MAX_NB_SEGS
      /\ Len(c) \in Nat
  BY <1>1, HeldFacts
<1>3. Cloned(t, s, r, h, fs, c)
  <2>1. Len(fs) <= Len(c)
    BY <1>1, <1>2
  <2> QED
    BY <1>2, <2>1, CloneKeeps
<1>4. /\ MemInv(t, q) /\ IsChain(t, a, fs) /\ (\A k \in 1 .. Len(fs) : t[fs[k]].data_len = s[c[k]].data_len)
      /\ t[a].nb_segs = Len(fs) /\ t[a].pkt_len = s[h].pkt_len
      /\ \A m \in Mbufs : ~In(m, fs) => Same(t, s, m)
  BY <1>1, <1>3 DEF Cloned, In
<1>5. /\ fs \in Seq(Mbufs) /\ a \in Mbufs /\ In(a, fs)
      /\ \A m \in Mbufs : In(m, fs) => /\ r[m] = 0 /\ hd[m] = 0
                                       /\ \A g \in Mbufs : hd[g] # 0 => ~In(m, C[g])
  BY <1>1, FetchedFacts
<1>6. /\ hd \in [Mbufs -> 0 .. MaxHeld] /\ C \in [Mbufs -> Seq(Mbufs)] /\ 1 \in 0 .. MaxHeld
  BY Numbers DEF Good
<1>7. /\ e \in [Mbufs -> 0 .. MaxHeld] /\ e[a] = 1 /\ (\A g \in Mbufs : g # a => e[g] = hd[g])
      /\ D \in [Mbufs -> Seq(Mbufs)] /\ D[a] = fs /\ \A g \in Mbufs : g # a => D[g] = C[g]
  BY <1>1, <1>5, <1>6
<1>8. \A m \in Mbufs : q[m] = IF In(m, fs) THEN 1 ELSE r[m]
  BY <1>1, WithIs
<1>9. ASSUME NEW g \in Mbufs, e[g] # 0 PROVE Chained(t, q, e[g], g, D[g])
  <2>1. CASE g = a
    <3>1. PICK p : SumOf(s, c, p) /\ s[h].pkt_len = p[Len(c)]
      <4>1. Chained(s, r, hd[h], h, c)
        BY <1>1, HeldFacts
      <4> QED
        BY <4>1 DEF Chained
    <3>2. SumOf(t, fs, p) /\ t[a].pkt_len = p[Len(fs)]
      <4>1. Len(fs) = Len(c) /\ \A i \in 1 .. Len(c) : t[fs[i]].data_len = s[c[i]].data_len
        BY <1>1, <1>4
      <4> QED
        BY <1>4, <3>1, <4>1, SumSame
    <3> QED
      BY <1>4, <1>7, <1>8, <2>1, <3>2 DEF Chained
  <2>2. CASE g # a
    <3>1. hd[g] # 0 /\ e[g] = hd[g] /\ D[g] = C[g]
      BY <1>7, <1>9, <2>2
    <3>2. Chained(s, r, hd[g], g, C[g]) /\ \A m \in Mbufs : In(m, C[g]) => r[m] = hd[g]
      BY <3>1, HeldFacts
    <3>3. \A m \in Mbufs : In(m, C[g]) => Same(t, s, m) /\ q[m] = hd[g]
      BY <1>4, <1>5, <1>8, <3>1, <3>2
    <3> QED
      BY <3>1, <3>2, <3>3, PacketSame
  <2> QED
    BY <2>1, <2>2
<1>10. ASSUME NEW g \in Mbufs, NEW k \in Mbufs, e[g] # 0, e[k] # 0, g # k, NEW m \in Mbufs, In(m, D[g]), In(m, D[k])
       PROVE  FALSE
  <2>1. CASE g = a
    <3>1. hd[k] # 0 /\ In(m, C[k]) /\ In(m, fs)
      BY <1>7, <1>10, <2>1
    <3> QED
      BY <1>5, <3>1
  <2>2. CASE k = a
    <3>1. hd[g] # 0 /\ In(m, C[g]) /\ In(m, fs)
      BY <1>7, <1>10, <2>2
    <3> QED
      BY <1>5, <3>1
  <2>3. CASE g # a /\ k # a
    <3>1. hd[k] # 0 /\ hd[g] # 0 /\ In(m, C[k]) /\ In(m, C[g])
      BY <1>7, <1>10, <2>3
    <3> QED
      BY <1>10, <3>1 DEF Good
  <2> QED
    BY <2>1, <2>2, <2>3
<1>11. ASSUME NEW m \in Mbufs, q[m] # 0 PROVE \E g \in Mbufs : e[g] # 0 /\ In(m, D[g])
  <2>1. CASE In(m, fs)
    <3>1. e[a] # 0 /\ In(m, D[a])
      BY <1>7, <2>1
    <3> QED
      BY <1>5, <3>1
  <2>2. CASE ~In(m, fs)
    <3>1. PICK g \in Mbufs : hd[g] # 0 /\ In(m, C[g])
      BY <1>8, <1>11, <2>2 DEF Good
    <3>2. g # a
      BY <1>5, <3>1
    <3> QED
      BY <1>7, <3>1, <3>2
  <2> QED
    BY <2>1, <2>2
<1>12. Good(t, e, q, D)
  BY <1>4, <1>7, <1>9, <1>10, <1>11 DEF Good
<1> QED
  BY <1>1, <1>12

(* A clone that fails leaves nothing behind.                                *)
LEMMA CloneFailsGood ==
  ASSUME NEW s, NEW hd, NEW r, NEW C, Good(s, hd, r, C), NEW h \in Mbufs, hd[h] # 0,
         NEW fs, Fetched(s, fs), Len(fs) <= Len(C[h]), NEW t, t = FreeChain(CloneSegs(s, h, fs), fs[1])
  PROVE  Good(t, hd, r, C)
<1>1. PICK a, c, u, q : a = fs[1] /\ c = C[h] /\ u = CloneSegs(s, h, fs) /\ q = With(r, fs, Len(fs))
  OBVIOUS
<1>2. /\ MemInv(s, r) /\ IsChain(s, h, c) /\ (\A i \in 1 .. Len(c) : r[c[i]] # 0) /\ Len(c) <= RTE_MBUF_MAX_NB_SEGS
  BY <1>1, HeldFacts
<1>3. Cloned(u, s, r, h, fs, c)
  BY <1>1, <1>2, CloneKeeps
<1>4. /\ MemInv(u, q) /\ IsChain(u, a, fs) /\ \A m \in Mbufs : ~In(m, fs) => Same(u, s, m)
  BY <1>1, <1>3 DEF Cloned, In
<1>5. /\ \A m \in Mbufs : In(m, fs) => r[m] = 0 /\ \A g \in Mbufs : hd[g] # 0 => ~In(m, C[g])
      /\ \A m \in Mbufs : q[m] = IF In(m, fs) THEN 1 ELSE r[m]
  BY <1>1, FetchedFacts, WithIs
<1>6. \A i \in 1 .. Len(fs) : q[fs[i]] # 0
  BY <1>4, <1>5, ChainFacts DEF In
<1>7. r \in [Mbufs -> 0 .. MaxHeld] /\ hd \in [Mbufs -> 0 .. MaxHeld]
  BY DEF Good, MemInv
<1>8. Less(q, fs, Len(fs)) = r
  <2>1. ASSUME NEW m \in Mbufs PROVE Less(q, fs, Len(fs))[m] = r[m]
    <3>1. Less(q, fs, Len(fs))[m] = IF In(m, fs) THEN q[m] - 1 ELSE q[m]
      BY LessIs
    <3> QED
      BY <1>5, <3>1
  <2>2. Less(q, fs, Len(fs)) = [m \in Mbufs |-> Less(q, fs, Len(fs))[m]]
    BY DEF Less
  <2> QED
    BY <1>7, <2>1, <2>2
<1>9. MemInv(t, r) /\ \A m \in Mbufs : r[m] # 0 => Same(t, u, m)
  <2>1. t = FreeChain(u, a)
    BY <1>1
  <2>2. /\ MemInv(FreeChain(u, a), Less(q, fs, Len(fs)))
        /\ \A i \in Mbufs : Less(q, fs, Len(fs))[i] # 0 => Same(FreeChain(u, a), u, i)
    BY <1>4, <1>6, FreeChainKeeps
  <2> QED
    BY <1>8, <2>1, <2>2
<1>10. ASSUME NEW m \in Mbufs, r[m] # 0 PROVE Same(t, s, m)
  <2>1. Same(t, u, m) /\ Same(u, s, m)
    BY <1>4, <1>5, <1>9, <1>10
  <2> QED
    BY <2>1, SameTrans
<1>11. ASSUME NEW g \in Mbufs, hd[g] # 0, NEW m \in Mbufs, In(m, C[g]) PROVE Same(t, s, m) /\ r[m] = hd[g]
  <2>1. r[m] = hd[g]
    BY <1>11, HeldFacts
  <2> QED
    BY <1>10, <1>11, <2>1
<1>12. \A m \in Mbufs : r[m] # 0 => \E g \in Mbufs : hd[g] # 0 /\ In(m, C[g])
  BY DEF Good
<1> QED
  BY <1>7, <1>9, <1>11, <1>12, GoodStays

LEMMA SumNat ==
  ASSUME NEW s \in [Mbufs -> Mbuf], NEW c \in Seq(Mbufs), NEW p, SumOf(s, c, p)
  PROVE  \A n \in 0 .. Len(c) : p[n] \in Nat
<1> DEFINE T == {n \in 0 .. Len(c) : p[n] \in Nat}
<1>1. Len(c) \in Nat /\ p[0] = 0 /\ \A n \in 1 .. Len(c) : p[n] = p[n - 1] + s[c[n]].data_len
  BY DEF SumOf
<1>2. 0 \in T
  BY <1>1
<1>3. ASSUME NEW n \in 0 .. (Len(c) - 1), n \in T PROVE n + 1 \in T
  <2>1. n + 1 \in 1 .. Len(c) /\ (n + 1) - 1 = n /\ n + 1 \in 0 .. Len(c)
    BY <1>1
  <2>2. s[c[n + 1]].data_len \in Nat
    <3>1. c[n + 1] \in Mbufs
      BY <2>1
    <3> QED
      BY <3>1, Numbers DEF Mbuf, Small
  <2>3. p[n + 1] = p[n] + s[c[n + 1]].data_len
    BY <1>1, <2>1
  <2> QED
    BY <1>3, <2>1, <2>2, <2>3
<1> HIDE DEF T
<1>4. 0 .. Len(c) \subseteq T
  BY <1>1, <1>2, <1>3, UpTo
<1> QED
  BY <1>4 DEF T

(* A segment whose data grows by d.                                         *)
Grown(t, s, c, k, d) ==
  \A i \in 1 .. Len(c) : t[c[i]].data_len = IF i = k THEN s[c[i]].data_len + d ELSE s[c[i]].data_len

LEMMA SumChange ==
  ASSUME NEW s \in [Mbufs -> Mbuf], NEW c \in Seq(Mbufs), NEW p, SumOf(s, c, p), NEW t, NEW d \in Int, NEW k \in 1 .. Len(c),
         Grown(t, s, c, k, d), NEW q, q = [n \in 0 .. Len(c) |-> IF n < k THEN p[n] ELSE p[n] + d]
  PROVE  SumOf(t, c, q) /\ q[Len(c)] = p[Len(c)] + d
<1>1. Len(c) \in Nat /\ p[0] = 0 /\ (\A n \in 1 .. Len(c) : p[n] = p[n - 1] + s[c[n]].data_len)
      /\ \A n \in 0 .. Len(c) : p[n] \in Nat
  <2>1. \A n \in 0 .. Len(c) : p[n] \in Nat
    BY SumNat
  <2>2. p[0] = 0 /\ \A n \in 1 .. Len(c) : p[n] = p[n - 1] + s[c[n]].data_len
    BY DEF SumOf
  <2> QED
    BY <2>1, <2>2
<1>2. q[0] = 0 /\ q[Len(c)] = p[Len(c)] + d
  BY <1>1
<1>3. ASSUME NEW n \in 1 .. Len(c) PROVE q[n] = q[n - 1] + t[c[n]].data_len
  <2>1. n - 1 \in 0 .. Len(c) /\ n \in 0 .. Len(c) /\ s[c[n]].data_len \in Nat
    <3>1. c[n] \in Mbufs
      OBVIOUS
    <3> QED
      BY <1>1, <3>1, Numbers DEF Mbuf, Small
  <2>2. PICK l : l = s[c[n]].data_len
    OBVIOUS
  <2>3. l \in Nat /\ p[n] = p[n - 1] + l /\ t[c[n]].data_len = (IF n = k THEN l + d ELSE l)
    BY <1>1, <2>1, <2>2 DEF Grown
  <2>4. q[n] = (IF n < k THEN p[n] ELSE p[n] + d) /\ q[n - 1] = IF n - 1 < k THEN p[n - 1] ELSE p[n - 1] + d
    BY <2>1
  <2>5. p[n - 1] \in Nat
    BY <1>1, <2>1
  <2> QED
    BY <1>1, <2>3, <2>4, <2>5
<1>4. q = [n \in 0 .. Len(c) |-> q[n]]
  OBVIOUS
<1> QED
  BY <1>2, <1>3, <1>4 DEF SumOf

(* A segment's data grows by d bytes, and pkt_len with it.                  *)
LEMMA ResizeGood ==
  ASSUME NEW s, NEW hd, NEW r, NEW C, Good(s, hd, r, C), NEW h \in Mbufs, hd[h] # 0, NEW k \in 1 .. Len(C[h]),
         NEW m, m = C[h][k], NEW x \in Mbuf, SameBuffer(x, s[m]), Fits(x), x.next = s[m].next, x.nb_segs = s[m].nb_segs,
         x.pkt_len = s[m].pkt_len, NEW d \in Int, x.data_len = s[m].data_len + d, NEW u, Wrote(u, s, m, x),
         NEW t, Wrote(t, u, h, [u[h] EXCEPT !.pkt_len = u[h].pkt_len + d])
  PROVE  Good(t, hd, r, C)
<1>1. PICK c : c = C[h]
  OBVIOUS
<1>2. /\ MemInv(s, r) /\ IsChain(s, h, c) /\ Chained(s, r, hd[h], h, c) /\ Len(c) \in Nat \ {0}
      /\ (\A i \in 1 .. Len(c) : c[i] \in Mbufs) /\ m \in Mbufs /\ r[m] # 0 /\ r[h] # 0 /\ In(h, c) /\ In(m, c)
      /\ \A g \in Mbufs : hd[g] # 0 /\ g # h => ~\E i \in Mbufs : In(i, c) /\ In(i, C[g])
  <2>1. In(m, c)
    BY <1>1 DEF In
  <2>2. IsChain(s, h, c)
    BY <1>1, HeldFacts
  <2> QED
    BY <1>1, <2>1, <2>2, HeldFacts, InChain
<1>3. s \in [Mbufs -> Mbuf] /\ c \in Seq(Mbufs) /\ hd \in [Mbufs -> 0 .. MaxHeld] /\ s[m] \in Mbuf
  BY <1>1, <1>2 DEF Good, MemInv
<1>4. MemInv(u, r) /\ u[m] = x /\ \A i \in Mbufs : i # m => u[i] = s[i]
  BY ONLY <1>2, x \in Mbuf, SameBuffer(x, s[m]), Fits(x), Wrote(u, s, m, x), WriteKeeps
<1>5. /\ u \in [Mbufs -> Mbuf] /\ u[h] \in Mbuf /\ u[h].pkt_len = s[h].pkt_len /\ s[h].pkt_len \in Nat /\ Fits(u[h])
      /\ \A i \in 1 .. Len(c) : u[c[i]].data_len = IF i = k THEN s[c[i]].data_len + d ELSE s[c[i]].data_len
  <2>1. u \in [Mbufs -> Mbuf] /\ u[h] \in Mbuf /\ u[h].pkt_len = s[h].pkt_len /\ s[h].pkt_len \in Nat /\ Fits(u[h])
    BY <1>3, <1>4 DEF MemInv, Mbuf
  <2>2. ASSUME NEW i \in 1 .. Len(c)
        PROVE  u[c[i]].data_len = IF i = k THEN s[c[i]].data_len + d ELSE s[c[i]].data_len
    <3>1. CASE i = k
      BY <1>1, <1>4, <3>1
    <3>2. CASE i # k
      <4>1. c[i] # m
        BY <1>1, <1>2, <3>2 DEF IsChain
      <4> QED
        BY <1>2, <1>4, <3>2, <4>1
    <3> QED
      BY <3>1, <3>2
  <2> QED
    BY <2>1, <2>2
<1>6. PICK p : SumOf(s, c, p) /\ s[h].pkt_len = p[Len(c)]
  BY <1>2 DEF Chained
<1>7. PICK q : q = [n \in 0 .. Len(c) |-> IF n < k THEN p[n] ELSE p[n] + d]
  OBVIOUS
<1>8. SumOf(u, c, q) /\ q[Len(c)] = p[Len(c)] + d
  <2>1. Grown(u, s, c, k, d) /\ k \in 1 .. Len(c) /\ d \in Int
    BY <1>1, <1>5 DEF Grown
  <2> QED
    BY ONLY <1>3, <1>6, <1>7, <2>1, SumChange
<1>9. s[h].pkt_len + d \in Nat
  <2>1. q[Len(c)] \in Nat
    <3>1. \A n \in 0 .. Len(c) : q[n] \in Nat
      BY ONLY <1>3, <1>5, <1>8, SumNat
    <3> QED
      BY <1>2, <3>1
  <2> QED
    BY <1>6, <1>8, <2>1
<1> DEFINE y == [u[h] EXCEPT !.pkt_len = u[h].pkt_len + d]
<1>10. /\ y \in Mbuf /\ SameBuffer(y, u[h]) /\ y.next = u[h].next /\ y.nb_segs = u[h].nb_segs /\ y.pkt_len = s[h].pkt_len + d
       /\ y.data_len = u[h].data_len /\ y.data_off = u[h].data_off
  BY <1>5, <1>9 DEF Mbuf, SameBuffer
<1>11. Fits(y)
  <2>1. y.buf_len = u[h].buf_len
    BY <1>10 DEF SameBuffer
  <2> HIDE DEF y
  <2> QED
    BY <1>5, <1>10, <2>1 DEF Fits
<1>12. PICK v : v = y
  OBVIOUS
<1>13. v \in Mbuf /\ SameBuffer(v, u[h]) /\ Fits(v) /\ Wrote(t, u, h, v) /\ r[h] # 0 /\ h \in Mbufs /\ MemInv(u, r)
  BY <1>2, <1>4, <1>10, <1>11, <1>12
<1>14. MemInv(t, r) /\ t[h] = v /\ \A i \in Mbufs : i # h => t[i] = u[i]
  BY ONLY <1>13, WriteKeeps
<1>15. v.next = u[h].next /\ v.nb_segs = u[h].nb_segs /\ v.pkt_len = s[h].pkt_len + d /\ v.data_len = u[h].data_len
  BY <1>10, <1>12
<1> HIDE DEF y
<1>16. \A i \in Mbufs : u[i].next = s[i].next /\ u[i].nb_segs = s[i].nb_segs
  BY <1>4
<1>17. \A i \in Mbufs : t[i].next = s[i].next /\ t[i].nb_segs = s[i].nb_segs /\ t[i].data_len = u[i].data_len
  BY <1>14, <1>15, <1>16
<1>18. Chained(t, r, hd[h], h, c)
  <2>1. IsChain(t, h, c)
    <3>1. \A i \in 1 .. Len(c) : t[c[i]].next = s[c[i]].next
      BY <1>2, <1>17
    <3> QED
      BY <1>2, <3>1, ChainSame
  <2>2. SumOf(t, c, q)
    <3>1. \A i \in 1 .. Len(c) : t[c[i]].data_len = u[c[i]].data_len
      BY <1>2, <1>17
    <3> QED
      BY <1>8, <3>1, SumSame
  <2>3. t[h].pkt_len = q[Len(c)] /\ t[h].nb_segs = Len(c)
    <3>1. s[h].nb_segs = Len(c)
      BY <1>2 DEF Chained
    <3> QED
      BY <1>6, <1>8, <1>14, <1>15, <1>17, <3>1
  <2> QED
    BY <1>2, <2>1, <2>2, <2>3 DEF Chained
<1>19. ASSUME NEW g \in Mbufs, hd[g] # 0 PROVE Chained(t, r, hd[g], g, C[g])
  <2>1. CASE g = h
    BY <1>1, <1>18, <2>1
  <2>2. CASE g # h
    <3>1. Chained(s, r, hd[g], g, C[g]) /\ \A i \in Mbufs : In(i, C[g]) => r[i] = hd[g]
      BY <1>19, HeldFacts
    <3>2. \A i \in Mbufs : In(i, C[g]) => i # m /\ i # h
      BY <1>2, <1>19, <2>2
    <3>3. \A i \in Mbufs : In(i, C[g]) => Same(t, s, i) /\ r[i] = hd[g]
      BY <1>4, <1>14, <3>1, <3>2 DEF Same
    <3> QED
      BY <3>1, <3>3, PacketSame
  <2> QED
    BY <2>1, <2>2
<1> QED
  BY <1>14, <1>19 DEF Good

(* The offset and the length of a segment's data, within its buffer.        *)
LEMMA DataGood ==
  ASSUME NEW s, NEW hd, NEW r, NEW C, Good(s, hd, r, C), NEW h \in Mbufs, hd[h] # 0, NEW k \in 1 .. Len(C[h]),
         NEW m, m = C[h][k], NEW off \in Nat, NEW len \in Nat, off + len <= s[m].buf_len, NEW u,
         Wrote(u, s, m, [s[m] EXCEPT !.data_off = off, !.data_len = len]), NEW t, NEW d \in Int, len = s[m].data_len + d,
         Wrote(t, u, h, [u[h] EXCEPT !.pkt_len = u[h].pkt_len + d])
  PROVE  Good(t, hd, r, C)
<1>1. m \in Mbufs
  BY HeldFacts
<1>2. s[m] \in Mbuf /\ s[m].buf_len \in Small /\ Fits(s[m])
  BY <1>1 DEF Good, MemInv, Mbuf
<1>3. off \in Small /\ len \in Small
  <2>1. off \in Nat /\ len \in Nat /\ off + len <= s[m].buf_len
    OBVIOUS
  <2> QED
    BY ONLY <1>2, <2>1, Numbers DEF Small
<1> DEFINE x == [s[m] EXCEPT !.data_off = off, !.data_len = len]
<1>4. /\ x \in Mbuf /\ SameBuffer(x, s[m]) /\ x.next = s[m].next /\ x.nb_segs = s[m].nb_segs
      /\ x.pkt_len = s[m].pkt_len /\ x.data_len = len /\ x.data_off = off
  BY <1>2, <1>3 DEF Mbuf, SameBuffer
<1>5. Fits(x)
  <2>1. x.buf_len = s[m].buf_len
    BY <1>4 DEF SameBuffer
  <2> HIDE DEF x
  <2> QED
    BY <1>2, <1>4, <2>1 DEF Fits
<1>6. PICK y : y = x
  OBVIOUS
<1>7. /\ y \in Mbuf /\ SameBuffer(y, s[m]) /\ Fits(y) /\ y.next = s[m].next /\ y.nb_segs = s[m].nb_segs
      /\ y.pkt_len = s[m].pkt_len /\ y.data_len = s[m].data_len + d /\ Wrote(u, s, m, y)
  BY <1>4, <1>5, <1>6
<1> HIDE DEF x
<1>8. h \in Mbufs /\ k \in 1 .. Len(C[h]) /\ d \in Int
  OBVIOUS
<1> QED
  BY ONLY <1>7, <1>8, Good(s, hd, r, C), hd[h] # 0, m = C[h][k],
          Wrote(t, u, h, [u[h] EXCEPT !.pkt_len = u[h].pkt_len + d]), ResizeGood

(* The lengths and the room of a segment.                                   *)
LEMMA SegmentRoom ==
  ASSUME NEW s, NEW hd, NEW r, NEW C, Good(s, hd, r, C), NEW h \in Mbufs, hd[h] # 0, NEW k \in 1 .. Len(C[h]),
         NEW m, m = C[h][k]
  PROVE  /\ m \in Mbufs /\ s \in [Mbufs -> Mbuf] /\ s[m] \in Mbuf
         /\ s[m].data_off \in Nat /\ s[m].data_len \in Nat /\ s[m].buf_len \in Nat /\ s[m].pkt_len \in Nat
         /\ s[m].buf_len < UINT16
         /\ s[m].data_off + s[m].data_len <= s[m].buf_len
         /\ rte_pktmbuf_tailroom(s, m) = s[m].buf_len - s[m].data_off - s[m].data_len
<1>1. m \in Mbufs
  BY HeldFacts
<1>2. s \in [Mbufs -> Mbuf] /\ s[m] \in Mbuf /\ Fits(s[m])
  BY <1>1 DEF Good, MemInv
<1>3. s[m].data_off \in Small /\ s[m].data_len \in Small /\ s[m].buf_len \in Small /\ s[m].pkt_len \in Nat
  BY <1>2 DEF Mbuf
<1>4. s[m].data_off + s[m].data_len <= s[m].buf_len
  BY <1>2 DEF Fits
<1>5. PICK room : room = s[m].buf_len - s[m].data_off - s[m].data_len
  OBVIOUS
<1>6. room \in 0 .. UINT16 - 1
  <2>1. PICK a, b, l : a = s[m].data_off /\ b = s[m].data_len /\ l = s[m].buf_len
    OBVIOUS
  <2>2. a \in Small /\ b \in Small /\ l \in Small /\ a + b <= l /\ room = l - a - b
    BY <1>3, <1>4, <1>5, <2>1
  <2> QED
    BY ONLY <2>2, Numbers DEF Small
<1>7. room % UINT16 = room
  BY <1>6, Numbers
<1>8. rte_pktmbuf_tailroom(s, m) = room
  BY <1>5, <1>7 DEF rte_pktmbuf_tailroom, rte_pktmbuf_headroom
<1> QED
  BY <1>1, <1>2, <1>3, <1>4, <1>5, <1>8, Numbers DEF Small

LEMMA LastIs ==
  ASSUME NEW s, NEW hd, NEW r, NEW C, Good(s, hd, r, C), NEW h \in Mbufs, hd[h] # 0
  PROVE  /\ Len(C[h]) \in 1 .. Len(C[h]) /\ 1 \in 1 .. Len(C[h]) /\ C[h][1] = h
         /\ rte_pktmbuf_lastseg(s, h) = C[h][Len(C[h])]
<1>1. Segs(s, h) = C[h] /\ Len(C[h]) \in Nat \ {0} /\ IsChain(s, h, C[h])
  BY HeldFacts
<1>2. rte_pktmbuf_lastseg(s, h) = C[h][Len(C[h])]
  BY <1>1 DEF rte_pktmbuf_lastseg, Last
<1> QED
  BY <1>1, <1>2 DEF IsChain

LEMMA PrependGood ==
  ASSUME NEW s, NEW hd, NEW r, NEW C, Good(s, hd, r, C), NEW h \in Mbufs, hd[h] # 0, NEW len \in Nat,
         len <= rte_pktmbuf_headroom(s, h), NEW t,
         t = [s EXCEPT ![h].data_off = @ - len, ![h].data_len = (@ + len) % UINT16, ![h].pkt_len = @ + len]
  PROVE  Good(t, hd, r, C)
<1>1. PICK off, dl : off = s[h].data_off - len /\ dl = s[h].data_len + len
  OBVIOUS
<1>2. /\ h \in Mbufs /\ s \in [Mbufs -> Mbuf] /\ s[h] \in Mbuf
      /\ s[h].data_off \in Nat /\ s[h].data_len \in Nat /\ s[h].buf_len \in Nat /\ s[h].pkt_len \in Nat
      /\ s[h].buf_len < UINT16 /\ s[h].data_off + s[h].data_len <= s[h].buf_len
      /\ 1 \in 1 .. Len(C[h]) /\ h = C[h][1]
  BY SegmentRoom, LastIs
<1>3. off \in Nat /\ dl \in Nat /\ off + dl <= s[h].buf_len /\ dl % UINT16 = dl
  <2>1. off \in Nat /\ dl \in Nat /\ off + dl <= s[h].buf_len
    BY <1>1, <1>2 DEF rte_pktmbuf_headroom
  <2>2. dl \in 0 .. UINT16 - 1
    BY <1>2, <2>1, Numbers
  <2> QED
    BY <2>1, <2>2, Numbers
<1>4. PICK u : u = [s EXCEPT ![h] = [s[h] EXCEPT !.data_off = off, !.data_len = dl]]
  OBVIOUS
<1>5. t = [u EXCEPT ![h] = [u[h] EXCEPT !.pkt_len = u[h].pkt_len + len]]
  <2>1. u[h] = [s[h] EXCEPT !.data_off = off, !.data_len = dl] /\ u[h].pkt_len = s[h].pkt_len
    BY <1>2, <1>4 DEF Mbuf
  <2>2. [u EXCEPT ![h] = [u[h] EXCEPT !.pkt_len = u[h].pkt_len + len]]
        = [s EXCEPT ![h] = [u[h] EXCEPT !.pkt_len = u[h].pkt_len + len]]
    <3>1. PICK x, y : x = [s[h] EXCEPT !.data_off = off, !.data_len = dl] /\ y = [u[h] EXCEPT !.pkt_len = u[h].pkt_len + len]
      OBVIOUS
    <3>2. u = [s EXCEPT ![h] = x] /\ s \in [Mbufs -> Mbuf] /\ h \in Mbufs
      BY <1>2, <1>4, <3>1
    <3>3. [u EXCEPT ![h] = y] = [s EXCEPT ![h] = y]
      BY ONLY <3>2, Overwrite
    <3> QED
      BY <3>1, <3>3
  <2>3. [u[h] EXCEPT !.pkt_len = u[h].pkt_len + len]
        = [s[h] EXCEPT !.data_off = off, !.data_len = dl, !.pkt_len = s[h].pkt_len + len]
    BY <1>2, <2>1 DEF Mbuf
  <2>4. t = [s EXCEPT ![h] = [s[h] EXCEPT !.data_off = off, !.data_len = dl, !.pkt_len = s[h].pkt_len + len]]
    BY <1>1, <1>2, <1>3 DEF Mbuf
  <2> QED
    BY <2>2, <2>3, <2>4
<1>6. Wrote(u, s, h, [s[h] EXCEPT !.data_off = off, !.data_len = dl])
      /\ Wrote(t, u, h, [u[h] EXCEPT !.pkt_len = u[h].pkt_len + len])
  BY <1>4, <1>5 DEF Wrote
<1>7. off \in Nat /\ dl \in Nat /\ len \in Int /\ h \in Mbufs /\ 1 \in 1 .. Len(C[h]) /\ h = C[h][1]
      /\ off + dl <= s[h].buf_len /\ dl = s[h].data_len + len
  BY <1>1, <1>2, <1>3
<1> QED
  BY ONLY <1>6, <1>7, Good(s, hd, r, C), hd[h] # 0, DataGood

LEMMA AdjGood ==
  ASSUME NEW s, NEW hd, NEW r, NEW C, Good(s, hd, r, C), NEW h \in Mbufs, hd[h] # 0, NEW len \in Nat,
         len <= s[h].data_len, NEW t,
         t = [s EXCEPT ![h].data_len = (@ - len) % UINT16, ![h].data_off = @ + len, ![h].pkt_len = @ - len]
  PROVE  Good(t, hd, r, C)
<1>1. PICK off, dl, d : off = s[h].data_off + len /\ dl = s[h].data_len - len /\ d = 0 - len
  OBVIOUS
<1>2. /\ h \in Mbufs /\ s \in [Mbufs -> Mbuf] /\ s[h] \in Mbuf
      /\ s[h].data_off \in Nat /\ s[h].data_len \in Nat /\ s[h].buf_len \in Nat /\ s[h].pkt_len \in Nat
      /\ s[h].buf_len < UINT16 /\ s[h].data_off + s[h].data_len <= s[h].buf_len
      /\ 1 \in 1 .. Len(C[h]) /\ h = C[h][1]
  <2>1. 1 \in 1 .. Len(C[h]) /\ h = C[h][1]
    BY ONLY Good(s, hd, r, C), h \in Mbufs, hd[h] # 0, LastIs
  <2> QED
    BY ONLY Good(s, hd, r, C), h \in Mbufs, hd[h] # 0, <2>1, SegmentRoom
<1>3. off \in Nat /\ dl \in Nat /\ off + dl <= s[h].buf_len /\ dl % UINT16 = dl /\ s[h].pkt_len + d = s[h].pkt_len - len
  <2>1. off \in Nat /\ dl \in Nat /\ off + dl <= s[h].buf_len /\ s[h].pkt_len + d = s[h].pkt_len - len
    <3>1. len \in Nat /\ len <= s[h].data_len
      OBVIOUS
    <3>2. PICK a, b, l, p : a = s[h].data_off /\ b = s[h].data_len /\ l = s[h].buf_len /\ p = s[h].pkt_len
      OBVIOUS
    <3>3. a \in Nat /\ b \in Nat /\ l \in Nat /\ p \in Nat /\ a + b <= l /\ off = a + len /\ dl = b - len
          /\ d = 0 - len /\ len <= b
      BY ONLY <1>1, <1>2, <3>1, <3>2
    <3>4. off \in Nat /\ dl \in Nat /\ off + dl <= l /\ p + d = p - len
      BY ONLY <3>1, <3>3
    <3> QED
      BY <3>2, <3>4
  <2>2. dl \in 0 .. UINT16 - 1
    BY ONLY <1>2, <2>1, Numbers
  <2> QED
    BY <2>1, <2>2, Numbers
<1>4. PICK u : u = [s EXCEPT ![h] = [s[h] EXCEPT !.data_off = off, !.data_len = dl]]
  OBVIOUS
<1>5. t = [u EXCEPT ![h] = [u[h] EXCEPT !.pkt_len = u[h].pkt_len + d]]
  <2>1. u[h] = [s[h] EXCEPT !.data_off = off, !.data_len = dl] /\ u[h].pkt_len = s[h].pkt_len
    BY <1>2, <1>4 DEF Mbuf
  <2>2. [u EXCEPT ![h] = [u[h] EXCEPT !.pkt_len = u[h].pkt_len + d]]
        = [s EXCEPT ![h] = [u[h] EXCEPT !.pkt_len = u[h].pkt_len + d]]
    <3>1. PICK x, y : x = [s[h] EXCEPT !.data_off = off, !.data_len = dl] /\ y = [u[h] EXCEPT !.pkt_len = u[h].pkt_len + d]
      OBVIOUS
    <3>2. u = [s EXCEPT ![h] = x] /\ s \in [Mbufs -> Mbuf] /\ h \in Mbufs
      BY <1>2, <1>4, <3>1
    <3>3. [u EXCEPT ![h] = y] = [s EXCEPT ![h] = y]
      BY ONLY <3>2, Overwrite
    <3> QED
      BY <3>1, <3>3
  <2>3. [u[h] EXCEPT !.pkt_len = u[h].pkt_len + d]
        = [s[h] EXCEPT !.data_off = off, !.data_len = dl, !.pkt_len = s[h].pkt_len + d]
    BY <1>2, <2>1 DEF Mbuf
  <2>4. t = [s EXCEPT ![h] = [s[h] EXCEPT !.data_off = off, !.data_len = dl, !.pkt_len = s[h].pkt_len - len]]
    BY <1>1, <1>2, <1>3 DEF Mbuf
  <2> QED
    BY <1>3, <2>2, <2>3, <2>4
<1>6. Wrote(u, s, h, [s[h] EXCEPT !.data_off = off, !.data_len = dl])
      /\ Wrote(t, u, h, [u[h] EXCEPT !.pkt_len = u[h].pkt_len + d])
  BY <1>4, <1>5 DEF Wrote
<1>7. off \in Nat /\ dl \in Nat /\ d \in Int /\ h \in Mbufs /\ 1 \in 1 .. Len(C[h]) /\ h = C[h][1]
      /\ off + dl <= s[h].buf_len /\ dl = s[h].data_len + d
  BY <1>1, <1>2, <1>3
<1> QED
  BY ONLY <1>6, <1>7, Good(s, hd, r, C), hd[h] # 0, DataGood

(* The data of the last segment, and pkt_len of the first.                  *)
LEMMA TailGood ==
  ASSUME NEW s, NEW hd, NEW r, NEW C, Good(s, hd, r, C), NEW h \in Mbufs, hd[h] # 0, NEW d \in Int, NEW m,
         m = rte_pktmbuf_lastseg(s, h), s[m].data_len + d \in Nat, d <= rte_pktmbuf_tailroom(s, m), NEW u, NEW t,
         u = [s EXCEPT ![m] = [s[m] EXCEPT !.data_len = (s[m].data_len + d) % UINT16]],
         t = [u EXCEPT ![h] = [u[h] EXCEPT !.pkt_len = u[h].pkt_len + d]]
  PROVE  Good(t, hd, r, C)
<1>1. PICK off, dl, k : off = s[m].data_off /\ dl = s[m].data_len + d /\ k = Len(C[h])
  OBVIOUS
<1>2. /\ k \in 1 .. Len(C[h]) /\ m = C[h][k] /\ m \in Mbufs /\ s \in [Mbufs -> Mbuf] /\ s[m] \in Mbuf
      /\ s[m].data_off \in Nat /\ s[m].data_len \in Nat /\ s[m].buf_len \in Nat /\ s[m].buf_len < UINT16
      /\ rte_pktmbuf_tailroom(s, m) = s[m].buf_len - s[m].data_off - s[m].data_len
  <2>1. k \in 1 .. Len(C[h]) /\ m = C[h][k]
    BY <1>1, LastIs
  <2> QED
    BY <2>1, SegmentRoom
<1>3. off \in Nat /\ dl \in Nat /\ off + dl <= s[m].buf_len /\ dl % UINT16 = dl
  <2>1. off \in Nat /\ dl \in Nat /\ off + dl <= s[m].buf_len
    BY <1>1, <1>2
  <2>2. dl \in 0 .. UINT16 - 1
    BY ONLY <1>2, <2>1, Numbers
  <2> QED
    BY <2>1, <2>2, Numbers
<1>4. [s[m] EXCEPT !.data_len = (s[m].data_len + d) % UINT16] = [s[m] EXCEPT !.data_off = off, !.data_len = dl]
  BY <1>1, <1>2, <1>3 DEF Mbuf
<1>5. Wrote(u, s, m, [s[m] EXCEPT !.data_off = off, !.data_len = dl])
      /\ Wrote(t, u, h, [u[h] EXCEPT !.pkt_len = u[h].pkt_len + d])
  BY <1>4 DEF Wrote
<1>6. off \in Nat /\ dl \in Nat /\ d \in Int /\ h \in Mbufs /\ k \in 1 .. Len(C[h]) /\ m = C[h][k]
      /\ off + dl <= s[m].buf_len /\ dl = s[m].data_len + d
  BY <1>1, <1>2, <1>3
<1> QED
  BY ONLY <1>5, <1>6, Good(s, hd, r, C), hd[h] # 0, DataGood

(* e is d behind c.                                                         *)
Joined(e, c, d) ==
  /\ e \in Seq(Mbufs) /\ Len(e) = Len(c) + Len(d) /\ Len(c) \in Nat /\ Len(d) \in Nat
  /\ \A i \in 1 .. Len(c) : e[i] = c[i]
  /\ \A i \in 1 .. Len(d) : e[Len(c) + i] = d[i]
  /\ \A i \in 1 .. Len(e) : i \in 1 .. Len(c) \/ \E j \in 1 .. Len(d) : i = Len(c) + j

LEMMA ConcatIs ==
  ASSUME NEW c \in Seq(Mbufs), NEW d \in Seq(Mbufs)
  PROVE  Joined(c \o d, c, d)
<1> DEFINE e == c \o d
<1>1. e \in Seq(Mbufs) /\ Len(e) = Len(c) + Len(d) /\ Len(c) \in Nat /\ Len(d) \in Nat
  OBVIOUS
<1>2. \A i \in 1 .. Len(c) : e[i] = c[i]
  OBVIOUS
<1>3. \A i \in 1 .. Len(d) : e[Len(c) + i] = d[i]
  OBVIOUS
<1>4. ASSUME NEW i \in 1 .. Len(e), i \notin 1 .. Len(c) PROVE \E j \in 1 .. Len(d) : i = Len(c) + j
  <2>1. i - Len(c) \in 1 .. Len(d) /\ i = Len(c) + (i - Len(c))
    BY <1>1, <1>4
  <2> QED
    BY <2>1
<1> HIDE DEF e
<1>5. Joined(e, c, d)
  BY <1>1, <1>2, <1>3, <1>4 DEF Joined
<1> QED
  BY <1>5 DEF e

(* One packet linked behind another.                                        *)
LEMMA LinkChains ==
  ASSUME NEW s, NEW h, NEW c, IsChain(s, h, c), NEW g, NEW d, IsChain(s, g, d), ~\E m \in Mbufs : In(m, c) /\ In(m, d),
         NEW t, \A i \in Mbufs : t[i].next = IF i = c[Len(c)] THEN g ELSE s[i].next
  PROVE  IsChain(t, h, c \o d)
<1>1. PICK e : e = c \o d
  OBVIOUS
<1>2. c \in Seq(Mbufs) /\ d \in Seq(Mbufs) /\ Len(c) \in Nat \ {0} /\ Len(d) \in Nat \ {0} /\ c[1] = h /\ d[1] = g
      /\ (\A i \in 1 .. Len(c) : c[i] \in Mbufs) /\ \A i \in 1 .. Len(d) : d[i] \in Mbufs
  BY ChainFacts DEF IsChain
<1>3. /\ e \in Seq(Mbufs) /\ Len(e) = Len(c) + Len(d)
      /\ \A i \in 1 .. Len(c) : e[i] = c[i]
      /\ \A i \in 1 .. Len(d) : e[Len(c) + i] = d[i]
      /\ \A i \in 1 .. Len(e) : i \in 1 .. Len(c) \/ \E j \in 1 .. Len(d) : i = Len(c) + j
  <2>1. Joined(e, c, d)
    BY <1>1, <1>2, ConcatIs
  <2> QED
    BY <2>1 DEF Joined
<1>4. \A i \in 1 .. Len(c) : \A j \in 1 .. Len(d) : c[i] # d[j]
  BY <1>2 DEF In
<1>5. /\ \A i \in 1 .. Len(c) : s[c[i]].next = (IF i = Len(c) THEN NULL ELSE c[i + 1])
      /\ \A i \in 1 .. Len(d) : s[d[i]].next = (IF i = Len(d) THEN NULL ELSE d[i + 1])
      /\ \A i, j \in 1 .. Len(c) : c[i] = c[j] => i = j
      /\ \A i, j \in 1 .. Len(d) : d[i] = d[j] => i = j
  BY DEF IsChain
<1>6. ASSUME NEW i \in 1 .. Len(e) PROVE t[e[i]].next = IF i = Len(e) THEN NULL ELSE e[i + 1]
  <2>1. CASE i \in 1 .. Len(c) /\ i # Len(c)
    <3>1. c[i] # c[Len(c)] /\ c[i] \in Mbufs /\ e[i] = c[i] /\ i + 1 \in 1 .. Len(c) /\ i # Len(e)
      BY <1>2, <1>3, <1>5, <2>1
    <3>2. t[c[i]].next = c[i + 1] /\ e[i + 1] = c[i + 1]
      BY <1>3, <1>5, <2>1, <3>1
    <3> QED
      BY <3>1, <3>2
  <2>2. CASE i = Len(c)
    <3>1. e[i] = c[i] /\ c[i] \in Mbufs /\ e[i + 1] = d[1] /\ i # Len(e)
      BY <1>2, <1>3, <2>2
    <3> QED
      BY <1>2, <2>2, <3>1
  <2>3. CASE i \notin 1 .. Len(c)
    <3>1. PICK j \in 1 .. Len(d) : i = Len(c) + j
      BY <1>3, <2>3
    <3>2. e[i] = d[j] /\ d[j] \in Mbufs /\ d[j] # c[Len(c)]
      <4>1. Len(c) \in 1 .. Len(c)
        BY <1>2
      <4> QED
        BY ONLY <1>2, <1>3, <1>4, <3>1, <4>1, j \in 1 .. Len(d)
    <3>3. t[d[j]].next = IF j = Len(d) THEN NULL ELSE d[j + 1]
      BY <1>5, <3>2
    <3>4. i = Len(e) <=> j = Len(d)
      <4>1. Len(e) = Len(c) + Len(d) /\ Len(c) \in Nat /\ Len(d) \in Nat /\ j \in 1 .. Len(d)
        BY <1>2, <1>3
      <4> QED
        BY ONLY <3>1, <4>1
    <3>5. j # Len(d) => e[i + 1] = d[j + 1]
      <4>1. j # Len(d) => j + 1 \in 1 .. Len(d) /\ i + 1 = Len(c) + (j + 1)
        BY <1>2, <3>1
      <4> QED
        BY <1>3, <4>1
    <3> QED
      BY <3>2, <3>3, <3>4, <3>5
  <2> QED
    BY <2>1, <2>2, <2>3
<1>7. ASSUME NEW i \in 1 .. Len(e), NEW j \in 1 .. Len(e), e[i] = e[j] PROVE i = j
  <2>1. CASE i \in 1 .. Len(c)
    <3>1. CASE j \in 1 .. Len(c)
      BY <1>3, <1>5, <1>7, <2>1, <3>1
    <3>2. CASE j \notin 1 .. Len(c)
      BY <1>3, <1>4, <1>7, <2>1, <3>2
    <3> QED
      BY <3>1, <3>2
  <2>2. CASE i \notin 1 .. Len(c)
    <3>1. CASE j \in 1 .. Len(c)
      BY <1>3, <1>4, <1>7, <2>2, <3>1
    <3>2. CASE j \notin 1 .. Len(c)
      BY <1>3, <1>5, <1>7, <2>2, <3>2
    <3> QED
      BY <3>1, <3>2
  <2> QED
    BY <2>1, <2>2
<1>8. e[1] = h /\ Len(e) # 0
  BY <1>2, <1>3
<1>9. IsChain(t, h, e)
  BY <1>3, <1>6, <1>7, <1>8 DEF IsChain
<1> QED
  BY <1>1, <1>9

LEMMA SumConcat ==
  ASSUME NEW s \in [Mbufs -> Mbuf], NEW c \in Seq(Mbufs), NEW d \in Seq(Mbufs), NEW p, SumOf(s, c, p), NEW q, SumOf(s, d, q)
  PROVE  \E f : SumOf(s, c \o d, f) /\ f[Len(c \o d)] = p[Len(c)] + q[Len(d)]
<1>0. PICK f : f = [n \in 0 .. (Len(c) + Len(d)) |-> IF n <= Len(c) THEN p[n] ELSE p[Len(c)] + q[n - Len(c)]]
  OBVIOUS
<1>1. PICK e : e = c \o d
  OBVIOUS
<1>2. /\ e \in Seq(Mbufs) /\ Len(e) = Len(c) + Len(d) /\ Len(c) \in Nat /\ Len(d) \in Nat
      /\ \A i \in 1 .. Len(c) : e[i] = c[i]
      /\ \A i \in 1 .. Len(d) : e[Len(c) + i] = d[i]
      /\ \A i \in 1 .. Len(e) : i \in 1 .. Len(c) \/ \E j \in 1 .. Len(d) : i = Len(c) + j
  <2>1. Joined(e, c, d)
    BY <1>1, ConcatIs
  <2> QED
    BY <2>1 DEF Joined
<1>3. p[0] = 0 /\ q[0] = 0
  BY DEF SumOf
<1>4. \A n \in 1 .. Len(c) : p[n] = p[n - 1] + s[c[n]].data_len
  BY DEF SumOf
<1>5. \A n \in 1 .. Len(d) : q[n] = q[n - 1] + s[d[n]].data_len
  BY DEF SumOf
<1>6. \A n \in 0 .. Len(c) : p[n] \in Nat
  BY SumNat
<1>7. \A n \in 0 .. Len(d) : q[n] \in Nat
  BY SumNat
<1>8. \A n \in 0 .. Len(e) : f[n] = IF n <= Len(c) THEN p[n] ELSE p[Len(c)] + q[n - Len(c)]
  BY <1>0, <1>2
<1>9. f[0] = 0
  BY <1>2, <1>3, <1>8
<1>10. f[Len(e)] = p[Len(c)] + q[Len(d)]
  <2>1. CASE Len(d) = 0
    BY <1>2, <1>3, <1>6, <1>8, <2>1
  <2>2. CASE Len(d) # 0
    <3>1. ~(Len(e) <= Len(c)) /\ Len(e) - Len(c) = Len(d) /\ Len(e) \in 0 .. Len(e)
      BY <1>2, <2>2
    <3> QED
      BY <1>8, <3>1
  <2> QED
    BY <2>1, <2>2
<1>11. ASSUME NEW n \in 1 .. Len(e) PROVE f[n] = f[n - 1] + s[e[n]].data_len
  <2>1. n \in 0 .. Len(e) /\ n - 1 \in 0 .. Len(e)
    BY <1>2
  <2>2. CASE n \in 1 .. Len(c)
    <3>1. n <= Len(c) /\ n - 1 <= Len(c)
      BY <1>2, <2>2
    <3> QED
      BY <1>2, <1>4, <1>8, <2>1, <2>2, <3>1
  <2>3. CASE n \notin 1 .. Len(c)
    <3>1. PICK j \in 1 .. Len(d) : n = Len(c) + j
      BY <1>2, <2>3
    <3>2. ~(n <= Len(c)) /\ n - Len(c) = j /\ j \in 0 .. Len(d) /\ j - 1 \in 0 .. Len(d) /\ Len(c) \in 0 .. Len(c)
      BY <1>2, <3>1
    <3>3. f[n] = p[Len(c)] + q[j]
      BY <1>8, <2>1, <3>2
    <3>4. f[n - 1] = p[Len(c)] + q[j - 1]
      <4>1. CASE j = 1
        <5>1. n - 1 <= Len(c) /\ n - 1 = Len(c) /\ q[j - 1] = 0
          BY <1>2, <1>3, <3>1, <4>1
        <5> QED
          <6>1. f[n - 1] = p[Len(c)]
            BY ONLY <1>8, <2>1, <5>1
          <6>2. p[Len(c)] + 0 = p[Len(c)]
            BY ONLY <1>6, <3>2
          <6> QED
            BY ONLY <5>1, <6>1, <6>2
      <4>2. CASE j # 1
        <5>1. ~(n - 1 <= Len(c)) /\ (n - 1) - Len(c) = j - 1
          BY <1>2, <3>1, <4>2
        <5> QED
          BY <1>8, <2>1, <5>1
      <4> QED
        BY <4>1, <4>2
    <3>5. q[j] = q[j - 1] + s[d[j]].data_len /\ e[n] = d[j] /\ s[d[j]].data_len \in Nat
      <4>1. d[j] \in Mbufs
        OBVIOUS
      <4>2. s[d[j]].data_len \in Nat
        BY <4>1, Numbers DEF Mbuf, Small
      <4> QED
        BY <1>2, <1>5, <3>1, <4>2
    <3>6. p[Len(c)] \in Nat /\ q[j] \in Nat /\ q[j - 1] \in Nat
      BY <1>6, <1>7, <3>2
    <3> QED
      BY ONLY <3>3, <3>4, <3>5, <3>6
  <2> QED
    BY <2>2, <2>3
<1>12. f = [n \in 0 .. Len(e) |-> f[n]]
  BY <1>0, <1>2
<1> QED
  BY <1>1, <1>9, <1>10, <1>11, <1>12 DEF SumOf

LEMMA InConcat ==
  ASSUME NEW c \in Seq(Mbufs), NEW d \in Seq(Mbufs), NEW m
  PROVE  In(m, c \o d) <=> In(m, c) \/ In(m, d)
<1>1. PICK e : e = c \o d
  OBVIOUS
<1>2. Joined(e, c, d)
  BY <1>1, ConcatIs
<1>3. In(m, e) => In(m, c) \/ In(m, d)
  BY <1>2 DEF Joined, In
<1>4. In(m, c) => In(m, e)
  <2>1. \A i \in 1 .. Len(c) : i \in 1 .. Len(e) /\ e[i] = c[i]
    BY <1>2 DEF Joined
  <2> QED
    BY <2>1 DEF In
<1>5. In(m, d) => In(m, e)
  <2>1. \A i \in 1 .. Len(d) : Len(c) + i \in 1 .. Len(e) /\ e[Len(c) + i] = d[i]
    BY <1>2 DEF Joined
  <2> QED
    BY <2>1 DEF In
<1> QED
  BY <1>1, <1>3, <1>4, <1>5

(* Two packets made one: the links are joined and the lengths added.        *)
Linked(t, s, h, c, g, d) ==
  /\ \A i \in Mbufs : t[i].next = IF i = c[Len(c)] THEN g ELSE s[i].next
  /\ \A i \in Mbufs : t[i].data_len = s[i].data_len
  /\ t[h].nb_segs = s[h].nb_segs + s[g].nb_segs /\ t[h].pkt_len = s[h].pkt_len + s[g].pkt_len
  /\ \A i \in Mbufs : ~In(i, c) /\ ~In(i, d) => t[i] = s[i]

LEMMA JoinGood ==
  ASSUME NEW s, NEW hd, NEW r, NEW C, Good(s, hd, r, C), NEW h \in Mbufs, NEW g \in Mbufs, h # g, hd[h] = 1, hd[g] = 1,
         NEW t, MemInv(t, r), Linked(t, s, h, C[h], g, C[g])
  PROVE  Good(t, [hd EXCEPT ![g] = 0], r, [C EXCEPT ![h] = C[h] \o C[g]])
<1>1. PICK c, d, e, D : c = C[h] /\ d = C[g] /\ e = [hd EXCEPT ![g] = 0] /\ D = [C EXCEPT ![h] = C[h] \o C[g]]
  OBVIOUS
<1>2. /\ hd \in [Mbufs -> 0 .. MaxHeld] /\ C \in [Mbufs -> Seq(Mbufs)] /\ s \in [Mbufs -> Mbuf] /\ 0 \in 0 .. MaxHeld
      /\ c \in Seq(Mbufs) /\ d \in Seq(Mbufs) /\ hd[h] # 0 /\ hd[g] # 0
  <2>1. hd \in [Mbufs -> 0 .. MaxHeld] /\ C \in [Mbufs -> Seq(Mbufs)] /\ s \in [Mbufs -> Mbuf]
    BY DEF Good, MemInv
  <2>2. 0 \in 0 .. MaxHeld
    BY Numbers
  <2> QED
    BY <1>1, <2>1, <2>2
<1>3. c \o d \in Seq(Mbufs)
  BY <1>2
<1>4. /\ e \in [Mbufs -> 0 .. MaxHeld] /\ e[g] = 0 /\ (\A i \in Mbufs : i # g => e[i] = hd[i])
      /\ D \in [Mbufs -> Seq(Mbufs)] /\ D[h] = c \o d /\ \A i \in Mbufs : i # h => D[i] = C[i]
  BY <1>1, <1>2, <1>3
<1>5. /\ IsChain(s, h, c) /\ Chained(s, r, 1, h, c) /\ \A m \in Mbufs : In(m, c) => r[m] = 1
  <2>1. Chained(s, r, hd[h], h, C[h])
    BY <1>2 DEF Good
  <2> QED
    BY <1>1, <2>1 DEF Chained
<1>6. /\ IsChain(s, g, d) /\ Chained(s, r, 1, g, d) /\ \A m \in Mbufs : In(m, d) => r[m] = 1
  <2>1. Chained(s, r, hd[g], g, C[g])
    BY <1>2 DEF Good
  <2> QED
    BY <1>1, <2>1 DEF Chained
<1>7. /\ ~\E m \in Mbufs : In(m, c) /\ In(m, d)
      /\ \A k \in Mbufs : hd[k] # 0 /\ k # h => ~\E m \in Mbufs : In(m, c) /\ In(m, C[k])
      /\ \A k \in Mbufs : hd[k] # 0 /\ k # g => ~\E m \in Mbufs : In(m, d) /\ In(m, C[k])
  <2>1. \A k, l \in Mbufs : hd[k] # 0 /\ hd[l] # 0 /\ k # l => ~\E m \in Mbufs : In(m, C[k]) /\ In(m, C[l])
    BY DEF Good
  <2> QED
    BY <1>1, <1>2, <2>1
<1>8. Chained(t, r, 1, h, c \o d)
  <2>1. IsChain(t, h, c \o d)
    <3>1. \A i \in Mbufs : t[i].next = IF i = c[Len(c)] THEN g ELSE s[i].next
      BY <1>1 DEF Linked
    <3> QED
      BY ONLY <1>5, <1>6, <1>7, <3>1, LinkChains
  <2>2. PICK p : SumOf(s, c, p) /\ s[h].pkt_len = p[Len(c)]
    BY <1>5 DEF Chained
  <2>3. PICK q : SumOf(s, d, q) /\ s[g].pkt_len = q[Len(d)]
    BY <1>6 DEF Chained
  <2>5. PICK f : SumOf(s, c \o d, f) /\ f[Len(c \o d)] = p[Len(c)] + q[Len(d)]
    <3>1. s \in [Mbufs -> Mbuf] /\ c \in Seq(Mbufs) /\ d \in Seq(Mbufs)
      BY <1>2
    <3> QED
      BY <3>1, <2>2, <2>3, SumConcat
  <2>6. SumOf(t, c \o d, f)
    <3>1. \A i \in 1 .. Len(c \o d) : t[(c \o d)[i]].data_len = s[(c \o d)[i]].data_len
      <4>1. PICK w : w = c \o d
        OBVIOUS
      <4>2. \A i \in 1 .. Len(w) : w[i] \in Mbufs
        BY <1>3, <4>1
      <4> QED
        BY <4>1, <4>2 DEF Linked
    <3> QED
      BY <2>5, <3>1, SumSame
  <2>7. t[h].nb_segs = Len(c \o d)
    <3>1. s[h].nb_segs = Len(c) /\ s[g].nb_segs = Len(d)
      BY <1>5, <1>6 DEF Chained
    <3>2. Len(c \o d) = Len(c) + Len(d)
      BY <1>2, ConcatIs DEF Joined
    <3> QED
      BY <3>1, <3>2 DEF Linked
  <2>8. t[h].pkt_len = f[Len(c \o d)]
    BY <2>2, <2>3, <2>5 DEF Linked
  <2>9. \A m \in Mbufs : In(m, c \o d) => r[m] = 1
    BY <1>2, <1>5, <1>6, InConcat
  <2> QED
    BY <2>1, <2>6, <2>7, <2>8, <2>9 DEF Chained
<1>9. ASSUME NEW k \in Mbufs, e[k] # 0, k # h
      PROVE  hd[k] # 0 /\ e[k] = hd[k] /\ D[k] = C[k] /\ \A m \in Mbufs : In(m, C[k]) => ~In(m, c) /\ ~In(m, d)
  BY <1>4, <1>7, <1>9
<1>10. ASSUME NEW k \in Mbufs, e[k] # 0 PROVE Chained(t, r, e[k], k, D[k])
  <2>1. CASE k = h
    BY <1>4, <1>8, <2>1
  <2>2. CASE k # h
    <3>1. hd[k] # 0 /\ e[k] = hd[k] /\ D[k] = C[k] /\ \A m \in Mbufs : In(m, C[k]) => ~In(m, c) /\ ~In(m, d)
      BY <1>9, <1>10, <2>2
    <3>2. Chained(s, r, hd[k], k, C[k]) /\ \A m \in Mbufs : In(m, C[k]) => r[m] = hd[k]
      BY <3>1, HeldFacts
    <3>3. \A m \in Mbufs : In(m, C[k]) => Same(t, s, m) /\ r[m] = hd[k]
      <4>1. \A m \in Mbufs : In(m, C[k]) => t[m] = s[m]
        BY <1>1, <3>1 DEF Linked
      <4> QED
        BY <3>2, <4>1 DEF Same
    <3> QED
      BY <3>1, <3>2, <3>3, PacketSame
  <2> QED
    BY <2>1, <2>2
<1>11. ASSUME NEW k \in Mbufs, NEW l \in Mbufs, e[k] # 0, e[l] # 0, k # l, NEW m \in Mbufs, In(m, D[k]), In(m, D[l])
       PROVE  FALSE
  <2>1. CASE k = h
    <3>1. (In(m, c) \/ In(m, d)) /\ l # h
      <4>1. In(m, c \o d) /\ l # h
        BY <1>4, <1>11, <2>1
      <4> QED
        BY <1>2, <4>1, InConcat
    <3> QED
      BY <1>9, <1>11, <3>1
  <2>2. CASE l = h
    <3>1. (In(m, c) \/ In(m, d)) /\ k # h
      <4>1. In(m, c \o d) /\ k # h
        BY <1>4, <1>11, <2>2
      <4> QED
        BY <1>2, <4>1, InConcat
    <3> QED
      BY <1>9, <1>11, <3>1
  <2>3. CASE k # h /\ l # h
    <3>1. hd[k] # 0 /\ hd[l] # 0 /\ In(m, C[k]) /\ In(m, C[l])
      BY <1>9, <1>11, <2>3
    <3> QED
      BY <1>11, <3>1 DEF Good
  <2> QED
    BY <2>1, <2>2, <2>3
<1>12. ASSUME NEW m \in Mbufs, r[m] # 0 PROVE \E k \in Mbufs : e[k] # 0 /\ In(m, D[k])
  <2>1. PICK k \in Mbufs : hd[k] # 0 /\ In(m, C[k])
    BY <1>12 DEF Good
  <2>2. CASE k = h \/ k = g
    <3>1. In(m, c \o d)
      BY <1>1, <1>2, <2>1, <2>2, InConcat
    <3>2. e[h] # 0
      BY <1>2, <1>4
    <3> QED
      BY <1>4, <3>1, <3>2
  <2>3. CASE k # h /\ k # g
    BY <1>4, <2>1, <2>3
  <2> QED
    BY <2>2, <2>3
<1>13. Good(t, e, r, D)
  BY <1>4, <1>10, <1>11, <1>12 DEF Good
<1> QED
  BY <1>1, <1>13

(* rte_pktmbuf_chain: the packet at g becomes the tail of the one at h.     *)
LEMMA ChainGood ==
  ASSUME NEW s, NEW hd, NEW r, NEW C, Good(s, hd, r, C), NEW h \in Mbufs, NEW g \in Mbufs, h # g, hd[h] = 1, hd[g] = 1,
         s[h].nb_segs + s[g].nb_segs <= RTE_MBUF_MAX_NB_SEGS, NEW l, l = rte_pktmbuf_lastseg(s, h),
         NEW u, u = [s EXCEPT ![l].next = g], NEW t,
         t = [u EXCEPT ![h].nb_segs = @ + s[g].nb_segs, ![h].pkt_len = @ + s[g].pkt_len, ![g].pkt_len = s[g].data_len]
  PROVE  Good(t, [hd EXCEPT ![g] = 0], r, [C EXCEPT ![h] = C[h] \o C[g]])
<1>1. PICK c, d : c = C[h] /\ d = C[g]
  OBVIOUS
<1>2. /\ MemInv(s, r) /\ hd[h] # 0 /\ hd[g] # 0 /\ s \in [Mbufs -> Mbuf] /\ s[h] \in Mbuf /\ s[g] \in Mbuf
  BY DEF Good, MemInv
<1>3. /\ IsChain(s, h, c) /\ IsChain(s, g, d) /\ r[h] # 0 /\ r[g] # 0 /\ ~\E m \in Mbufs : In(m, c) /\ In(m, d)
      /\ Len(c) \in Nat \ {0} /\ In(h, c) /\ In(g, d) /\ \A i \in 1 .. Len(c) : c[i] \in Mbufs /\ r[c[i]] # 0
  <2>1. IsChain(s, h, c) /\ r[h] # 0 /\ Len(c) \in Nat \ {0} /\ \A i \in 1 .. Len(c) : c[i] \in Mbufs /\ r[c[i]] # 0
    BY <1>1, <1>2, HeldFacts
  <2>2. IsChain(s, g, d) /\ r[g] # 0
    BY <1>1, <1>2, HeldFacts
  <2>3. ~\E m \in Mbufs : In(m, c) /\ In(m, d)
    BY <1>1, <1>2 DEF Good
  <2>4. In(h, c) /\ In(g, d)
    BY <2>1, <2>2, InChain
  <2> QED
    BY <2>1, <2>2, <2>3, <2>4
<1>4. l = c[Len(c)] /\ l \in Mbufs /\ r[l] # 0 /\ In(l, c) /\ l # g /\ s[l] \in Mbuf
  <2>1. l = c[Len(c)]
    BY <1>1, <1>2, LastIs
  <2>2. Len(c) \in 1 .. Len(c)
    BY <1>3
  <2>3. l \in Mbufs /\ r[l] # 0 /\ In(l, c)
    BY <1>3, <2>1, <2>2 DEF In
  <2> QED
    BY <1>2, <1>3, <2>1, <2>3
<1>5. /\ s[h].nb_segs \in Nat /\ s[g].nb_segs \in Nat /\ s[h].nb_segs # 0 /\ s[h].pkt_len \in Nat /\ s[g].pkt_len \in Nat
      /\ s[g].data_len \in Nat
  BY <1>2, Numbers DEF Mbuf, Small
<1> DEFINE x == [s[l] EXCEPT !.next = g]
<1>6. /\ x \in Mbuf /\ SameBuffer(x, s[l]) /\ x.next = g /\ x.nb_segs = s[l].nb_segs /\ x.pkt_len = s[l].pkt_len
      /\ x.data_len = s[l].data_len /\ x.data_off = s[l].data_off
  BY <1>4 DEF Mbuf, SameBuffer
<1>7. Fits(x)
  <2>1. x.buf_len = s[l].buf_len /\ x.next # NULL /\ Fits(s[l])
    <3>1. Fits(s[l])
      BY <1>2, <1>4 DEF MemInv
    <3>2. x.buf_len = s[l].buf_len
      BY <1>6 DEF SameBuffer
    <3>3. x.next # NULL
      BY <1>6, BufAssumption
    <3> QED
      BY <3>1, <3>2, <3>3
  <2> HIDE DEF x
  <2> QED
    BY <1>6, <2>1 DEF Fits
<1>8. Wrote(u, s, l, x)
  BY <1>4 DEF Wrote
<1> HIDE DEF x
<1>9. MemInv(u, r) /\ u[l] = x /\ \A i \in Mbufs : i # l => u[i] = s[i]
  <2>1. PICK y : y = x
    OBVIOUS
  <2>2. y \in Mbuf /\ SameBuffer(y, s[l]) /\ Fits(y) /\ Wrote(u, s, l, y) /\ MemInv(s, r) /\ l \in Mbufs /\ r[l] # 0
    BY <1>2, <1>4, <1>6, <1>7, <1>8, <2>1
  <2>3. MemInv(u, r) /\ u[l] = y /\ \A i \in Mbufs : i # l => u[i] = s[i]
    BY ONLY <2>2, WriteKeeps
  <2> QED
    BY <2>1, <2>3
<1>10. /\ u \in [Mbufs -> Mbuf] /\ u[h] \in Mbuf /\ u[h].nb_segs = s[h].nb_segs /\ u[h].pkt_len = s[h].pkt_len
       /\ u[h].data_len = s[h].data_len /\ Fits(u[h]) /\ u[g] = s[g]
  BY <1>4, <1>6, <1>9 DEF MemInv
<1>11. u[h].next # NULL
  <2>1. CASE h = l
    BY <1>6, <1>9, <2>1, BufAssumption
  <2>2. CASE h # l
    <3>1. h = c[1] /\ Len(c) # 1 /\ 1 \in 1 .. Len(c) /\ 2 \in 1 .. Len(c)
      BY <1>3, <1>4, <2>2 DEF IsChain
    <3>2. s[h].next = c[2] /\ c[2] # NULL
      <4>1. \A i \in 1 .. Len(c) : s[c[i]].next = IF i = Len(c) THEN NULL ELSE c[i + 1]
        BY <1>3 DEF IsChain
      <4>2. s[h].next = c[1 + 1] /\ 1 + 1 = 2
        BY ONLY <3>1, <4>1
      <4>3. c[2] \in Mbufs
        BY <1>3, <3>1
      <4> QED
        BY <4>2, <4>3, BufAssumption
    <3> QED
      BY <1>9, <2>2, <3>2
  <2> QED
    BY <2>1, <2>2
<1> DEFINE y == [u[h] EXCEPT !.nb_segs = u[h].nb_segs + s[g].nb_segs, !.pkt_len = u[h].pkt_len + s[g].pkt_len]
           v == [u EXCEPT ![h] = y]
<1>12. u[h].nb_segs + s[g].nb_segs \in 1 .. RTE_MBUF_MAX_NB_SEGS /\ u[h].pkt_len + s[g].pkt_len \in Nat
  BY <1>5, <1>10, Numbers
<1>13. /\ y \in Mbuf /\ SameBuffer(y, u[h]) /\ y.next = u[h].next /\ y.nb_segs = u[h].nb_segs + s[g].nb_segs
       /\ y.pkt_len = u[h].pkt_len + s[g].pkt_len /\ y.data_len = u[h].data_len /\ y.data_off = u[h].data_off
  BY <1>10, <1>12 DEF Mbuf, SameBuffer
<1>14. Fits(y)
  <2>1. y.buf_len = u[h].buf_len
    BY <1>13 DEF SameBuffer
  <2> HIDE DEF y
  <2> QED
    BY <1>10, <1>11, <1>13, <2>1 DEF Fits
<1> HIDE DEF y
<1>15. MemInv(v, r) /\ v[h] = y /\ \A i \in Mbufs : i # h => v[i] = u[i]
  <2>1. PICK w, z : w = v /\ z = y
    OBVIOUS
  <2>2. z \in Mbuf /\ SameBuffer(z, u[h]) /\ Fits(z) /\ Wrote(w, u, h, z) /\ MemInv(u, r) /\ h \in Mbufs /\ r[h] # 0
    BY <1>3, <1>9, <1>13, <1>14, <2>1 DEF Wrote
  <2>3. MemInv(w, r) /\ w[h] = z /\ \A i \in Mbufs : i # h => w[i] = u[i]
    BY ONLY <2>2, WriteKeeps
  <2> QED
    BY <2>1, <2>3
<1>16. v[g] = s[g] /\ v \in [Mbufs -> Mbuf]
  BY <1>10, <1>15 DEF MemInv
<1> DEFINE z == [s[g] EXCEPT !.pkt_len = s[g].data_len]
<1>17. t = [v EXCEPT ![g] = z]
  <2>1. t = [[u EXCEPT ![h].nb_segs = u[h].nb_segs + s[g].nb_segs, ![h].pkt_len = u[h].pkt_len + s[g].pkt_len]
              EXCEPT ![g].pkt_len = s[g].data_len]
    BY <1>10 DEF Mbuf
  <2>2. [u EXCEPT ![h].nb_segs = u[h].nb_segs + s[g].nb_segs, ![h].pkt_len = u[h].pkt_len + s[g].pkt_len] = v
    BY <1>10 DEF Mbuf, y
  <2>3. t = [v EXCEPT ![g].pkt_len = s[g].data_len]
    <3> HIDE DEF v
    <3> QED
      BY <2>1, <2>2
  <2> HIDE DEF v
  <2> QED
    BY <1>16, <2>3
<1> HIDE DEF v
<1>18. /\ z \in Mbuf /\ SameBuffer(z, s[g]) /\ z.next = s[g].next /\ z.nb_segs = s[g].nb_segs /\ z.pkt_len = s[g].data_len
       /\ z.data_len = s[g].data_len /\ z.data_off = s[g].data_off
  BY <1>2, <1>5 DEF Mbuf, SameBuffer
<1>19. Fits(z)
  <2>1. z.buf_len = s[g].buf_len /\ Fits(s[g])
    BY <1>2, <1>18 DEF SameBuffer, MemInv
  <2> HIDE DEF z
  <2> QED
    BY <1>18, <2>1 DEF Fits
<1> HIDE DEF z
<1>20. MemInv(t, r) /\ t[g] = z /\ \A i \in Mbufs : i # g => t[i] = v[i]
  <2>1. PICK w, a : w = v /\ a = z
    OBVIOUS
  <2>2. a \in Mbuf /\ SameBuffer(a, w[g]) /\ Fits(a) /\ Wrote(t, w, g, a) /\ MemInv(w, r) /\ g \in Mbufs /\ r[g] # 0
    BY <1>3, <1>15, <1>16, <1>17, <1>18, <1>19, <2>1 DEF Wrote
  <2>3. MemInv(t, r) /\ t[g] = a /\ \A i \in Mbufs : i # g => t[i] = w[i]
    BY ONLY <2>2, WriteKeeps
  <2> QED
    BY <2>1, <2>3
<1>21. Linked(t, s, h, c, g, d)
  <2>1. \A i \in Mbufs : u[i].next = (IF i = l THEN g ELSE s[i].next) /\ u[i].data_len = s[i].data_len
    BY <1>4, <1>6, <1>9
  <2>2. \A i \in Mbufs : v[i].next = u[i].next /\ v[i].data_len = u[i].data_len
    BY <1>13, <1>15
  <2>3. \A i \in Mbufs : t[i].next = v[i].next /\ t[i].data_len = v[i].data_len
    BY <1>16, <1>18, <1>20
  <2>4. \A i \in Mbufs : t[i].next = (IF i = c[Len(c)] THEN g ELSE s[i].next) /\ t[i].data_len = s[i].data_len
    BY ONLY <1>4, <2>1, <2>2, <2>3
  <2>5. t[h].nb_segs = s[h].nb_segs + s[g].nb_segs /\ t[h].pkt_len = s[h].pkt_len + s[g].pkt_len
    BY <1>10, <1>13, <1>15, <1>20
  <2>6. ASSUME NEW i \in Mbufs, ~In(i, c), ~In(i, d) PROVE t[i] = s[i]
    <3>1. i # l /\ i # h /\ i # g
      BY <1>3, <1>4, <2>6
    <3> QED
      BY <1>9, <1>15, <1>20, <3>1
  <2> QED
    BY <2>4, <2>5, <2>6 DEF Linked
<1>22. Linked(t, s, h, C[h], g, C[g]) /\ MemInv(t, r) /\ h \in Mbufs /\ g \in Mbufs
  BY <1>1, <1>20, <1>21
<1> QED
  BY ONLY <1>22, Good(s, hd, r, C), h # g, hd[h] = 1, hd[g] = 1, JoinGood

LEMMA SingleIs ==
  ASSUME NEW s, NEW r, NEW h \in Mbufs, s[h].next = NULL, s[h].nb_segs = 1, s[h].pkt_len = s[h].data_len, s[h].data_len \in Nat
  PROVE  Chained(s, r, r[h], h, <<h>>)
<1>1. <<h>> \in Seq(Mbufs) /\ Len(<<h>>) = 1 /\ <<h>>[1] = h
  OBVIOUS
<1>2. \A i \in 1 .. 1 : i = 1
  OBVIOUS
<1>3. IsChain(s, h, <<h>>)
  BY <1>1, <1>2 DEF IsChain
<1>4. PICK p : p = [n \in 0 .. 1 |-> IF n = 0 THEN 0 ELSE s[h].data_len]
  OBVIOUS
<1>5. p[0] = 0 /\ p[1] = s[h].data_len /\ p = [n \in 0 .. 1 |-> p[n]]
  BY <1>4
<1>6. \A n \in 1 .. 1 : p[n] = p[n - 1] + s[<<h>>[n]].data_len
  <2>1. p[1] = p[1 - 1] + s[<<h>>[1]].data_len
    BY <1>1, <1>5
  <2> QED
    BY <1>2, <2>1
<1>7. SumOf(s, <<h>>, p)
  BY <1>1, <1>5, <1>6 DEF SumOf
<1>8. \A m \in Mbufs : In(m, <<h>>) => r[m] = r[h]
  BY <1>1, <1>2 DEF In
<1> QED
  BY <1>1, <1>3, <1>5, <1>7, <1>8 DEF Chained

(* The packet without its first segment.                                    *)
LEMMA TailIs ==
  ASSUME NEW s, NEW h, NEW c, IsChain(s, h, c), Len(c) # 1, NEW d, d = [i \in 1 .. (Len(c) - 1) |-> c[i + 1]]
  PROVE  IsChain(s, s[h].next, d) /\ (\A m : In(m, c) <=> m = h \/ In(m, d)) /\ ~In(h, d)
<1>1. /\ Len(c) \in Nat \ {0} /\ (\A i \in 1 .. Len(c) : c[i] \in Mbufs) /\ c[1] = h
      /\ (\A i \in 1 .. Len(c) : s[c[i]].next = IF i = Len(c) THEN NULL ELSE c[i + 1])
      /\ \A i, j \in 1 .. Len(c) : c[i] = c[j] => i = j
  BY ChainFacts DEF IsChain
<1>2. Len(d) = Len(c) - 1 /\ d \in Seq(Mbufs) /\ Len(d) \in Nat \ {0}
  <2>1. Len(c) - 1 \in Nat \ {0} /\ \A i \in 1 .. (Len(c) - 1) : i + 1 \in 1 .. Len(c)
    BY <1>1
  <2>2. d \in [1 .. (Len(c) - 1) -> Mbufs]
    BY <1>1, <2>1
  <2>3. PICK n : n = Len(c) - 1
    OBVIOUS
  <2>4. n \in Nat \ {0} /\ d \in [1 .. n -> Mbufs]
    BY <2>1, <2>2, <2>3
  <2>5. d \in Seq(Mbufs)
    BY ONLY <2>4
  <2>6. Len(d) = n
    BY ONLY <2>4, <2>5
  <2> QED
    BY <2>3, <2>4, <2>5, <2>6
<1>3. \A i \in 1 .. Len(d) : d[i] = c[i + 1] /\ i + 1 \in 1 .. Len(c) /\ i + 1 # 1 /\ (i = Len(d) <=> i + 1 = Len(c))
  BY <1>1, <1>2
<1>4. s[h].next = d[1]
  <2>1. 1 \in 1 .. Len(c) /\ 1 # Len(c) /\ 1 \in 1 .. Len(d)
    BY ONLY Len(c) # 1, <1>1, <1>2
  <2> QED
    BY <1>1, <1>3, <2>1
<1>5. ASSUME NEW i \in 1 .. Len(d) PROVE s[d[i]].next = IF i = Len(d) THEN NULL ELSE d[i + 1]
  <2>1. i # Len(d) => i + 1 \in 1 .. Len(d)
    BY ONLY <1>2, i \in 1 .. Len(d)
  <2> QED
    BY <1>1, <1>3, <2>1
<1>6. \A i, j \in 1 .. Len(d) : d[i] = d[j] => i = j
  <2>1. ASSUME NEW i \in 1 .. Len(d), NEW j \in 1 .. Len(d), d[i] = d[j] PROVE i = j
    <3>1. i + 1 = j + 1
      BY <1>1, <1>3, <2>1
    <3> QED
      BY <1>2, <3>1
  <2> QED
    BY <2>1
<1>7. IsChain(s, s[h].next, d)
  BY <1>2, <1>4, <1>5, <1>6 DEF IsChain
<1>8. ASSUME NEW m PROVE In(m, c) <=> m = h \/ In(m, d)
  <2>1. ASSUME NEW i \in 1 .. Len(c), c[i] = m, m # h PROVE In(m, d)
    <3>1. i - 1 \in 1 .. Len(d) /\ (i - 1) + 1 = i
      BY <1>1, <1>2, <2>1
    <3>2. d[i - 1] = m
      BY <1>3, <2>1, <3>1
    <3> QED
      BY <3>1, <3>2 DEF In
  <2>2. In(m, d) => In(m, c)
    BY <1>3 DEF In
  <2>3. In(h, c)
    BY <1>1 DEF In
  <2> QED
    BY <2>1, <2>2, <2>3 DEF In
<1>9. ~In(h, d)
  <2>1. 1 \in 1 .. Len(c)
    BY <1>1
  <2> QED
    BY <1>1, <1>3, <2>1 DEF In
<1> QED
  BY <1>7, <1>8, <1>9

(* rte_pktmbuf_linearize: the tail's bytes move to the first segment, and   *)
(* the tail is freed.                                                       *)
Linearized(t, s, h, v, u) ==
  /\ u = [s EXCEPT ![h].data_len = s[h].pkt_len % UINT16]
  /\ v = FreeChain(u, s[h].next)
  /\ t = [v EXCEPT ![h].next = NULL, ![h].nb_segs = 1]

LEMMA LinearizeGood ==
  ASSUME NEW s, NEW hd, NEW r, NEW C, Good(s, hd, r, C), NEW h \in Mbufs, hd[h] = 1, s[h].nb_segs # 1,
         s[h].pkt_len - s[h].data_len <= rte_pktmbuf_tailroom(s, h), NEW u, NEW v, NEW t, Linearized(t, s, h, v, u)
  PROVE  \E q : Good(t, hd, q, [C EXCEPT ![h] = <<h>>])
<1>1. PICK c : c = C[h]
  OBVIOUS
<1>2. /\ MemInv(s, r) /\ hd[h] # 0 /\ s \in [Mbufs -> Mbuf] /\ s[h] \in Mbuf /\ Fits(s[h]) /\ hd \in [Mbufs -> 0 .. MaxHeld]
      /\ r \in [Mbufs -> 0 .. MaxHeld] /\ C \in [Mbufs -> Seq(Mbufs)]
  BY DEF Good, MemInv
<1>3. /\ IsChain(s, h, c) /\ r[h] = 1 /\ Len(c) \in Nat \ {0} /\ \A m \in Mbufs : In(m, c) => r[m] = 1
  <2>1. /\ IsChain(s, h, C[h]) /\ r[h] = hd[h] /\ Len(C[h]) \in Nat \ {0} /\ \A m \in Mbufs : In(m, C[h]) => r[m] = hd[h]
    BY <1>2, HeldFacts
  <2> QED
    BY <1>1, <2>1
<1>4. Len(c) # 1
  <2>1. Chained(s, r, hd[h], h, C[h])
    BY <1>2 DEF Good
  <2> QED
    BY <1>1, <2>1 DEF Chained
<1>5. PICK d : d = [i \in 1 .. (Len(c) - 1) |-> c[i + 1]]
  OBVIOUS
<1>6. IsChain(s, s[h].next, d) /\ (\A m : In(m, c) <=> m = h \/ In(m, d)) /\ ~In(h, d)
  BY <1>3, <1>4, <1>5, TailIs
<1>7. PICK n : n = s[h].pkt_len
  OBVIOUS
<1>8. n \in Small /\ n % UINT16 = n /\ s[h].data_off + n <= s[h].buf_len
  <2>1. PICK off, dl, bl : off = s[h].data_off /\ dl = s[h].data_len /\ bl = s[h].buf_len
    OBVIOUS
  <2>2. off \in Nat /\ dl \in Nat /\ bl \in Nat /\ bl < UINT16 /\ n \in Nat /\ n - dl <= bl - off - dl
    <3>1. 1 \in 1 .. Len(C[h]) /\ h = C[h][1]
      BY <1>2, LastIs
    <3>2. /\ s[h].data_off \in Nat /\ s[h].data_len \in Nat /\ s[h].buf_len \in Nat /\ s[h].pkt_len \in Nat
          /\ s[h].buf_len < UINT16 /\ rte_pktmbuf_tailroom(s, h) = s[h].buf_len - s[h].data_off - s[h].data_len
      <4>1. hd[h] # 0
        BY <1>2
      <4> QED
        BY ONLY Good(s, hd, r, C), h \in Mbufs, <3>1, <4>1, SegmentRoom
    <3> QED
      BY <1>7, <2>1, <3>2
  <2>3. n \in 0 .. UINT16 - 1 /\ off + n <= bl
    BY ONLY <2>2, Numbers
  <2>4. n % UINT16 = n
    BY ONLY <2>3, Numbers
  <2> QED
    BY <2>1, <2>3, <2>4 DEF Small
<1> DEFINE x == [s[h] EXCEPT !.data_len = n]
<1>9. /\ x \in Mbuf /\ SameBuffer(x, s[h]) /\ x.next = s[h].next /\ x.nb_segs = s[h].nb_segs
      /\ x.pkt_len = n /\ x.data_len = n /\ x.data_off = s[h].data_off
  BY <1>2, <1>7, <1>8 DEF Mbuf, SameBuffer
<1>10. Fits(x)
  <2>1. x.buf_len = s[h].buf_len
    BY <1>9 DEF SameBuffer
  <2> HIDE DEF x
  <2> QED
    BY <1>2, <1>8, <1>9, <2>1 DEF Fits
<1>11. Wrote(u, s, h, x)
  BY <1>2, <1>7, <1>8 DEF Wrote, Linearized
<1> HIDE DEF x
<1>12. MemInv(u, r) /\ u[h] = x /\ \A i \in Mbufs : i # h => u[i] = s[i]
  <2>1. PICK y : y = x
    OBVIOUS
  <2>2. y \in Mbuf /\ SameBuffer(y, s[h]) /\ Fits(y) /\ Wrote(u, s, h, y) /\ MemInv(s, r) /\ h \in Mbufs /\ r[h] # 0
    BY <1>2, <1>3, <1>9, <1>10, <1>11, <2>1
  <2>3. MemInv(u, r) /\ u[h] = y /\ \A i \in Mbufs : i # h => u[i] = s[i]
    BY ONLY <2>2, WriteKeeps
  <2> QED
    BY <2>1, <2>3
<1>13. \A i \in Mbufs : u[i].next = s[i].next
  BY <1>9, <1>12
<1>14. IsChain(u, s[h].next, d) /\ \A i \in 1 .. Len(d) : d[i] \in Mbufs /\ r[d[i]] = 1
  <2>1. \A i \in 1 .. Len(d) : d[i] \in Mbufs
    BY <1>6, ChainFacts
  <2>2. \A i \in 1 .. Len(d) : In(d[i], d)
    BY DEF In
  <2>3. \A i \in 1 .. Len(d) : r[d[i]] = 1
    BY <1>3, <1>6, <2>1, <2>2
  <2>4. \A i \in 1 .. Len(d) : u[d[i]].next = s[d[i]].next
    BY <1>13, <2>1
  <2> QED
    BY <1>6, <2>1, <2>3, <2>4, ChainSame
<1>15. PICK q : q = Less(r, d, Len(d))
  OBVIOUS
<1>16. MemInv(v, q) /\ \A i \in Mbufs : q[i] # 0 => Same(v, u, i)
  <2>1. \A i \in 1 .. Len(d) : r[d[i]] # 0
    BY <1>14
  <2>2. PICK a : a = s[h].next
    OBVIOUS
  <2>3. IsChain(u, a, d) /\ v = FreeChain(u, a)
    BY <1>14, <2>2 DEF Linearized
  <2> QED
    BY ONLY <1>12, <1>15, <2>1, <2>3, FreeChainKeeps
<1>17. \A m \in Mbufs : q[m] = IF In(m, d) THEN 0 ELSE r[m]
  <2>1. \A m \in Mbufs : q[m] = IF In(m, d) THEN r[m] - 1 ELSE r[m]
    BY <1>15, LessIs
  <2> QED
    BY <1>3, <1>6, <2>1
<1>18. q[h] = 1 /\ Same(v, u, h)
  BY <1>3, <1>6, <1>16, <1>17
<1>19. v \in [Mbufs -> Mbuf] /\ v[h] \in Mbuf /\ Fits(v[h]) /\ v[h].pkt_len = n /\ v[h].data_len = n
  BY <1>9, <1>12, <1>16, <1>18 DEF MemInv, Same
<1> DEFINE y == [v[h] EXCEPT !.next = NULL, !.nb_segs = 1]
<1>20. /\ y \in Mbuf /\ SameBuffer(y, v[h]) /\ y.next = NULL /\ y.nb_segs = 1
       /\ y.pkt_len = n /\ y.data_len = n /\ y.data_off = v[h].data_off
  <2>1. 1 \in 1 .. RTE_MBUF_MAX_NB_SEGS /\ NULL \in Mbufs \cup {NULL}
    BY Numbers
  <2> QED
    BY <1>19, <2>1 DEF Mbuf, SameBuffer
<1>21. Fits(y)
  <2>1. y.buf_len = v[h].buf_len
    BY <1>20 DEF SameBuffer
  <2> HIDE DEF y
  <2> QED
    BY <1>19, <1>20, <2>1 DEF Fits
<1>22. Wrote(t, v, h, y)
  BY <1>19 DEF Wrote, Mbuf, Linearized
<1> HIDE DEF y
<1>23. MemInv(t, q) /\ t[h] = y /\ \A i \in Mbufs : i # h => t[i] = v[i]
  <2>1. PICK z : z = y
    OBVIOUS
  <2>2. z \in Mbuf /\ SameBuffer(z, v[h]) /\ Fits(z) /\ Wrote(t, v, h, z) /\ MemInv(v, q) /\ h \in Mbufs /\ q[h] # 0
    BY <1>16, <1>18, <1>20, <1>21, <1>22, <2>1
  <2>3. MemInv(t, q) /\ t[h] = z /\ \A i \in Mbufs : i # h => t[i] = v[i]
    BY ONLY <2>2, WriteKeeps
  <2> QED
    BY <2>1, <2>3
<1>24. PICK D : D = [C EXCEPT ![h] = <<h>>]
  OBVIOUS
<1>25. D \in [Mbufs -> Seq(Mbufs)] /\ D[h] = <<h>> /\ \A g \in Mbufs : g # h => D[g] = C[g]
  <2>1. <<h>> \in Seq(Mbufs)
    OBVIOUS
  <2> QED
    BY <1>2, <1>24, <2>1
<1>26. Chained(t, q, hd[h], h, <<h>>)
  <2>1. t[h].next = NULL /\ t[h].nb_segs = 1 /\ t[h].pkt_len = t[h].data_len /\ t[h].data_len \in Nat
    BY <1>8, <1>20, <1>23, Numbers DEF Small
  <2>2. Chained(t, q, q[h], h, <<h>>)
    BY <2>1, SingleIs
  <2> QED
    BY <1>18, <2>2
<1>27. ASSUME NEW g \in Mbufs, hd[g] # 0, g # h, NEW m \in Mbufs, In(m, C[g])
       PROVE  ~In(m, c) /\ m # h /\ ~In(m, d) /\ r[m] = hd[g]
  <2>1. ~In(m, c)
    BY <1>1, <1>2, <1>27 DEF Good
  <2>2. r[m] = hd[g]
    BY <1>27, HeldFacts
  <2> QED
    BY <1>6, <2>1, <2>2
<1>28. ASSUME NEW g \in Mbufs, hd[g] # 0 PROVE Chained(t, q, hd[g], g, D[g])
  <2>1. CASE g = h
    BY <1>25, <1>26, <2>1
  <2>2. CASE g # h
    <3>1. Chained(s, r, hd[g], g, C[g])
      BY <1>28, HeldFacts
    <3>2. ASSUME NEW m \in Mbufs, In(m, C[g]) PROVE Same(t, s, m) /\ q[m] = hd[g]
      <4>1. m # h /\ ~In(m, d) /\ r[m] = hd[g]
        BY <1>27, <1>28, <2>2, <3>2
      <4>2. q[m] = hd[g] /\ q[m] # 0
        BY <1>17, <1>28, <4>1
      <4>3. Same(v, u, m) /\ t[m] = v[m] /\ u[m] = s[m]
        BY <1>12, <1>16, <1>23, <4>1, <4>2
      <4> QED
        BY <4>2, <4>3 DEF Same
    <3> QED
      BY <1>25, <2>2, <3>1, <3>2, PacketSame
  <2> QED
    BY <2>1, <2>2
<1>29. ASSUME NEW g \in Mbufs, NEW k \in Mbufs, hd[g] # 0, hd[k] # 0, g # k, NEW m \in Mbufs, In(m, D[g]), In(m, D[k])
       PROVE  FALSE
  <2>1. \A i : In(i, <<h>>) => i = h
    BY DEF In
  <2>2. CASE g = h
    BY <1>25, <1>27, <1>29, <2>1, <2>2
  <2>3. CASE k = h
    BY <1>25, <1>27, <1>29, <2>1, <2>3
  <2>4. CASE g # h /\ k # h
    BY <1>25, <1>29, <2>4 DEF Good
  <2> QED
    BY <2>2, <2>3, <2>4
<1>30. ASSUME NEW m \in Mbufs, q[m] # 0 PROVE \E g \in Mbufs : hd[g] # 0 /\ In(m, D[g])
  <2>1. r[m] # 0 /\ ~In(m, d)
    BY <1>17, <1>30
  <2>2. PICK g \in Mbufs : hd[g] # 0 /\ In(m, C[g])
    BY <2>1 DEF Good
  <2>3. CASE g = h
    <3>1. m = h
      BY <1>1, <1>6, <2>1, <2>2, <2>3
    <3>2. In(h, <<h>>)
      BY DEF In
    <3> QED
      BY <1>2, <1>25, <3>1, <3>2
  <2>4. CASE g # h
    BY <1>25, <2>2, <2>4
  <2> QED
    BY <2>3, <2>4
<1>31. Good(t, hd, q, D)
  BY <1>2, <1>23, <1>25, <1>28, <1>29, <1>30 DEF Good
<1> QED
  BY <1>24, <1>31

-----------------------------------------------------------------------------
(* The steps.                                                               *)

BufInd == \E r, C : Good(mb, held, r, C)

LEMMA SeqsFetched ==
  ASSUME NEW s, NEW S, S \subseteq Mbufs, \A m \in S : s[m].in_pool # 0, NEW fs \in SetToSeqs(S)
  PROVE  Len(fs) = Cardinality(S) /\ Len(fs) \in Nat /\ (Len(fs) # 0 => Fetched(s, fs))
<1>1. IsFiniteSet(S) /\ Cardinality(S) \in Nat
  BY BufAssumption, FS_Subset, FS_CardinalityType
<1>2. PICK n : n = Cardinality(S)
  OBVIOUS
<1>3. n \in Nat /\ fs \in [1 .. n -> S] /\ \A i, j \in 1 .. n : i # j => fs[i] # fs[j]
  BY <1>1, <1>2 DEF SetToSeqs
<1>4. fs \in Seq(S) /\ Len(fs) = n
  BY ONLY <1>3
<1>5. fs \in Seq(Mbufs)
  BY ONLY <1>4, S \subseteq Mbufs
<1>6. Len(fs) # 0 => Fetched(s, fs)
  BY <1>3, <1>4, <1>5 DEF Fetched
<1> QED
  BY <1>2, <1>3, <1>4, <1>6

LEMMA HeldType ==
  ASSUME NEW s, NEW hd, NEW r, NEW C, Good(s, hd, r, C), NEW h \in Mbufs, hd[h] > 0
  PROVE  hd[h] # 0 /\ hd[h] \in Nat
<1>1. hd[h] \in 0 .. MaxHeld
  BY DEF Good
<1> QED
  BY <1>1, Numbers

LEMMA PooledIs ==
  ASSUME NEW r, NEW C, Good(mb, held, r, C), NEW m \in Mbufs
  PROVE  /\ m \in Pooled <=> mb[m].in_pool # 0
         /\ \A mp : m \in Free(mp) => mb[m].in_pool # 0
<1>1. mb[m].in_pool \in {0, 1}
  BY DEF Good, MemInv, Mbuf
<1> QED
  BY <1>1 DEF Pooled, Free

LEMMA InitBuf ==
  ASSUME MbufInit
  PROVE  BufInd
<1>1. Good(mb, [m \in Mbufs |-> 0], [m \in Mbufs |-> 0], [m \in Mbufs |-> <<>>])
  BY InitGood DEF MbufInit
<1> QED
  BY <1>1 DEF BufInd, MbufInit

LEMMA AllocStep ==
  ASSUME NEW r, NEW C, Good(mb, held, r, C), NEW m \in Mbufs, rte_pktmbuf_alloc(m)
  PROVE  BufInd'
<1>1. PICK s, hd, t, e : s = mb /\ hd = held /\ t = mb' /\ e = held'
  OBVIOUS
<1>2. /\ Good(s, hd, r, C) /\ MemInv(s, r) /\ hd \in [Mbufs -> 0 .. MaxHeld] /\ s[m].in_pool # 0
      /\ t = Alloc(s, m) /\ e = [hd EXCEPT ![m] = 1] /\ s \in [Mbufs -> Mbuf]
  BY <1>1, PooledIs DEF rte_pktmbuf_alloc, Good, MemInv
<1>3. t \in [Mbufs -> Mbuf] /\ \A i \in Mbufs : i # m => t[i] = s[i]
  BY <1>2, AllocIs
<1>4. t = [i \in Mbufs |-> IF i \in {m} THEN Alloc(s, i)[i] ELSE s[i]]
  BY <1>2, <1>3
<1>5. e = [i \in Mbufs |-> IF i \in {m} THEN 1 ELSE hd[i]]
  BY <1>2
<1>6. \A i \in {m} : s[i].in_pool # 0
  BY <1>2
<1>7. \E q, D : Good(t, e, q, D)
  <2>1. Allocated(t, e, s, hd, {m}) /\ {m} \subseteq Mbufs
    BY <1>4, <1>5 DEF Allocated
  <2> QED
    BY ONLY <1>2, <1>6, <2>1, AllocGood
<1> QED
  BY <1>1, <1>7 DEF BufInd

LEMMA BulkStep ==
  ASSUME NEW r, NEW C, Good(mb, held, r, C), NEW ms \in SUBSET Mbufs, rte_pktmbuf_alloc_bulk(ms)
  PROVE  BufInd'
<1>1. PICK s, hd, t, e : s = mb /\ hd = held /\ t = mb' /\ e = held'
  OBVIOUS
<1>2. /\ Good(s, hd, r, C) /\ (\A i \in ms : s[i].in_pool # 0)
      /\ t = [i \in Mbufs |-> IF i \in ms THEN Alloc(s, i)[i] ELSE s[i]]
      /\ e = [i \in Mbufs |-> IF i \in ms THEN 1 ELSE hd[i]]
  BY <1>1, PooledIs DEF rte_pktmbuf_alloc_bulk
<1>3. \E q, D : Good(t, e, q, D)
  <2>1. Allocated(t, e, s, hd, ms) /\ ms \subseteq Mbufs
    BY <1>2 DEF Allocated
  <2> QED
    BY ONLY <1>2, <2>1, AllocGood
<1> QED
  BY <1>1, <1>3 DEF BufInd

LEMMA FreeStep ==
  ASSUME NEW r, NEW C, Good(mb, held, r, C), NEW h \in Mbufs, rte_pktmbuf_free(h)
  PROVE  \E q : Good(mb', held', q, C) /\ \A m \in Mbufs : q[m] # 0 => Same(mb', mb, m)
<1>1. PICK s, hd, t, e : s = mb /\ hd = held /\ t = mb' /\ e = held'
  OBVIOUS
<1>2. Good(s, hd, r, C) /\ hd[h] # 0 /\ t = FreeChain(s, h) /\ e = [hd EXCEPT ![h] = hd[h] - 1]
  BY <1>1, HeldType DEF rte_pktmbuf_free
<1>3. \E q : Good(t, e, q, C) /\ \A m \in Mbufs : q[m] # 0 => Same(t, s, m)
  BY <1>2, FreeGood
<1> QED
  BY <1>1, <1>3

LEMMA RefcntStep ==
  ASSUME NEW r, NEW C, Good(mb, held, r, C), NEW h \in Mbufs, rte_pktmbuf_refcnt_update(h)
  PROVE  BufInd'
<1>1. PICK s, hd, t, e : s = mb /\ hd = held /\ t = mb' /\ e = held'
  OBVIOUS
<1>2. /\ Good(s, hd, r, C) /\ hd[h] \in 1 .. (MaxHeld - 1) /\ e = [hd EXCEPT ![h] = hd[h] + 1]
      /\ t = [m \in Mbufs |-> IF m \in Range(Segs(s, h)) THEN rte_mbuf_refcnt_update(s, m, 1)[m] ELSE s[m]]
  BY <1>1 DEF rte_pktmbuf_refcnt_update
<1>3. \E q, D : Good(t, e, q, D)
  BY <1>2, RefcntGood
<1> QED
  BY <1>1, <1>3 DEF BufInd

LEMMA CloneActStep ==
  ASSUME NEW r, NEW C, Good(mb, held, r, C), NEW h \in Mbufs, NEW mp \in Pools, rte_pktmbuf_clone(h, mp)
  PROVE  BufInd'
<1>1. PICK s, hd, t, e : s = mb /\ hd = held /\ t = mb' /\ e = held'
  OBVIOUS
<1>2. PICK fs \in SetToAllKPermutations(Free(mp)) :
        Len(fs) = Len(Segs(mb, h)) /\ mb' = CloneSegs(mb, h, fs) /\ held' = [held EXCEPT ![fs[1]] = 1]
  BY DEF rte_pktmbuf_clone
<1>3. Good(s, hd, r, C) /\ hd[h] # 0
  BY <1>1, HeldType DEF rte_pktmbuf_clone
<1>4. Segs(s, h) = C[h] /\ Len(C[h]) \in Nat \ {0}
  BY <1>3, HeldFacts
<1>5. Len(fs) = Len(C[h]) /\ t = CloneSegs(s, h, fs) /\ e = [hd EXCEPT ![fs[1]] = 1]
  BY <1>1, <1>2, <1>4
<1>6. Fetched(s, fs)
  <2>1. PICK S \in SUBSET Free(mp) : fs \in SetToSeqs(S)
    BY DEF SetToAllKPermutations
  <2>2. S \subseteq Mbufs /\ \A m \in S : mb[m].in_pool # 0
    BY PooledIs DEF Free, Pooled
  <2> QED
    BY <1>1, <1>4, <1>5, <2>1, <2>2, SeqsFetched
<1>7. \E q, D : Good(t, e, q, D)
  BY <1>3, <1>5, <1>6, CloneGood
<1> QED
  BY <1>1, <1>7 DEF BufInd

LEMMA CloneFailsStep ==
  ASSUME NEW r, NEW C, Good(mb, held, r, C), NEW h \in Mbufs, NEW mp \in Pools, CloneFails(h, mp)
  PROVE  BufInd'
<1>1. PICK s, hd, t : s = mb /\ hd = held /\ t = mb'
  OBVIOUS
<1>2. PICK fs \in SetToSeqs(Free(mp)) : mb' = FreeChain(CloneSegs(mb, h, fs), fs[1])
  BY DEF CloneFails
<1>3. Good(s, hd, r, C) /\ hd[h] # 0 /\ held' = hd
  BY <1>1, HeldType DEF CloneFails
<1>4. Segs(s, h) = C[h] /\ Len(C[h]) \in Nat \ {0}
  BY <1>3, HeldFacts
<1>5. t = FreeChain(CloneSegs(s, h, fs), fs[1])
  BY <1>1, <1>2
<1>6. Fetched(s, fs) /\ Len(fs) <= Len(C[h])
  <2>1. Free(mp) \subseteq Mbufs /\ \A m \in Free(mp) : mb[m].in_pool # 0
    BY PooledIs DEF Free, Pooled
  <2>2. Len(fs) = Cardinality(Free(mp)) /\ Len(fs) \in Nat /\ (Len(fs) # 0 => Fetched(mb, fs))
    BY <2>1, SeqsFetched
  <2>3. Cardinality(Free(mp)) # 0
    <3>1. IsFiniteSet(Free(mp)) /\ Free(mp) # {}
      BY <2>1, BufAssumption, FS_Subset DEF CloneFails
    <3> QED
      BY <3>1, FS_EmptySet
  <2>4. Cardinality(Free(mp)) < Len(C[h])
    BY <1>1, <1>4 DEF CloneFails
  <2>5. Fetched(s, fs)
    BY <1>1, <2>2, <2>3
  <2>6. Len(fs) <= Len(C[h])
    BY ONLY <1>4, <2>2, <2>4
  <2> QED
    BY <2>5, <2>6
<1>7. Good(t, hd, r, C)
  BY <1>3, <1>5, <1>6, CloneFailsGood
<1> QED
  BY <1>1, <1>3, <1>7 DEF BufInd

LEMMA HeldOnce ==
  ASSUME NEW s, NEW hd, NEW r, NEW C, Good(s, hd, r, C), NEW h \in Mbufs, hd[h] = 1
  PROVE  hd[h] # 0 /\ s \in [Mbufs -> Mbuf] /\ s[h] \in Mbuf
  BY DEF Good, MemInv

LEMMA PrependStep ==
  ASSUME NEW r, NEW C, Good(mb, held, r, C), NEW h \in Mbufs, NEW len \in 1 .. MaxLen, rte_pktmbuf_prepend(h, len)
  PROVE  BufInd'
<1>1. PICK s, hd, t : s = mb /\ hd = held /\ t = mb'
  OBVIOUS
<1>2. /\ Good(s, hd, r, C) /\ hd[h] # 0 /\ len <= rte_pktmbuf_headroom(s, h) /\ held' = hd
      /\ t = [s EXCEPT ![h].data_off = @ - len, ![h].data_len = (@ + len) % UINT16, ![h].pkt_len = @ + len]
  BY <1>1, HeldOnce DEF rte_pktmbuf_prepend
<1>3. len \in Nat
  BY Numbers
<1>4. Good(t, hd, r, C)
  BY <1>2, <1>3, PrependGood
<1> QED
  BY <1>1, <1>2, <1>4 DEF BufInd

LEMMA AdjStep ==
  ASSUME NEW r, NEW C, Good(mb, held, r, C), NEW h \in Mbufs, NEW len \in 1 .. MaxLen, rte_pktmbuf_adj(h, len)
  PROVE  BufInd'
<1>1. PICK s, hd, t : s = mb /\ hd = held /\ t = mb'
  OBVIOUS
<1>2. /\ Good(s, hd, r, C) /\ hd[h] # 0 /\ len <= s[h].data_len /\ held' = hd
      /\ t = [s EXCEPT ![h].data_len = (@ - len) % UINT16, ![h].data_off = @ + len, ![h].pkt_len = @ - len]
  BY <1>1, HeldOnce DEF rte_pktmbuf_adj
<1>3. len \in Nat
  BY Numbers
<1>4. Good(t, hd, r, C)
  BY <1>2, <1>3, AdjGood
<1> QED
  BY <1>1, <1>2, <1>4 DEF BufInd

LEMMA AppendStep ==
  ASSUME NEW r, NEW C, Good(mb, held, r, C), NEW h \in Mbufs, NEW len \in 1 .. MaxLen, rte_pktmbuf_append(h, len)
  PROVE  BufInd'
<1>1. PICK s, hd, t, m : s = mb /\ hd = held /\ t = mb' /\ m = rte_pktmbuf_lastseg(mb, h)
  OBVIOUS
<1>2. PICK u : u = [s EXCEPT ![m] = [s[m] EXCEPT !.data_len = (s[m].data_len + len) % UINT16]]
  OBVIOUS
<1>3. /\ Good(s, hd, r, C) /\ hd[h] # 0 /\ len <= rte_pktmbuf_tailroom(s, m) /\ held' = hd
      /\ m = rte_pktmbuf_lastseg(s, h)
  BY <1>1, HeldOnce DEF rte_pktmbuf_append
<1>4. /\ s \in [Mbufs -> Mbuf] /\ s[m] \in Mbuf /\ m \in Mbufs /\ s[m].data_len \in Nat
  BY <1>3, LastIs, SegmentRoom
<1>5. t = [u EXCEPT ![h] = [u[h] EXCEPT !.pkt_len = u[h].pkt_len + len]]
  BY <1>1, <1>2 DEF rte_pktmbuf_append
<1>6. len \in Int /\ s[m].data_len + len \in Nat
  BY <1>4, Numbers
<1>7. Good(t, hd, r, C)
  BY ONLY <1>2, <1>3, <1>5, <1>6, h \in Mbufs, TailGood
<1> QED
  BY <1>1, <1>3, <1>7 DEF BufInd

LEMMA TrimStep ==
  ASSUME NEW r, NEW C, Good(mb, held, r, C), NEW h \in Mbufs, NEW len \in 1 .. MaxLen, rte_pktmbuf_trim(h, len)
  PROVE  BufInd'
<1>1. PICK s, hd, t, m, d : s = mb /\ hd = held /\ t = mb' /\ m = rte_pktmbuf_lastseg(mb, h) /\ d = 0 - len
  OBVIOUS
<1>2. PICK u : u = [s EXCEPT ![m] = [s[m] EXCEPT !.data_len = (s[m].data_len + d) % UINT16]]
  OBVIOUS
<1>3. /\ Good(s, hd, r, C) /\ hd[h] # 0 /\ len <= s[m].data_len /\ held' = hd
      /\ m = rte_pktmbuf_lastseg(s, h)
  BY <1>1, HeldOnce DEF rte_pktmbuf_trim
<1>4. /\ s \in [Mbufs -> Mbuf] /\ s[m] \in Mbuf /\ m \in Mbufs /\ s[m].data_len \in Nat /\ s[m].data_off \in Nat
      /\ s[m].buf_len \in Nat /\ s[m].data_off + s[m].data_len <= s[m].buf_len
      /\ rte_pktmbuf_tailroom(s, m) = s[m].buf_len - s[m].data_off - s[m].data_len
  BY <1>3, LastIs, SegmentRoom
<1>5. d \in Int /\ s[m].data_len + d \in Nat /\ d <= rte_pktmbuf_tailroom(s, m) /\ s[m].data_len + d = s[m].data_len - len
  BY <1>1, <1>3, <1>4, Numbers
<1>6. t = [u EXCEPT ![h] = [u[h] EXCEPT !.pkt_len = u[h].pkt_len + d]]
  <2>1. u = [s EXCEPT ![m].data_len = (@ - len) % UINT16]
    BY <1>2, <1>5
  <2>2. t = [u EXCEPT ![h].pkt_len = @ - len]
    BY <1>1, <2>1 DEF rte_pktmbuf_trim
  <2>3. u[h].pkt_len \in Nat
    <3>1. s[h].pkt_len \in Nat
      BY <1>3, HeldOnce, LastIs, SegmentRoom
    <3>2. u[h].pkt_len = s[h].pkt_len
      BY <1>2, <1>4 DEF Mbuf
    <3> QED
      BY <3>1, <3>2
  <2>4. u[h].pkt_len + d = u[h].pkt_len - len
    BY <1>1, <2>3, Numbers
  <2> QED
    BY <2>2, <2>4
<1>7. Good(t, hd, r, C)
  BY ONLY <1>2, <1>3, <1>5, <1>6, h \in Mbufs, TailGood
<1> QED
  BY <1>1, <1>3, <1>7 DEF BufInd

LEMMA ChainStep ==
  ASSUME NEW r, NEW C, Good(mb, held, r, C), NEW h \in Mbufs, NEW g \in Mbufs, rte_pktmbuf_chain(h, g)
  PROVE  BufInd'
<1>1. PICK s, hd, t, l, e : s = mb /\ hd = held /\ t = mb' /\ l = rte_pktmbuf_lastseg(mb, h) /\ e = held'
  OBVIOUS
<1>2. PICK u : u = [s EXCEPT ![l].next = g]
  OBVIOUS
<1>3. /\ Good(s, hd, r, C) /\ hd[h] = 1 /\ hd[g] = 1 /\ h # g /\ l = rte_pktmbuf_lastseg(s, h)
      /\ s[h].nb_segs + s[g].nb_segs <= RTE_MBUF_MAX_NB_SEGS /\ e = [hd EXCEPT ![g] = 0]
      /\ t = [u EXCEPT ![h].nb_segs = @ + s[g].nb_segs, ![h].pkt_len = @ + s[g].pkt_len, ![g].pkt_len = s[g].data_len]
  BY <1>1, <1>2 DEF rte_pktmbuf_chain
<1>4. Good(t, [hd EXCEPT ![g] = 0], r, [C EXCEPT ![h] = C[h] \o C[g]])
  BY <1>2, <1>3, ChainGood
<1> QED
  BY <1>1, <1>3, <1>4 DEF BufInd

LEMMA LinearizeStep ==
  ASSUME NEW r, NEW C, Good(mb, held, r, C), NEW h \in Mbufs, rte_pktmbuf_linearize(h)
  PROVE  BufInd'
<1>1. PICK s, hd, t : s = mb /\ hd = held /\ t = mb'
  OBVIOUS
<1>2. PICK u, v : u = [s EXCEPT ![h].data_len = s[h].pkt_len % UINT16] /\ v = FreeChain(u, s[h].next)
  OBVIOUS
<1>3. /\ Good(s, hd, r, C) /\ hd[h] = 1 /\ held' = hd /\ s[h].nb_segs # 1
      /\ s[h].pkt_len - s[h].data_len <= rte_pktmbuf_tailroom(s, h)
      /\ Linearized(t, s, h, v, u)
  BY <1>1, <1>2 DEF rte_pktmbuf_linearize, Linearized, rte_pktmbuf_is_contiguous
<1>4. \E q : Good(t, hd, q, [C EXCEPT ![h] = <<h>>])
  BY ONLY <1>3, h \in Mbufs, LinearizeGood
<1> QED
  BY <1>1, <1>3, <1>4 DEF BufInd

LEMMA NextBuf ==
  ASSUME BufInd, [MbufNext]_mbufVars
  PROVE  BufInd'
<1>1. PICK r, C : Good(mb, held, r, C)
  BY DEF BufInd
<1>2. CASE UNCHANGED mbufVars
  BY <1>1, <1>2 DEF mbufVars, BufInd
<1>3. CASE \E m \in Mbufs : rte_pktmbuf_alloc(m)
  BY <1>1, <1>3, AllocStep
<1>4. CASE \E ms \in SUBSET Mbufs : rte_pktmbuf_alloc_bulk(ms)
  BY <1>1, <1>4, BulkStep
<1>5. CASE \E h \in Mbufs : rte_pktmbuf_free(h) \/ rte_pktmbuf_refcnt_update(h) \/ rte_pktmbuf_linearize(h)
  <2>1. PICK h \in Mbufs : rte_pktmbuf_free(h) \/ rte_pktmbuf_refcnt_update(h) \/ rte_pktmbuf_linearize(h)
    BY <1>5
  <2>2. CASE rte_pktmbuf_free(h)
    <3>1. PICK q : Good(mb', held', q, C)
      BY <1>1, <2>2, FreeStep
    <3> QED
      BY <3>1 DEF BufInd
  <2>3. CASE rte_pktmbuf_refcnt_update(h)
    BY <1>1, <2>3, RefcntStep
  <2>4. CASE rte_pktmbuf_linearize(h)
    BY <1>1, <2>4, LinearizeStep
  <2> QED
    BY <2>1, <2>2, <2>3, <2>4
<1>6. CASE \E h \in Mbufs, mp \in Pools : rte_pktmbuf_clone(h, mp) \/ CloneFails(h, mp)
  BY <1>1, <1>6, CloneActStep, CloneFailsStep
<1>7. CASE \E h \in Mbufs, len \in 1 .. MaxLen :
             \/ rte_pktmbuf_prepend(h, len) \/ rte_pktmbuf_append(h, len)
             \/ rte_pktmbuf_adj(h, len) \/ rte_pktmbuf_trim(h, len)
  BY <1>1, <1>7, PrependStep, AppendStep, AdjStep, TrimStep
<1>8. CASE \E h, g \in Mbufs : rte_pktmbuf_chain(h, g)
  BY <1>1, <1>8, ChainStep
<1> QED
  BY <1>2, <1>3, <1>4, <1>5, <1>6, <1>7, <1>8 DEF MbufNext

LEMMA BufAlways == MbufSpec => []BufInd
<1>1. MbufInit => BufInd
  BY InitBuf
<1>2. BufInd /\ [MbufNext]_mbufVars => BufInd'
  BY NextBuf
<1> QED
  BY <1>1, <1>2, PTL DEF MbufSpec

-----------------------------------------------------------------------------
(* What it implies.                                                         *)

LEMMA HeldSegs ==
  ASSUME NEW r, NEW C, Good(mb, held, r, C), NEW h \in Packets
  PROVE  /\ h \in Mbufs /\ held[h] # 0 /\ held[h] > 0 /\ Segs(mb, h) = C[h]
         /\ \A m : m \in SegSet(h) <=> In(m, C[h])
         /\ \A m \in SegSet(h) : m \in Mbufs /\ r[m] = held[h]
<1>1. h \in Mbufs /\ held[h] > 0
  BY DEF Packets
<1>2. held[h] # 0
  BY <1>1, HeldType
<1>3. /\ Segs(mb, h) = C[h] /\ (\A i \in 1 .. Len(C[h]) : C[h][i] \in Mbufs /\ r[C[h][i]] = held[h])
      /\ C[h] \in Seq(Mbufs)
  <2>1. C \in [Mbufs -> Seq(Mbufs)]
    BY DEF Good
  <2>2. Segs(mb, h) = C[h] /\ \A i \in 1 .. Len(C[h]) : C[h][i] \in Mbufs /\ r[C[h][i]] = held[h]
    BY <1>1, <1>2, HeldFacts
  <2> QED
    BY <1>1, <2>1, <2>2
<1>4. DOMAIN C[h] = 1 .. Len(C[h])
  BY <1>3
<1>5. \A m : m \in SegSet(h) <=> In(m, C[h])
  BY <1>3, <1>4 DEF SegSet, Range, In
<1>6. \A m \in SegSet(h) : m \in Mbufs /\ r[m] = held[h]
  BY <1>3, <1>5 DEF In
<1> QED
  BY <1>1, <1>2, <1>3, <1>5, <1>6

(* len bytes at off in the data of a segment.                               *)
LEMMA SegmentData ==
  ASSUME NEW r, NEW C, Good(mb, held, r, C), NEW m \in Mbufs, r[m] # 0, NEW off \in Nat, NEW len \in Nat,
         off + len <= mb[m].data_len
  PROVE  InDataRoom(rte_pktmbuf_mtod_offset(mb, m, off), len)
<1>1. MemInv(mb, r) /\ mb[m].in_pool = 0
  BY InUse DEF Good
<1>2. PICK o, addr, x : o = Own(mb, m) /\ addr = rte_pktmbuf_mtod_offset(mb, m, off) /\ x = mb[m]
  OBVIOUS
<1>3. o \in Mbufs /\ Uses(x, m, o) /\ Fits(x) /\ x \in Mbuf
  BY <1>1, <1>2 DEF MemInv
<1>4. mb[o].in_pool = 0
  <2>1. CASE o = m
    BY <1>1, <2>1
  <2>2. CASE o # m
    BY <1>1, <1>2, <2>2, Indirect
  <2> QED
    BY <2>1, <2>2
<1>5. PICK priv, room : priv = rte_pktmbuf_priv_size(pool(o)) /\ room = rte_pktmbuf_data_room_size(pool(o))
  OBVIOUS
<1>6. priv \in Nat /\ room \in Nat /\ x.data_off \in Nat /\ x.data_len \in Nat
  <2>1. priv \in Small /\ room \in Small
    BY <1>5, Sizes
  <2>2. x.data_off \in Small /\ x.data_len \in Small
    BY <1>3 DEF Mbuf
  <2> QED
    BY <2>1, <2>2, Numbers DEF Small
<1>7. addr = <<o, SizeofMbuf + priv + (x.data_off + off)>>
  <2>1. x.buf_addr = <<o, SizeofMbuf + priv>>
    BY <1>3, <1>5 DEF Uses, rte_mbuf_to_baddr
  <2> QED
    BY <1>2, <2>1 DEF rte_pktmbuf_mtod_offset, Plus
<1>8. addr[1] = o /\ addr[2] = SizeofMbuf + priv + (x.data_off + off)
  BY <1>7
<1>9. x.data_off + x.data_len <= room
  BY <1>3, <1>5 DEF Uses, Fits
<1>10. rte_mbuf_to_baddr(o)[2] = SizeofMbuf + priv
  BY <1>5 DEF rte_mbuf_to_baddr
<1>11. rte_mbuf_to_baddr(o)[2] <= addr[2]
  BY <1>6, <1>8, <1>10, Numbers
<1>12. addr[2] + len <= rte_mbuf_to_baddr(o)[2] + room
  <2>1. PICK dof, dl : dof = x.data_off /\ dl = x.data_len
    OBVIOUS
  <2>2. dof \in Nat /\ dl \in Nat /\ dof + dl <= room /\ off + len <= dl /\ addr[2] = SizeofMbuf + priv + (dof + off)
    BY <1>2, <1>6, <1>8, <1>9, <2>1
  <2> QED
    BY ONLY <1>6, <1>10, <2>2, off \in Nat, len \in Nat, Numbers
<1>13. InDataRoom(addr, len)
  BY <1>4, <1>5, <1>8, <1>11, <1>12 DEF InDataRoom
<1> QED
  BY <1>2, <1>13

LEMMA WellFormed ==
  ASSUME NEW r, NEW C, Good(mb, held, r, C)
  PROVE  PacketWellFormed
<1>1. MbufTypeOK
  BY DEF Good, MemInv, Mbuf, MbufTypeOK
<1>2. ASSUME NEW h \in Packets, NEW segs, segs = Segs(mb, h)
      PROVE  /\ mb[h].nb_segs = Len(segs) /\ mb[Last(segs)].next = NULL /\ mb[h].pkt_len = DataLen(mb, segs)
             /\ \A m \in Range(segs) :
                  /\ InDataRoom(rte_pktmbuf_mtod_offset(mb, m, 0), mb[m].data_len)
                  /\ rte_mbuf_data_iova(mb, m) = rte_pktmbuf_mtod_offset(mb, m, 0)
  <2>1. h \in Mbufs /\ held[h] # 0 /\ segs = C[h] /\ Range(segs) = SegSet(h)
    BY <1>2, HeldSegs DEF SegSet
  <2>2. Chained(mb, r, held[h], h, segs) /\ IsChain(mb, h, segs) /\ Len(segs) \in Nat \ {0}
    BY <2>1, HeldFacts
  <2>3. mb[h].nb_segs = Len(segs)
    BY <2>2 DEF Chained
  <2>4. mb[Last(segs)].next = NULL
    <3>1. Len(segs) \in 1 .. Len(segs)
      BY <2>2
    <3> QED
      BY <2>2, <3>1 DEF IsChain, Last
  <2>5. mb[h].pkt_len = DataLen(mb, segs)
    <3>1. PICK p : SumOf(mb, segs, p) /\ mb[h].pkt_len = p[Len(segs)]
      BY <2>2 DEF Chained
    <3>2. DOMAIN segs = 1 .. Len(segs) /\ Len(segs) \in Nat
      BY <2>2 DEF IsChain
    <3> QED
      BY <3>1, <3>2, SumIs
  <2>6. ASSUME NEW m \in Range(segs)
        PROVE  /\ InDataRoom(rte_pktmbuf_mtod_offset(mb, m, 0), mb[m].data_len)
               /\ rte_mbuf_data_iova(mb, m) = rte_pktmbuf_mtod_offset(mb, m, 0)
    <3>1. m \in Mbufs /\ r[m] # 0
      BY <2>1, HeldSegs
    <3>2. Uses(mb[m], m, Own(mb, m)) /\ mb[m] \in Mbuf
      BY <3>1 DEF Good, MemInv
    <3>3. mb[m].data_len \in Nat /\ mb[m].data_off \in Nat
      BY <3>2, Numbers DEF Mbuf, Small
    <3>4. 0 + mb[m].data_len <= mb[m].data_len
      BY <3>3
    <3>5. InDataRoom(rte_pktmbuf_mtod_offset(mb, m, 0), mb[m].data_len)
      BY <3>1, <3>3, <3>4, SegmentData
    <3>6. rte_mbuf_data_iova(mb, m) = rte_pktmbuf_mtod_offset(mb, m, 0)
      BY <3>2, <3>3 DEF Uses, rte_mbuf_data_iova, rte_pktmbuf_mtod_offset
    <3> QED
      BY <3>5, <3>6
  <2> QED
    BY <2>3, <2>4, <2>5, <2>6
<1>3. ASSUME NEW h \in Packets, NEW off \in 0 .. mb[h].pkt_len, NEW len \in 0 .. (mb[h].pkt_len - off), NEW p,
             p = rte_pktmbuf_read(mb, h, off, len)
      PROVE  p = <<"copy">> \/ InDataRoom(p, len)
  <2>1. h \in Mbufs /\ held[h] # 0
    BY HeldSegs
  <2>2. mb[h] \in Mbuf /\ r[h] # 0
    <3>1. mb \in [Mbufs -> Mbuf]
      BY DEF Good, MemInv
    <3>2. r[h] = held[h]
      BY <2>1, HeldFacts
    <3> QED
      BY <2>1, <3>1, <3>2
  <2>3. mb[h].pkt_len \in Nat
    BY <2>2 DEF Mbuf
  <2>4. off \in Nat /\ len \in Nat
    BY <2>3
  <2>5. CASE off + len <= mb[h].data_len
    <3>1. InDataRoom(rte_pktmbuf_mtod_offset(mb, h, off), len)
      BY <2>1, <2>2, <2>4, <2>5, SegmentData
    <3> QED
      BY <1>3, <2>5, <3>1 DEF rte_pktmbuf_read
  <2>6. CASE ~(off + len <= mb[h].data_len)
    BY <1>3, <2>6 DEF rte_pktmbuf_read
  <2> QED
    BY <2>5, <2>6
<1> QED
  BY <1>1, <1>2, <1>3 DEF PacketWellFormed

LEMMA PoolClean ==
  ASSUME NEW r, NEW C, Good(mb, held, r, C)
  PROVE  PooledIsClean
<1> SUFFICES ASSUME NEW m \in Pooled
             PROVE  /\ mb[m].refcnt = 1 /\ mb[m].next = NULL /\ mb[m].nb_segs = 1
                    /\ RTE_MBUF_DIRECT(mb, m)
                    /\ mb[m].buf_addr = rte_mbuf_to_baddr(m)
                    /\ rte_mbuf_data_iova_default(mb, m) = Plus(rte_mbuf_to_baddr(m), RTE_PKTMBUF_HEADROOM)
                    /\ mb[m].buf_len = rte_pktmbuf_data_room_size(pool(m))
                    /\ mb[m].priv_size = rte_pktmbuf_priv_size(pool(m))
                    /\ \A h \in Packets : m \notin SegSet(h)
                    /\ \A i \in Mbufs \ {m} : Owner(mb, i) # m
  BY DEF PooledIsClean
<1>1. m \in Mbufs /\ mb[m].in_pool # 0
  BY PooledIs DEF Pooled
<1>2. MemInv(mb, r) /\ Clean(mb[m], m) /\ Att(mb, m) = {}
  BY <1>1 DEF Good, MemInv
<1>3. ASSUME NEW h \in Packets PROVE m \notin SegSet(h)
  BY <1>1, Unheld, HeldSegs
<1>4. ASSUME NEW i \in Mbufs \ {m} PROVE Owner(mb, i) # m
  <2>1. Owner(mb, i) = Own(mb, i)
    BY <1>2, OwnerIs
  <2> QED
    BY <1>2, <2>1 DEF Att
<1>5. /\ mb[m].refcnt = 1 /\ mb[m].next = NULL /\ mb[m].nb_segs = 1
      /\ RTE_MBUF_DIRECT(mb, m)
      /\ mb[m].buf_addr = rte_mbuf_to_baddr(m)
      /\ rte_mbuf_data_iova_default(mb, m) = Plus(rte_mbuf_to_baddr(m), RTE_PKTMBUF_HEADROOM)
      /\ mb[m].buf_len = rte_pktmbuf_data_room_size(pool(m))
      /\ mb[m].priv_size = rte_pktmbuf_priv_size(pool(m))
  BY <1>2 DEF Clean, Uses, RTE_MBUF_DIRECT, RTE_MBUF_INDIRECT, rte_mbuf_data_iova_default
<1> QED
  BY <1>3, <1>4, <1>5

LEMMA CountsExact ==
  ASSUME NEW r, NEW C, Good(mb, held, r, C)
  PROVE  RefcntExact
<1> SUFFICES ASSUME NEW m \in Mbufs \ Pooled,
                    NEW users, users = {h \in Packets : m \in SegSet(h)},
                    NEW attached, attached = {i \in Mbufs \ {m} : Owner(mb, i) = m}
             PROVE  /\ Cardinality(users) <= 1
                    /\ mb[m].refcnt = (IF users = {} THEN 0 ELSE held[CHOOSE h \in users : TRUE])
                                      + Cardinality(attached)
                    /\ mb[m].refcnt > 0
  BY DEF RefcntExact
<1>1. m \in Mbufs /\ mb[m].in_pool = 0 /\ MemInv(mb, r)
  BY PooledIs DEF Good
<1>2. mb[m].refcnt = r[m] + Cardinality(Att(mb, m)) /\ mb[m].refcnt # 0 /\ mb[m] \in Mbuf
  BY <1>1 DEF MemInv
<1>3. attached = Att(mb, m)
  <2>1. \A i \in Mbufs : Owner(mb, i) = Own(mb, i)
    BY <1>1, OwnerIs
  <2> QED
    BY <2>1 DEF Att
<1> DEFINE one == CHOOSE h \in users : TRUE
           held_ == IF users = {} THEN 0 ELSE held[one]
<1>4. mb[m].refcnt > 0
  <2>1. mb[m].refcnt \in Small
    BY <1>2 DEF Mbuf
  <2> QED
    BY <1>2, <2>1, Numbers DEF Small
<1>5. ASSUME users = {} PROVE held_ = r[m] /\ Cardinality(users) <= 1
  <2>1. r[m] = 0
    <3>1. ASSUME r[m] # 0 PROVE FALSE
      <4>1. PICK h \in Mbufs : held[h] # 0 /\ In(m, C[h])
        BY <1>1, <3>1 DEF Good
      <4>2. held[h] > 0
        <5>1. held[h] \in 0 .. MaxHeld
          BY DEF Good
        <5> QED
          BY <4>1, <5>1, Numbers
      <4>3. h \in Packets /\ m \in SegSet(h)
        BY <4>1, <4>2, HeldSegs DEF Packets
      <4> QED
        BY <1>5, <4>3
    <3> QED
      BY <3>1
  <2>2. Cardinality(users) = 0
    BY <1>5, FS_EmptySet
  <2> QED
    BY <1>5, <2>1, <2>2
<1>6. ASSUME users # {} PROVE held_ = r[m] /\ Cardinality(users) <= 1
  <2>1. PICK h : h \in users
    BY <1>6
  <2>2. h \in Packets /\ m \in SegSet(h)
    BY <2>1
  <2>3. r[m] = held[h]
    BY <2>2, HeldSegs
  <2>4. ASSUME NEW g \in users PROVE g = h
    <3>1. g \in Packets /\ m \in SegSet(g)
      OBVIOUS
    <3>2. h \in Mbufs /\ g \in Mbufs /\ held[h] # 0 /\ held[g] # 0 /\ In(m, C[h]) /\ In(m, C[g])
      BY <2>2, <3>1, HeldSegs
    <3> QED
      BY <1>1, <3>2 DEF Good
  <2>5. users = {h}
    BY <2>1, <2>4
  <2>6. Cardinality(users) = 1 /\ one = h
    BY <2>5, FS_Singleton
  <2> HIDE DEF one
  <2> QED
    BY <1>6, <2>3, <2>6
<1> QED
  BY <1>2, <1>3, <1>4, <1>5, <1>6

LEMMA FreeKeeps ==
  ASSUME BufInd, NEW h \in Mbufs, rte_pktmbuf_free(h), NEW g \in Mbufs, held'[g] > 0
  PROVE  /\ Segs(mb', g) = Segs(mb, g)
         /\ mb'[g].pkt_len = mb[g].pkt_len
         /\ \A m \in SegSet(g) :
              /\ mb'[m].buf_addr = mb[m].buf_addr /\ mb'[m].data_off = mb[m].data_off
              /\ mb'[m].data_len = mb[m].data_len
<1>1. PICK r, C : Good(mb, held, r, C)
  BY DEF BufInd
<1>2. PICK q : Good(mb', held', q, C) /\ \A m \in Mbufs : q[m] # 0 => Same(mb', mb, m)
  BY <1>1, FreeStep
<1>3. PICK t, e : t = mb' /\ e = held'
  OBVIOUS
<1>4. Good(t, e, q, C) /\ e[g] > 0 /\ \A m \in Mbufs : q[m] # 0 => Same(t, mb, m)
  BY <1>2, <1>3
<1>5. e[g] # 0
  BY <1>4, HeldType
<1>6. Segs(t, g) = C[g] /\ q[g] = e[g] /\ \A m \in Mbufs : In(m, C[g]) => q[m] = e[g]
  BY <1>4, <1>5, HeldFacts
<1>7. held[g] > 0
  <2>1. held \in [Mbufs -> 0 .. MaxHeld] /\ held[h] > 0 /\ e = [held EXCEPT ![h] = held[h] - 1]
    BY <1>1, <1>3 DEF Good, rte_pktmbuf_free
  <2>2. held[g] \in 0 .. MaxHeld /\ e[g] \in {held[g], held[g] - 1}
    BY <2>1
  <2> QED
    BY <1>4, <2>2, Numbers
<1>8. g \in Packets
  BY <1>7 DEF Packets
<1>9. Segs(mb, g) = C[g] /\ \A m \in SegSet(g) : m \in Mbufs /\ In(m, C[g])
  BY <1>1, <1>8, HeldSegs
<1>10. t[g].pkt_len = mb[g].pkt_len
  BY <1>4, <1>5, <1>6 DEF Same
<1>11. ASSUME NEW m \in SegSet(g)
       PROVE  /\ t[m].buf_addr = mb[m].buf_addr /\ t[m].data_off = mb[m].data_off
              /\ t[m].data_len = mb[m].data_len
  BY <1>4, <1>5, <1>6, <1>9 DEF Same
<1> QED
  BY <1>3, <1>6, <1>9, <1>10, <1>11

(* For any number of mbufs in the two pools and data rooms, private areas   *)
(* and counts of any size: whatever is allocated, cloned, chained, resized, *)
(* linearized and freed, every packet held has the chain, the lengths and   *)
(* the addresses that the functions of rte_mbuf.c rely on, and its data     *)
(* lies in data rooms of mbufs in use.                                      *)
THEOREM PacketWellFormedAlways == MbufSpec => []PacketWellFormed
<1>1. BufInd => PacketWellFormed
  BY WellFormed DEF BufInd
<1> QED
  BY <1>1, BufAlways, PTL

(* An mbuf that rte_pktmbuf_free_seg or rte_pktmbuf_detach puts back is     *)
(* what MBUF_RAW_ALLOC_CHECK asserts, has its own buffer, and nothing uses  *)
(* it.                                                                      *)
THEOREM PooledIsCleanAlways == MbufSpec => []PooledIsClean
<1>1. BufInd => PooledIsClean
  BY PoolClean DEF BufInd
<1> QED
  BY <1>1, BufAlways, PTL

(* Counts are exact after every call, rte_pktmbuf_clone that runs out of    *)
(* mbufs halfway included: nothing leaks, nothing is freed early, and no    *)
(* segment is in two packets.                                               *)
THEOREM RefcntExactAlways == MbufSpec => []RefcntExact
<1>1. BufInd => RefcntExact
  BY CountsExact DEF BufInd
<1> QED
  BY <1>1, BufAlways, PTL

(* rte_pktmbuf_free of one reference leaves every packet still held as it   *)
(* was, however segments and buffers are shared.                            *)
THEOREM FreeKeepsOthersAlways == MbufSpec => FreeKeepsOthers
<1>1. BufInd =>
        [\A h \in Mbufs : rte_pktmbuf_free(h) =>
           \A g \in Mbufs : held'[g] > 0 =>
             /\ Segs(mb', g) = Segs(mb, g)
             /\ mb'[g].pkt_len = mb[g].pkt_len
             /\ \A m \in SegSet(g) :
                  /\ mb'[m].buf_addr = mb[m].buf_addr /\ mb'[m].data_off = mb[m].data_off
                  /\ mb'[m].data_len = mb[m].data_len]_mbufVars
  BY FreeKeeps
<1> QED
  BY <1>1, BufAlways, PTL DEF FreeKeepsOthers
=============================================================================

------------------------------- MODULE EthDev -------------------------------
(***************************************************************************)
(* The burst functions of src/ext/rte_ethdev.c around a transmit buffer: a *)
(* lcore receives bursts, gives the packets to the buffer of TxBuffer, and *)
(* a flush of it hands them to the driver.  The receive queue has the      *)
(* callback of examples/rxtx_callbacks.cr that stamps packets, the         *)
(* transmit queue the one that adds up their latency.  Meanwhile a monitor *)
(* asks for the state of queues, of ports that exist and of others, and    *)
(* whether packets with offloads of TxOffload could be sent there.         *)
(*                                                                         *)
(* The driver is external: it takes what its descriptors have room for.    *)
(***************************************************************************)
EXTENDS TxBuffer, TxOffload, SequencesExt

CONSTANTS
    BURST_SIZE, NbRxd, NbTxd,   \* burst of the lcore, descriptors of the queues
    RxCallbacks, TxCallbacks,   \* the callback lists of the queues
    DevPorts, nb_queues,        \* valid ports, their number of queues
    dev_ops,                    \* optional functions the driver has
    RTE_LIBRTE_ETHDEV_DEBUG,    \* built with the checks of the data path
    Word,                       \* 2^64 of the cycle counters, scaled down
    MaxClock                    \* bound: ticks of rte_rdtsc

ASSUME EthDevAssumption ==
    /\ {BURST_SIZE, NbRxd, NbTxd, Word} \subseteq Nat \ {0} /\ MaxClock \in Nat
    /\ RTE_LIBRTE_ETHDEV_DEBUG \in BOOLEAN /\ DevPorts \subseteq Nat /\ nb_queues \in Nat

VARIABLES
    arrived,   \* packets the NIC got from the wire
    rxq,       \* packets in receive descriptors
    bufs,      \* the lcore's burst, what is left of it
    txq,       \* packets in transmit descriptors
    clock,     \* rte_rdtsc
    stamp,     \* packet -> mbuf.udata64, left over from the mbuf's earlier use at first
    came,      \* packet -> when the driver gave it to the lcore
    latency,   \* total_cycles, and what it should be
    probe      \* the question the monitor just asked and where it ended

devVars == <<arrived, rxq, bufs, txq, clock, stamp, came, latency, probe>>

allVars == <<vars, devVars>>

Pkts == 1 .. MaxPkts

NoQuestion == [fn |-> "none"]

DevInit ==
    /\ Init
    /\ arrived = 0 /\ rxq = << >> /\ bufs = << >> /\ txq = {} /\ clock = 0
    /\ stamp = [p \in Pkts |-> Word - 1] /\ came = [p \in Pkts |-> 0]
    /\ latency = [total |-> 0, true |-> 0]
    /\ probe = NoQuestion

----------------------------------------------------------------------------
(* Receive.                                                                *)

\* add_timestamps, or a callback that only looks at the burst
RxCallback(cb, pkts_, stamps) ==
    IF cb = "add_timestamps"
    THEN [p \in Pkts |-> IF p \in ToSet(pkts_) THEN clock ELSE stamps[p]]
    ELSE stamps

MutRunRx(pkts_) == RxCallback(Head(RxCallbacks), pkts_, stamp)

\* the list, one callback after the other
RunRx(pkts_) == FoldLeft(LAMBDA stamps, cb : RxCallback(cb, pkts_, stamps), stamp, RxCallbacks)

rte_eth_rx_burst ==
    /\ bufs = << >>
    /\ \E n \in 1 .. BURST_SIZE :
         /\ n <= Len(rxq)
         /\ bufs' = SubSeq(rxq, 1, n) /\ rxq' = SubSeq(rxq, n + 1, Len(rxq))
         /\ stamp' = RunRx(bufs')
         /\ came' = [p \in Pkts |-> IF p \in ToSet(bufs') THEN clock ELSE came[p]]
    /\ UNCHANGED <<arrived, txq, clock, latency>> /\ probe' = NoQuestion /\ UNCHANGED vars

----------------------------------------------------------------------------
(* Transmit.  The slots of a flush go through the callbacks, then the      *)
(* driver takes the first of them.                                         *)

\* calc_latency: sums of unsigned differences
TxCallback(cb, burst, cycles) ==
    IF cb = "calc_latency"
    THEN FoldSet(LAMBDA p, sum : (sum + clock - stamp[p]) % Word, cycles, burst)
    ELSE cycles

rte_eth_tx_burst_cbs(burst) ==
    latency' = [total |-> FoldLeft(LAMBDA cycles, cb : TxCallback(cb, burst, cycles), latency.total, TxCallbacks),
                true  |-> FoldSet(LAMBDA p, sum : (sum + clock - came[p]) % Word, latency.true, burst)]

\* what leaves the buffer in this step is the burst, and what of it gets to
\* the wire needs descriptors
tx_pkt_burst ==
    LET burst == (wire' \cup freed') \ (wire \cup freed)
        taken == wire' \ wire
    IN  /\ Cardinality(taken) <= NbTxd - Cardinality(txq)
        /\ txq' = txq \cup taken
        /\ IF burst = {} THEN UNCHANGED latency ELSE rte_eth_tx_burst_cbs(burst)

\* the next packet of the burst
Forward ==
    /\ bufs # << >>
    /\ rte_eth_tx_buffer /\ tx_pkt_burst
    /\ bufs' = Tail(bufs)
    /\ UNCHANGED <<arrived, rxq, clock, stamp, came>> /\ probe' = NoQuestion

Drain ==
    /\ rte_eth_tx_buffer_flush /\ tx_pkt_burst
    /\ UNCHANGED <<arrived, rxq, bufs, clock, stamp, came>> /\ probe' = NoQuestion

----------------------------------------------------------------------------
(* The NIC and time.                                                       *)

NicReceives ==
    /\ arrived < MaxPkts /\ Len(rxq) < NbRxd
    /\ arrived' = arrived + 1 /\ rxq' = Append(rxq, arrived + 1)
    /\ UNCHANGED <<bufs, txq, clock, stamp, came, latency>> /\ probe' = NoQuestion /\ UNCHANGED vars

NicSends ==
    /\ \E p \in txq : txq' = txq \ {p}
    /\ UNCHANGED <<arrived, rxq, bufs, clock, stamp, came, latency>> /\ probe' = NoQuestion /\ UNCHANGED vars

Tick ==
    /\ clock < MaxClock /\ clock' = clock + 1
    /\ UNCHANGED <<arrived, rxq, bufs, txq, stamp, came, latency>> /\ probe' = NoQuestion /\ UNCHANGED vars

----------------------------------------------------------------------------
(* Questions about a queue: the code returned, or "driver" when the        *)
(* driver's function is called for the queue.                              *)

RTE_ETH_VALID_PORTID(port_id) == port_id \in DevPorts

rte_eth_rx_queue_count(port_id, queue_id) ==
    IF ~RTE_ETH_VALID_PORTID(port_id) THEN "-EINVAL"
    ELSE IF "rx_queue_count" \notin dev_ops THEN "-ENOTSUP"
    ELSE IF queue_id >= nb_queues THEN "-EINVAL" ELSE "driver"

\* the queue is not looked at
rte_eth_rx_descriptor_done(port_id, queue_id) ==
    IF ~RTE_ETH_VALID_PORTID(port_id) THEN "-ENODEV"
    ELSE IF "rx_descriptor_done" \notin dev_ops THEN "-ENOTSUP" ELSE "driver"

\* the checks of the data path are left out of other builds
Invalid(port_id, queue_id) ==
    RTE_LIBRTE_ETHDEV_DEBUG /\ (~RTE_ETH_VALID_PORTID(port_id) \/ queue_id >= nb_queues)

DescriptorStatus(op, port_id, queue_id) ==
    IF Invalid(port_id, queue_id) THEN "-ENODEV"
    ELSE IF op \notin dev_ops THEN "-ENOTSUP" ELSE "driver"

rte_eth_rx_descriptor_status(port_id, queue_id) ==
    DescriptorStatus("rx_descriptor_status", port_id, queue_id)

rte_eth_tx_descriptor_status(port_id, queue_id) ==
    DescriptorStatus("tx_descriptor_status", port_id, queue_id)

\* the head of rx_burst and of tx_burst
BurstChecks(port_id, queue_id) == IF Invalid(port_id, queue_id) THEN "0" ELSE "driver"

\* a driver that prepares packets stops at one the check refuses
tx_pkt_prepare(m) == IF rte_validate_tx_offload(m) = "0" THEN "driver" ELSE "0"

\* packets are left as they are when the driver has no tx_pkt_prepare
rte_eth_tx_prepare(port_id, queue_id, m) ==
    IF Invalid(port_id, queue_id) THEN "0"
    ELSE IF "tx_pkt_prepare" \notin dev_ops THEN "nb_pkts" ELSE tx_pkt_prepare(m)

Answer(fn, port_id, queue_id) ==
    CASE fn = "rx_queue_count"       -> rte_eth_rx_queue_count(port_id, queue_id)
      [] fn = "rx_descriptor_done"   -> rte_eth_rx_descriptor_done(port_id, queue_id)
      [] fn = "rx_descriptor_status" -> rte_eth_rx_descriptor_status(port_id, queue_id)
      [] fn = "tx_descriptor_status" -> rte_eth_tx_descriptor_status(port_id, queue_id)
      [] fn = "burst"                -> BurstChecks(port_id, queue_id)

Questions == {"rx_queue_count", "rx_descriptor_done", "rx_descriptor_status", "tx_descriptor_status", "burst"}

\* before any traffic: the answers do not depend on it
Quiet ==
    /\ given = 0 /\ arrived = 0 /\ clock = 0 /\ probe = NoQuestion
    /\ UNCHANGED <<arrived, rxq, bufs, txq, clock, stamp, came, latency>> /\ UNCHANGED vars

Ask ==
    /\ Quiet
    /\ \E fn \in Questions, port_id \in 0 .. Cardinality(DevPorts), queue_id \in 0 .. nb_queues :
         probe' = [fn |-> fn, port |-> port_id, queue |-> queue_id, ret |-> Answer(fn, port_id, queue_id)]

\* a packet whose first segment holds data_len bytes, each of its headers being
\* one byte long, for which the application asks for layer 4 checksum l4
Packet(flags, l4, data_len, tso_segsz) ==
    [ol_flags |-> UNION {PKT_TX[f] : f \in flags \cup {l4}}, data_len |-> data_len, tso_segsz |-> tso_segsz,
     outer_l2_len |-> 1, outer_l3_len |-> 1, l2_len |-> 1, l3_len |-> 1, l4_len |-> 1]

Flags == {"IP_CKSUM", "TCP_SEG", "UDP_SEG", "IPV4", "IPV6", "VLAN", "TUNNEL_GRE", "OUTER_IP_CKSUM", "OUTER_IPV4"}

AskPrepare ==
    /\ Quiet
    /\ \E port_id \in 0 .. Cardinality(DevPorts), queue_id \in 0 .. nb_queues, flags \in SUBSET Flags,
         l4 \in {"L4_NO_CKSUM", "TCP_CKSUM", "SCTP_CKSUM", "UDP_CKSUM"}, data_len \in 2 .. 5, tso_segsz \in 0 .. 1 :
         probe' = [fn |-> "tx_prepare", port |-> port_id, queue |-> queue_id,
                   flags |-> flags, l4 |-> l4, data_len |-> data_len, tso_segsz |-> tso_segsz,
                   ret |-> rte_eth_tx_prepare(port_id, queue_id, Packet(flags, l4, data_len, tso_segsz))]

DevNext == rte_eth_rx_burst \/ Forward \/ Drain \/ NicReceives \/ NicSends \/ Tick \/ Ask \/ AskPrepare

DevSpec == DevInit /\ [][DevNext]_allVars

----------------------------------------------------------------------------
(* Properties.                                                             *)

\* The latency calc_latency adds up is that of the packets it was shown, from
\* the burst that delivered each: no packet gets past the receive callbacks
\* without a stamp, whatever stands before add_timestamps in the list, so no
\* stamp left over in a reused mbuf makes an unsigned difference wrap.
LatencyReal == latency.total = latency.true

\* Some offload feature is asked for: any flag but those that say what a header is.
AsksOffload(q) == q.l4 # "L4_NO_CKSUM" \/ ~(q.flags \subseteq {"IPV4", "IPV6", "OUTER_IPV4"})

\* What the descriptions in rte_mbuf.c demand of the settings of a packet, taken
\* one by one: its headers lie in the first segment (1899); TCP segmentation and
\* layer 4 checksums name the IP (228, 246), as one of the two (266-279); an IP
\* checksum comes with IPV4 (258-259, 267-268), since only IPv4 has one (1903);
\* TCP_SEG has a size and, over IPv4, IP_CKSUM (229-231); UDP_SEG has a size
\* (184-188); an outer checksum names the outer IPv4 (290-291).
Demands == {"headers", "ip_named", "one_ip", "cksum_ipv4", "cksum_not_ipv6", "tso", "ufo_size", "outer_ipv4"}

Meets(q, demand) ==
    LET headers == {"l2", "l3", "l4"} \cup (IF "OUTER_IP_CKSUM" \in q.flags THEN {"outer_l2", "outer_l3"} ELSE {})
        overIP == q.l4 # "L4_NO_CKSUM" \/ "TCP_SEG" \in q.flags
    IN  /\ demand = "headers" => (AsksOffload(q) => Cardinality(headers) <= q.data_len)
        /\ demand = "ip_named" => (overIP => "IPV4" \in q.flags \/ "IPV6" \in q.flags)
        /\ demand = "one_ip" => (overIP => ~({"IPV4", "IPV6"} \subseteq q.flags))
        /\ demand = "cksum_ipv4" => ("IP_CKSUM" \in q.flags => "IPV4" \in q.flags)
        /\ demand = "cksum_not_ipv6" => ("IP_CKSUM" \in q.flags => "IPV6" \notin q.flags)
        /\ demand = "tso" => ("TCP_SEG" \in q.flags =>
                                q.tso_segsz > 0 /\ ("IPV4" \in q.flags => "IP_CKSUM" \in q.flags))
        /\ demand = "ufo_size" => ("UDP_SEG" \in q.flags => q.tso_segsz > 0)
        /\ demand = "outer_ipv4" => ("OUTER_IP_CKSUM" \in q.flags => "OUTER_IPV4" \in q.flags)

Unmet(q) == {d \in Demands : ~Meets(q, d)}

\* The demands the check does not make although the descriptions do: an IP
\* checksum may come without IPV4, a packet may be both kinds of IP, and UDP_SEG,
\* missing from the mask "of all supported packet Tx offload features flags"
\* (313-316), is not looked at, nor are the headers of a packet that asks for
\* nothing else.
Overlooked(q) ==
    {"one_ip", "cksum_ipv4", "ufo_size"}
    \cup (IF q.l4 = "L4_NO_CKSUM" /\ q.flags \subseteq {"UDP_SEG", "IPV4", "IPV6", "OUTER_IPV4"}
          THEN {"headers"} ELSE {})

\* In a build with the checks the driver is reached only for a valid port and
\* an existing queue (rx_descriptor_done never looks at the queue).  Through
\* tx_prepare it gets each packet that is set as the descriptions demand, and of
\* the others those only that fall short of a demand that is overlooked, although
\* the check reads bits that several values of a field share.
DriverGetsValid ==
    /\ probe.fn # "none" /\ probe.ret = "driver" /\ RTE_LIBRTE_ETHDEV_DEBUG =>
         /\ probe.port \in DevPorts
         /\ probe.queue < nb_queues \/ probe.fn = "rx_descriptor_done"
    /\ probe.fn = "tx_prepare" /\ probe.port \in DevPorts /\ probe.queue < nb_queues =>
         (probe.ret = "driver" <=> Unmet(probe) \subseteq Overlooked(probe))
=============================================================================

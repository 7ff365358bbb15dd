---------------------------- MODULE LoadBalancer ----------------------------
(***************************************************************************)
(* examples/load_balancer: an I/O lcore receives from the NIC queues and   *)
(* spreads packets over worker lcores by a byte of their header; a worker  *)
(* looks the destination up in the LPM table and hands the packet back,    *)
(* through one ring per worker and port, to the I/O lcore that transmits.  *)
(* All rings are single producer, single consumer and are used in bulks:   *)
(* all or nothing.  Packets are numbered; numbers go up in the order a     *)
(* port receives them.  An enqueue or dequeue is one step (what RteRing    *)
(* shows), and so is everything a lcore does between two of them.          *)
(***************************************************************************)
EXTENDS RteLpm

CONSTANTS
    n_workers,      \* number of worker lcores; mask & (n_workers - 1) needs a power of two
    Ports,          \* NIC ports of the machine
    nic_ports,      \* ports the I/O lcore transmits through, a sequence
    nic_queues,     \* <<port, queue>> the I/O lcore receives from, a sequence
    Packets,        \* [lb, ip, port, type] of each packet, a sequence
    bsz_rx_rd, bsz_rx_wr, bsz_rd, bsz_wr, bsz_tx_rd, bsz_tx_wr,
    RingRoom,       \* usable size of every ring
    APP_LCORE_IO_FLUSH, APP_LCORE_WORKER_FLUSH,
    RuleSet,        \* rules a configuration may hold
    MaxRules,       \* bound: rules of a configuration
    RunRules        \* bound: the rule lists the packets are run with

\* the flow types that RSS tells apart, each a bit of rss_hf
ETH_RSS ==
    {"IPV4", "FRAG_IPV4", "NONFRAG_IPV4_TCP", "NONFRAG_IPV4_UDP", "NONFRAG_IPV4_SCTP", "NONFRAG_IPV4_OTHER",
     "IPV6", "FRAG_IPV6", "NONFRAG_IPV6_TCP", "NONFRAG_IPV6_UDP", "NONFRAG_IPV6_SCTP", "NONFRAG_IPV6_OTHER",
     "L2_PAYLOAD", "IPV6_EX", "IPV6_TCP_EX", "IPV6_UDP_EX", "PORT", "VXLAN", "GENEVE", "NVGRE"}

\* what app_init_nics asks for: packets known to be TCP, UDP or SCTP are not in it
ETH_RSS_IP ==
    {"IPV4", "FRAG_IPV4", "NONFRAG_IPV4_OTHER", "IPV6", "FRAG_IPV6", "NONFRAG_IPV6_OTHER", "IPV6_EX"}

ASSUME LoadBalancerAssumption ==
    /\ Packets \in Seq([lb : Nat, ip : Ips, port : Ports, type : ETH_RSS])
    /\ RuleSet \subseteq [ip : Ips, depth : 1 .. IpBits, if_out : 0 .. pow2[HopBits] - 1]
    /\ (\E k \in 0 .. 5 : n_workers = pow2[k]) /\ RingRoom \in Nat
    /\ {bsz_rx_rd, bsz_rx_wr, bsz_rd, bsz_wr, bsz_tx_rd, bsz_tx_wr} \subseteq Nat \ {0}
    /\ nic_queues \in Seq(Ports \X Nat) /\ nic_ports \in Seq(Ports) /\ nic_ports # << >>

Workers == 0 .. n_workers - 1

Ids == 1 .. Len(Packets)

VARIABLES
    phase,    \* "init", "ready", "run", "fail"
    rules,    \* rules of the configuration in order
    lpm,      \* the LPM table of the workers
    nic,      \* <<port, queue>> -> packets still to be received
    io,       \* I/O lcore: pc, i, position k, packets of the burst to hand on
    wk,       \* worker -> i, packets of the bulk to look up
    rx_out, w_out, tx_out,   \* the mbuf_out arrays with their mbuf_out_flush
    rx_ring, tx_ring,        \* worker -> ring, <<port, worker>> -> ring
    sent,     \* port -> packets the NIC took
    freed     \* packets given to rte_pktmbuf_free

vars == <<phase, rules, lpm, nic, io, wk, rx_out, w_out, tx_out, rx_ring, tx_ring, sent, freed>>

Lists(seq) == {seq[i] : i \in DOMAIN seq}

\* ports with nic_tx_port_mask set
nic_tx_ports == Lists(nic_ports)

Pairs == nic_tx_ports \X Workers

Empty(flush) == [array |-> << >>, flush |-> flush]

app_get_nic_rx_queues_per_port(port) == Cardinality({q \in Lists(nic_queues) : q[1] = port})

\* the NIC's choice: by a hash of the addresses or, for other types, the first
RssQueue(packet) ==
    <<packet.port, IF packet.type \in ETH_RSS_IP
                   THEN packet.ip % app_get_nic_rx_queues_per_port(packet.port) ELSE 0>>

\* packets come in by queues that were set up
ASSUME QueuesAssumption == \A i \in Ids : RssQueue(Packets[i]) \in Lists(nic_queues)

\* a set of numbers in order
Ascending(S) == CHOOSE s \in [1 .. Cardinality(S) -> S] : \A i, j \in DOMAIN s : i < j => s[i] < s[j]

Init ==
    /\ phase = "init" /\ rules = << >> /\ lpm = << >>
    /\ nic = [q \in Lists(nic_queues) |-> Ascending({i \in Ids : RssQueue(Packets[i]) = q})]
    /\ io = [pc |-> "rx", i |-> 0, k |-> 1, burst |-> << >>]
    /\ wk = [w \in Workers |-> [i |-> 0, bulk |-> << >>]]
    /\ rx_out = [w \in Workers |-> Empty(0)]
    /\ w_out = [x \in Ports \X Workers |-> Empty(0)]
    /\ tx_out = [p \in Ports |-> Empty(0)]
    /\ rx_ring = [w \in Workers |-> << >>] /\ tx_ring = [x \in Pairs |-> << >>]
    /\ sent = [p \in Ports |-> << >>] /\ freed = {}

----------------------------------------------------------------------------
(* Configuration.                                                          *)

MutCheckLpm == TRUE

app_check_lpm_table == \A i \in DOMAIN rules : rules[i].if_out \in nic_tx_ports

app_check_every_rx_port_is_tx_enabled ==
    \A port \in Ports : app_get_nic_rx_queues_per_port(port) > 0 => port \in nic_tx_ports

AddRule ==
    /\ phase = "init" /\ Len(rules) < MaxRules
    /\ \E r \in RuleSet : rules' = Append(rules, r)
    /\ UNCHANGED <<phase, lpm, nic, io, wk, rx_out, w_out, tx_out, rx_ring, tx_ring, sent, freed>>

app_init_lpm_tables == lpm' = rte_lpm(rules)

\* the checks of the configuration, then the tables and rings are made
Configure ==
    /\ phase = "init"
    /\ IF app_check_lpm_table /\ app_check_every_rx_port_is_tx_enabled
       THEN app_init_lpm_tables /\ phase' = "ready"
       ELSE phase' = "fail" /\ UNCHANGED lpm
    /\ UNCHANGED <<rules, nic, io, wk, rx_out, w_out, tx_out, rx_ring, tx_ring, sent, freed>>

\* the lcores enter their main loops
Launch ==
    /\ phase = "ready" /\ rules \in RunRules
    /\ phase' = "run"
    /\ UNCHANGED <<rules, lpm, nic, io, wk, rx_out, w_out, tx_out, rx_ring, tx_ring, sent, freed>>

----------------------------------------------------------------------------
(* The I/O lcore.                                                          *)

Fits(ring, array) == Len(ring) + Len(array) <= RingRoom

\* rte_ring_sp_enqueue_bulk of a whole array; on refusal all of it is freed
EnqueueOrFree(ring, array) == IF Fits(ring, array) THEN ring \o array ELSE ring

Refused(ring, array) == IF Fits(ring, array) THEN {} ELSE Lists(array)

MutBufferToSend(worker, mbuf) ==
    LET array == Append(rx_out[worker].array, mbuf)
    IN  IF Len(array) < bsz_rx_wr
        THEN rx_out' = [rx_out EXCEPT ![worker].array = array] /\ UNCHANGED <<rx_ring, freed>>
        ELSE /\ rx_ring' = [rx_ring EXCEPT ![worker] = EnqueueOrFree(@, array)]
             /\ rx_out' = [rx_out EXCEPT ![worker] = Empty(0)] /\ UNCHANGED freed

app_lcore_io_rx_buffer_to_send(worker, mbuf) ==
    LET array == Append(rx_out[worker].array, mbuf)
    IN  IF Len(array) < bsz_rx_wr
        THEN rx_out' = [rx_out EXCEPT ![worker].array = array] /\ UNCHANGED <<rx_ring, freed>>
        ELSE /\ rx_ring' = [rx_ring EXCEPT ![worker] = EnqueueOrFree(@, array)]
             /\ freed' = freed \cup Refused(rx_ring[worker], array)
             /\ rx_out' = [rx_out EXCEPT ![worker] = Empty(0)]

MutPipeline(array) ==
    LET n == Len(array)
        pairs == IF n > 3 THEN 2 * ((n - 2) \div 2) ELSE 0
        tail == SubSeq(array, pairs + 1, n)
    IN  SubSeq(array, 1, pairs) \o IF Len(tail) = 3 THEN <<tail[1], tail[3], tail[2]>> ELSE tail

\* The order in which the software pipeline hands a burst on: in pairs, two
\* packets of lookahead in mbuf_1_x and two in mbuf_2_x, while j + 3 < n_mbufs;
\* then what the four registers hold, shifted down one by one.
Pipeline(array) ==
    LET n == Len(array)
        a(x) == IF x < n THEN array[x + 1] ELSE 0
        rounds == Cardinality({j \in 0 .. n : j % 2 = 0 /\ j + 3 < n})
        mbuf_0_0(r) == a(2 * r)  mbuf_0_1(r) == a(2 * r + 1)
        registers == <<a(2 * rounds), a(2 * rounds + 1), a(2 * rounds + 2), a(2 * rounds + 3)>>
    IN  [x \in 1 .. 2 * rounds |-> IF x % 2 = 1 THEN mbuf_0_0((x - 1) \div 2)
                                               ELSE mbuf_0_1((x - 2) \div 2)]
        \o SubSeq(registers, 1, n - 2 * rounds)

IoRest == <<phase, rules, lpm, wk, w_out>>

At(pc) == phase = "run" /\ io.pc = pc

\* a burst from the next queue; no packet, and on to the one after it
app_lcore_io_rx ==
    /\ At("rx") /\ io.i < APP_LCORE_IO_FLUSH /\ io.burst = << >>
    /\ IF io.k > Len(nic_queues)
       THEN io' = [io EXCEPT !.pc = "tx", !.k = 1] /\ UNCHANGED nic
       ELSE LET queue == nic_queues[io.k]
            IN  \E n \in 0 .. bsz_rx_rd :
                  /\ n <= Len(nic[queue])
                  /\ io' = [io EXCEPT !.k = @ + 1, !.burst = Pipeline(SubSeq(nic[queue], 1, n))]
                  /\ nic' = [nic EXCEPT ![queue] = SubSeq(@, n + 1, Len(@))]
    /\ UNCHANGED <<rx_out, tx_out, rx_ring, tx_ring, sent, freed>> /\ UNCHANGED IoRest

HandOn ==
    /\ At("rx") /\ io.burst # << >>
    /\ app_lcore_io_rx_buffer_to_send(Packets[Head(io.burst)].lb % n_workers, Head(io.burst))
    /\ io' = [io EXCEPT !.burst = Tail(@)]
    /\ UNCHANGED <<nic, tx_out, tx_ring, sent>> /\ UNCHANGED IoRest

Skips(out) == out.flush = 0 \/ out.array = << >>

MutRxFlush ==
    LET do == {w \in Workers : ~Skips(rx_out[w])}
    IN  /\ rx_ring' = [w \in Workers |-> IF w \in do THEN EnqueueOrFree(rx_ring[w], rx_out[w].array)
                                                     ELSE rx_ring[w]]
        /\ rx_out' = [w \in Workers |-> IF w \in do THEN Empty(0) ELSE rx_out[w]]

app_lcore_io_rx_flush ==
    LET do == {w \in Workers : ~Skips(rx_out[w])}
    IN  /\ rx_ring' = [w \in Workers |-> IF w \in do THEN EnqueueOrFree(rx_ring[w], rx_out[w].array)
                                                     ELSE rx_ring[w]]
        /\ rx_out' = [w \in Workers |-> IF w \in do THEN Empty(1) ELSE [rx_out[w] EXCEPT !.flush = 1]]

RxFlushRefused == UNION {Refused(rx_ring[w], rx_out[w].array) : w \in {v \in Workers : ~Skips(rx_out[v])}}

\* a port that is named twice has its flag set by the first visit for the second
TxSkips(p) ==
    \/ tx_out[p].array = << >>
    \/ tx_out[p].flush = 0 /\ Cardinality({i \in DOMAIN nic_ports : nic_ports[i] = p}) = 1

\* for each port the NIC takes the first n packets, the rest is freed
app_lcore_io_tx_flush(n) ==
    /\ sent' = [p \in Ports |-> sent[p] \o SubSeq(tx_out[p].array, 1, n[p])]
    /\ tx_out' = [p \in Ports |-> IF p \notin nic_tx_ports THEN tx_out[p]
                                  ELSE IF TxSkips(p) THEN [tx_out[p] EXCEPT !.flush = 1]
                                  ELSE Empty(1)]

TxFlushFreed(n) ==
    UNION {Lists(SubSeq(tx_out[p].array, n[p] + 1, Len(tx_out[p].array))) :
             p \in {q \in nic_tx_ports : ~TxSkips(q)}}

IoFlush ==
    /\ At("rx") /\ io.i = APP_LCORE_IO_FLUSH /\ io.k = 1 /\ io.burst = << >>
    /\ app_lcore_io_rx_flush
    /\ \E n \in [Ports -> 0 .. bsz_tx_wr] :
         /\ \A p \in Ports : n[p] <= IF p \in nic_tx_ports /\ ~TxSkips(p) THEN Len(tx_out[p].array) ELSE 0
         /\ app_lcore_io_tx_flush(n)
         /\ freed' = freed \cup RxFlushRefused \cup TxFlushFreed(n)
    /\ io' = [io EXCEPT !.i = 0]
    /\ UNCHANGED <<nic, tx_ring>> /\ UNCHANGED IoRest

\* the k-th turn of the two loops, workers outside and ports inside
TxTurn(k) == <<nic_ports[((k - 1) % Len(nic_ports)) + 1], (k - 1) \div Len(nic_ports)>>

app_lcore_io_tx ==
    LET x == TxTurn(io.k)
        port == x[1]
        array == tx_out[port].array \o SubSeq(tx_ring[x], 1, bsz_tx_rd)
    IN  /\ At("tx")
        /\ io' = IF io.k = Len(nic_ports) * n_workers
                 THEN [io EXCEPT !.pc = "rx", !.k = 1, !.i = @ + 1] ELSE [io EXCEPT !.k = @ + 1]
        /\ IF Len(tx_ring[x]) < bsz_tx_rd THEN UNCHANGED <<tx_ring, tx_out, sent, freed>>
           ELSE /\ tx_ring' = [tx_ring EXCEPT ![x] = SubSeq(@, bsz_tx_rd + 1, Len(@))]
                /\ IF Len(array) < bsz_tx_wr
                   THEN tx_out' = [tx_out EXCEPT ![port].array = array] /\ UNCHANGED <<sent, freed>>
                   ELSE \E n \in 0 .. Len(array) :
                          /\ sent' = [sent EXCEPT ![port] = @ \o SubSeq(array, 1, n)]
                          /\ freed' = freed \cup Lists(SubSeq(array, n + 1, Len(array)))
                          /\ tx_out' = [tx_out EXCEPT ![port] = Empty(0)]
        /\ UNCHANGED <<nic, rx_out, rx_ring>> /\ UNCHANGED IoRest

----------------------------------------------------------------------------
(* A worker lcore.                                                         *)

WorkerRest == <<phase, rules, lpm, nic, io, rx_out, tx_out, sent>>

\* where a packet goes: its own port when the lookup misses
Route(id) ==
    LET found == rte_lpm_lookup(lpm, Packets[id].ip)
    IN  IF found.ret = "0" THEN found.next_hop ELSE Packets[id].port

\* a bulk from the ring in, or an idle turn
app_lcore_worker(w) ==
    /\ phase = "run" /\ wk[w].bulk = << >> /\ wk[w].i < APP_LCORE_WORKER_FLUSH
    /\ IF Len(rx_ring[w]) < bsz_rd
       THEN wk' = [wk EXCEPT ![w].i = @ + 1] /\ UNCHANGED rx_ring
       ELSE /\ wk' = [wk EXCEPT ![w] = [i |-> @.i + 1, bulk |-> SubSeq(rx_ring[w], 1, bsz_rd)]]
            /\ rx_ring' = [rx_ring EXCEPT ![w] = SubSeq(@, bsz_rd + 1, Len(@))]
    /\ UNCHANGED <<w_out, tx_ring, freed>> /\ UNCHANGED WorkerRest

\* one packet of the bulk
WorkerPacket(w) ==
    /\ phase = "run" /\ wk[w].bulk # << >>
    /\ LET id == Head(wk[w].bulk)
           x == <<Route(id), w>>
           array == Append(w_out[x].array, id)
       IN  IF Len(array) < bsz_wr
           THEN w_out' = [w_out EXCEPT ![x].array = array] /\ UNCHANGED <<tx_ring, freed>>
           ELSE /\ tx_ring' = [tx_ring EXCEPT ![x] = EnqueueOrFree(@, array)]
                /\ freed' = freed \cup Refused(tx_ring[x], array)
                /\ w_out' = [w_out EXCEPT ![x] = Empty(0)]
    /\ wk' = [wk EXCEPT ![w].bulk = Tail(@)]
    /\ UNCHANGED rx_ring /\ UNCHANGED WorkerRest

app_lcore_worker_flush(w) ==
    LET do == {x \in Pairs : x[2] = w /\ ~Skips(w_out[x])}
    IN  /\ phase = "run" /\ wk[w].bulk = << >> /\ wk[w].i = APP_LCORE_WORKER_FLUSH
        /\ tx_ring' = [x \in Pairs |-> IF x \in do THEN EnqueueOrFree(tx_ring[x], w_out[x].array)
                                                   ELSE tx_ring[x]]
        /\ freed' = freed \cup UNION {Refused(tx_ring[x], w_out[x].array) : x \in do}
        /\ w_out' = [x \in DOMAIN w_out |-> IF x \in do THEN Empty(1)
                                            ELSE IF x \in Pairs /\ x[2] = w THEN [w_out[x] EXCEPT !.flush = 1]
                                            ELSE w_out[x]]
        /\ wk' = [wk EXCEPT ![w].i = 0]
        /\ UNCHANGED rx_ring /\ UNCHANGED WorkerRest

IoLcore == app_lcore_io_rx \/ HandOn \/ IoFlush \/ app_lcore_io_tx

WorkerLcore(w) == app_lcore_worker(w) \/ WorkerPacket(w) \/ app_lcore_worker_flush(w)

Next == AddRule \/ Configure \/ Launch \/ IoLcore \/ \E w \in Workers : WorkerLcore(w)

Spec == Init /\ [][Next]_vars /\ WF_vars(IoLcore) /\ \A w \in Workers : WF_vars(WorkerLcore(w))

----------------------------------------------------------------------------
(* Properties.                                                             *)

\* Both lookups find the deepest rule that covers an address, the later of two
\* with the same prefix, and say so when there is none, whether the answer is
\* in tbl24 or behind a group of tbl8.
LpmLongest ==
    phase = "ready" =>
      \A ip \in Ips :
        LET covering == {i \in DOMAIN rules : Covers(rules[i], ip)}
            found == rte_lpm_lookup(lpm, ip)
            bulk == rte_lpm_lookup_bulk_func(lpm, <<0, ip>>)[2]
        IN  /\ (found.ret = "0") = (covering # {})
            /\ RTE_LPM_LOOKUP_SUCCESS(bulk) = (covering # {})
            /\ covering # {} =>
                 \E i \in covering :
                   /\ \A j \in covering : rules[j].depth <= rules[i].depth
                   /\ \A j \in covering : rules[j].depth = rules[i].depth => j <= i
                   /\ found.next_hop = rules[i].if_out /\ NextHop(bulk) = rules[i].if_out

\* Every packet is in one place: not yet received, in a burst or bulk, in one
\* of the output arrays, in a ring, transmitted, or freed.  So a bulk a full
\* ring refused, and the tail of a burst the NIC did not take, are freed whole
\* and once.
PacketOnce ==
    LET all == {<<"nic", q, nic[q]>> : q \in DOMAIN nic} \cup {<<"burst", 0, io.burst>>}
               \cup {<<"bulk", w, wk[w].bulk>> : w \in Workers}
               \cup {<<"rx", w, rx_out[w].array>> : w \in Workers}
               \cup {<<"rxring", w, rx_ring[w]>> : w \in Workers}
               \cup {<<"tx", p, tx_out[p].array>> : p \in Ports}
               \cup {<<"sent", p, sent[p]>> : p \in Ports}
               \cup {<<"wout", x, w_out[x].array>> : x \in DOMAIN w_out}
               \cup {<<"txring", x, tx_ring[x]>> : x \in Pairs}
    IN  \A id \in Ids :
          LET where == {l \in all : id \in Lists(l[3])}
          IN  /\ Cardinality(where) = IF id \in freed THEN 0 ELSE 1
              /\ \A l \in where : Cardinality({i \in DOMAIN l[3] : l[3][i] = id}) = 1

\* A packet waits, and is transmitted, only for the port of the deepest rule
\* that covers its address, or for its own port when there is none; and that
\* port has a ring and is transmitted from.
RoutedLongest ==
    LET Goal(id) == LET best == Best(rules, Packets[id].ip, 0 .. IpBits)
                    IN  IF best = 0 THEN Packets[id].port ELSE rules[best].if_out
    IN  /\ \A x \in DOMAIN w_out, id \in Ids :
             id \in Lists(w_out[x].array) => Goal(id) = x[1] /\ x[1] \in nic_tx_ports
        /\ \A p \in Ports : \A id \in Lists(tx_out[p].array \o sent[p]) : Goal(id) = p

\* Two packets that came by one queue, as any two of one flow do, and went
\* through the same worker leave a port in the order they came in, whatever was
\* dropped between them.
FlowOrder ==
    \A p \in Ports : \A i, j \in DOMAIN sent[p] :
      LET a == Packets[sent[p][i]]  b == Packets[sent[p][j]]
      IN  i < j /\ RssQueue(a) = RssQueue(b) /\ a.lb % n_workers = b.lb % n_workers => sent[p][i] < sent[p][j]

\* An output array does not keep packets for ever: it is emptied by a bulk or,
\* at the latest, by the second flush after it got the first of them.
ArraysFlushed ==
    /\ \A w \in Workers : []<>(rx_out[w].array = << >>)
    /\ \A x \in Pairs : []<>(w_out[x].array = << >>)
    /\ \A p \in nic_tx_ports : []<>(tx_out[p].array = << >>)
=============================================================================

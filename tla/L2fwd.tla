-------------------------------- MODULE L2fwd --------------------------------
(***************************************************************************)
(* The layer 2 forwarding example, src/examples/l2fwd.cr: main pairs the   *)
(* ports, gives them to lcores, waits for the links to come up and         *)
(* launches the lcores; each lcore polls its ports, rewrites the addresses *)
(* and buffers each packet for the paired port, and flushes the buffers    *)
(* when the drain interval has passed.  All lcores run l2fwd_main_loop on  *)
(* the one instance of the class, so that @pkts_burst is a single array    *)
(* they share.                                                             *)
(*                                                                         *)
(* A packet is <<port it was received on, its number there>>.              *)
(***************************************************************************)
EXTENDS LcoreIds, Sequences, FiniteSets, SequencesExt

CONSTANTS
  NbPorts,         \* rte_eth_dev_count
  Enabled,         \* lcores enabled by the EAL
  QueuePerLcore,   \* @l2fwd_rx_queue_per_lcore, -q
  MacUpdating,     \* @mac_updating
  MAX_PKT_BURST,   \* also the size of a transmit buffer
  DrainTicks,      \* drain_tsc; an iteration of the loop takes at least one tick
  max_check_time,  \* passes of the link check, 90 in the source
  MaxRx            \* bound: packets that arrive, at all ports together

ASSUME L2fwdAssumption ==
  /\ {NbPorts, RTE_MAX_LCORE, MAX_PKT_BURST, max_check_time} \subseteq Nat \ {0}
  /\ {QueuePerLcore, DrainTicks, MaxRx} \subseteq Nat
  /\ Enabled \subseteq 0 .. (RTE_MAX_LCORE - 1)
  /\ MacUpdating \in BOOLEAN

VARIABLES
  portmask,    \* @portmask, as a set
  dst_ports,   \* @l2fwd_dst_ports
  qconf,       \* @lcore_queue_conf: the ports of each lcore, in order
  pkts_burst,  \* @pkts_burst
  mac,         \* the packets' destination address, as the port it names
  tx_buffer,   \* @tx_buffer: the packets buffered for each port
  wire,        \* what was sent on each port: packet and destination address
  freed,       \* packets dropped by the error callback, per port
  rx,          \* @port_statistics[port].rx
  tx,          \* @port_statistics[port].tx
  force_quit,  \* @force_quit
  lcore,       \* the locals of l2fwd_main_loop on each lcore
  main         \* where main is, and the locals of check_all_ports_link_status

vars == <<portmask, dst_ports, qconf, pkts_burst, mac, tx_buffer, wire, freed, rx, tx,
          force_quit, lcore, main>>

Ports == 0 .. (NbPorts - 1)
Packets == Ports \X (1 .. MaxRx)
NoPacket == <<>>

-----------------------------------------------------------------------------
(* main: the tables it builds from the mask.                                *)

(* A port of the mask, after those below it: last_port and                  *)
(* nb_ports_in_mask.                                                        *)
PairPort(mask, s, port) ==
  IF port \notin mask THEN s
  ELSE IF s.n % 2 = 1
  THEN [s EXCEPT !.dst = [@ EXCEPT ![port] = s.last, ![s.last] = port], !.n = @ + 1]
  ELSE [s EXCEPT !.last = port, !.n = @ + 1]

Unpaired == [dst |-> [q \in Ports |-> 0], last |-> 0, n |-> 0]

MutPairing(mask) ==
  LET at[p \in 0 .. NbPorts] == IF p = 0 THEN Unpaired ELSE PairPort(mask, at[p - 1], p - 1)
  IN at[NbPorts].dst
(* The first enabled port with the second, the third with the fourth, ...;  *)
(* an odd one out with itself.                                              *)
Pairing(mask) ==
  LET at[p \in 0 .. NbPorts] == IF p = 0 THEN Unpaired ELSE PairPort(mask, at[p - 1], p - 1)
      end == at[NbPorts]
  IN IF end.n % 2 = 1 THEN [end.dst EXCEPT ![end.last] = end.last] ELSE end.dst

(* The enabled lcores that can take another port, none of them below from.  *)
Takers(q, from, enabled, per_lcore) ==
  {k \in enabled : k >= from /\ Len(q[k]) # per_lcore}

(* Ports to lcores: rx_lcore_id only moves forward.  fail is the exit with  *)
(* "Not enough cores".                                                      *)
AssignPort(mask, enabled, per_lcore, s, port) ==
  LET takers == Takers(s.q, s.lc, enabled, per_lcore) IN
  IF port \notin mask \/ s.fail THEN s
  ELSE IF takers = {} THEN [s EXCEPT !.fail = TRUE]
  ELSE [s EXCEPT !.q[Min(takers)] = Append(@, port), !.lc = Min(takers)]

Unassigned == [q |-> [k \in Lcores |-> <<>>], lc |-> 0, fail |-> FALSE]

Assignment(mask, enabled, per_lcore) ==
  LET at[p \in 0 .. NbPorts] ==
        IF p = 0 THEN Unassigned ELSE AssignPort(mask, enabled, per_lcore, at[p - 1], p - 1)
  IN at[NbPorts]

(* Not launched yet.  prev_tsc begins at 0, long ago: the first iteration   *)
(* drains.                                                                  *)
Start == [pc |-> "wait", i |-> 1, nb_rx |-> 0, j |-> 0, diff |-> DrainTicks]

Init ==
  /\ portmask \in (SUBSET Ports) \ {{}}
  /\ ~Assignment(portmask, Enabled, QueuePerLcore).fail
  /\ dst_ports = Pairing(portmask)
  /\ qconf = Assignment(portmask, Enabled, QueuePerLcore).q
  /\ pkts_burst = [i \in 0 .. (MAX_PKT_BURST - 1) |-> NoPacket]
  /\ mac = [m \in Packets |-> NbPorts]
  /\ tx_buffer = [p \in Ports |-> <<>>]
  /\ wire = [p \in Ports |-> <<>>]
  /\ freed = [p \in Ports |-> <<>>]
  /\ rx = [p \in Ports |-> 0] /\ tx = [p \in Ports |-> 0]
  /\ force_quit = FALSE
  /\ lcore = [k \in Lcores |-> IF k \in Enabled THEN Start ELSE [Start EXCEPT !.pc = "done"]]
  /\ main = [pc |-> "check", count |-> 0, print_flag |-> FALSE]

Tables == <<portmask, dst_ports, qconf>>

-----------------------------------------------------------------------------
(* l2fwd_main_loop                                                          *)

RxPort(k) == qconf[k][lcore[k].i]

EnterLoop(k) ==
  /\ lcore[k].pc = "start"
  /\ lcore' = [lcore EXCEPT ![k].pc = IF qconf[k] = <<>> THEN "done" ELSE "loop"]
  /\ UNCHANGED <<Tables, pkts_burst, mac, tx_buffer, wire, freed, rx, tx, force_quit, main>>

MutLoopTop(k) ==
  /\ lcore[k].pc = "loop"
  /\ \E diff_tsc \in (lcore[k].diff + 1) .. (lcore[k].diff + DrainTicks + 1) :
       lcore' = [lcore EXCEPT ![k] =
         [@ EXCEPT !.pc = IF diff_tsc > DrainTicks THEN "drain" ELSE "rx", !.i = 1,
                   !.diff = diff_tsc]]
  /\ UNCHANGED <<Tables, pkts_burst, mac, tx_buffer, wire, freed, rx, tx, force_quit, main>>
(* The test of @force_quit and of the drain interval.                       *)
LoopTop(k) ==
  /\ lcore[k].pc = "loop"
  /\ \/ /\ force_quit
        /\ lcore' = [lcore EXCEPT ![k].pc = "done"]
     \/ /\ ~force_quit
        /\ \E diff_tsc \in (lcore[k].diff + 1) .. (lcore[k].diff + DrainTicks + 1) :
             lcore' = [lcore EXCEPT ![k] =
               [@ EXCEPT !.pc = IF diff_tsc > DrainTicks THEN "drain" ELSE "rx", !.i = 1,
                         !.diff = diff_tsc]]
  /\ UNCHANGED <<Tables, pkts_burst, mac, tx_buffer, wire, freed, rx, tx, force_quit, main>>

(* rte_eth_tx_buffer_flush (see TxBuffer) of the packets buffered for port: *)
(* the driver takes some of them, the callback frees the others.            *)
Flush(port, buffered, addr) ==
  \E sent \in 0 .. Len(buffered) :
    /\ wire' = [wire EXCEPT ![port] =
                  @ \o [n \in 1 .. sent |-> <<buffered[n], addr[buffered[n]]>>]]
    /\ freed' = [freed EXCEPT ![port] = @ \o SubSeq(buffered, sent + 1, Len(buffered))]
    /\ tx_buffer' = [tx_buffer EXCEPT ![port] = <<>>]
    /\ tx' = [tx EXCEPT ![port] = @ + sent]

MutDrainFirst(k) ==
  /\ lcore[k].pc = "drain"
  /\ LET port == dst_ports[RxPort(k)] IN Flush(port, tx_buffer[port], mac)
  /\ lcore' = [lcore EXCEPT ![k] = [@ EXCEPT !.pc = "rx", !.i = 1, !.diff = 0]]
  /\ UNCHANGED <<Tables, pkts_burst, mac, rx, force_quit, main>>
Drain(k) ==
  /\ lcore[k].pc = "drain"
  /\ LET port == dst_ports[RxPort(k)] IN Flush(port, tx_buffer[port], mac)
  /\ lcore' = [lcore EXCEPT ![k] =
       IF lcore[k].i < Len(qconf[k]) THEN [@ EXCEPT !.i = lcore[k].i + 1]
       ELSE [@ EXCEPT !.pc = "rx", !.i = 1, !.diff = 0]]
  /\ UNCHANGED <<Tables, pkts_burst, mac, rx, force_quit, main>>

(* The state of an lcore after the last packet of port i.                   *)
NextPort(k, st) ==
  IF st.i < Len(qconf[k]) THEN [st EXCEPT !.pc = "rx", !.i = @ + 1]
  ELSE [st EXCEPT !.pc = "loop", !.i = 1]

(* What the NICs have delivered: MaxRx bounds how many.                     *)
Received == {m \in Packets : m[2] <= rx[m[1]]}

(* rte_eth_rx_burst: up to MAX_PKT_BURST packets into the shared array.     *)
RxBurst(k) ==
  LET port == RxPort(k) IN
  /\ lcore[k].pc = "rx"
  /\ \E nb_rx \in 0 .. Min({MAX_PKT_BURST, MaxRx - Cardinality(Received)}) :
       /\ pkts_burst' = [n \in DOMAIN pkts_burst |->
                           IF n < nb_rx THEN <<port, rx[port] + n + 1>> ELSE pkts_burst[n]]
       /\ rx' = [rx EXCEPT ![port] = @ + nb_rx]
       /\ lcore' = [lcore EXCEPT ![k] =
            IF nb_rx = 0 THEN NextPort(k, lcore[k])
            ELSE [@ EXCEPT !.pc = "forward", !.nb_rx = nb_rx, !.j = 0]]
  /\ UNCHANGED <<Tables, mac, tx_buffer, wire, freed, tx, force_quit, main>>

MutMacUpdating(m, dest_portid) == [mac EXCEPT ![m] = m[1]]
l2fwd_mac_updating(m, dest_portid) == [mac EXCEPT ![m] = dest_portid]

(* l2fwd_simple_forward of packet j of the burst: rewrite, then             *)
(* rte_eth_tx_buffer, which flushes a buffer that is full.                  *)
MutForward(k) ==
  LET m == pkts_burst[0]
      dst_port == dst_ports[RxPort(k)]
      addr == l2fwd_mac_updating(m, dst_port)
      buffered == Append(tx_buffer[dst_port], m)
  IN
  /\ lcore[k].pc = "forward"
  /\ mac' = addr
  /\ IF Len(buffered) < MAX_PKT_BURST
       THEN /\ tx_buffer' = [tx_buffer EXCEPT ![dst_port] = buffered]
            /\ UNCHANGED <<wire, freed, tx>>
       ELSE Flush(dst_port, buffered, addr)
  /\ lcore' = [lcore EXCEPT ![k] =
       IF lcore[k].j + 1 < lcore[k].nb_rx THEN [@ EXCEPT !.j = lcore[k].j + 1]
       ELSE NextPort(k, lcore[k])]
  /\ UNCHANGED <<Tables, pkts_burst, rx, force_quit, main>>
l2fwd_simple_forward(k) ==
  LET m == pkts_burst[lcore[k].j]
      dst_port == dst_ports[RxPort(k)]
      addr == IF MacUpdating THEN l2fwd_mac_updating(m, dst_port) ELSE mac
      buffered == Append(tx_buffer[dst_port], m)
  IN
  /\ lcore[k].pc = "forward"
  /\ mac' = addr
  /\ IF Len(buffered) < MAX_PKT_BURST
       THEN /\ tx_buffer' = [tx_buffer EXCEPT ![dst_port] = buffered]
            /\ UNCHANGED <<wire, freed, tx>>
       ELSE Flush(dst_port, buffered, addr)
  /\ lcore' = [lcore EXCEPT ![k] =
       IF lcore[k].j + 1 < lcore[k].nb_rx THEN [@ EXCEPT !.j = lcore[k].j + 1]
       ELSE NextPort(k, lcore[k])]
  /\ UNCHANGED <<Tables, pkts_burst, rx, force_quit, main>>

l2fwd_main_loop(k) ==
  EnterLoop(k) \/ LoopTop(k) \/ Drain(k) \/ RxBurst(k) \/ l2fwd_simple_forward(k)

-----------------------------------------------------------------------------
(* SIGINT or SIGTERM, at any time.                                          *)
signal_handler ==
  /\ ~force_quit
  /\ force_quit' = TRUE
  /\ UNCHANGED <<Tables, pkts_burst, mac, tx_buffer, wire, freed, rx, tx, lcore, main>>

(* check_all_ports_link_status: a pass over the ports is one step, and      *)
(* rte_eth_link_get_nowait may find each link in any state.  @force_quit is *)
(* tested before each pass and before each port.                            *)
LinkFlags == [status_up : BOOLEAN, other : BOOLEAN]

(* link_flags.none? is the test for a link that is down.                    *)
none(flags) == ~flags.status_up /\ ~flags.other

CheckQuits ==
  /\ main.pc = "check" /\ force_quit
  /\ main' = [main EXCEPT !.pc = "checked"]

MutPrintPass ==
  /\ main.pc = "check" /\ ~force_quit /\ main.print_flag
  /\ main' = [main EXCEPT !.pc = "checked"]
(* The pass that prints the state of every link, after which the loop ends. *)
PrintPass ==
  /\ main.pc = "check" /\ ~force_quit /\ main.print_flag
  /\ main' = [main EXCEPT !.pc = "printed"]

(* A pass that looks at the links and, if one is down, waits 100 ms.  After *)
(* max_check_time passes the times loop ends by itself.                     *)
CheckPass ==
  /\ main.pc = "check" /\ ~force_quit /\ ~main.print_flag
  /\ \E link \in [portmask -> LinkFlags] :
       LET all_ports_up == \A p \in portmask : ~none(link[p])
           count == main.count + 1
       IN main' = [pc |-> IF count = max_check_time THEN "checked" ELSE "check",
                   count |-> count,
                   print_flag |-> all_ports_up \/ main.count = max_check_time - 1]

check_all_ports_link_status ==
  /\ CheckQuits \/ PrintPass \/ CheckPass
  /\ UNCHANGED <<Tables, pkts_burst, mac, tx_buffer, wire, freed, rx, tx, force_quit, lcore>>

(* rte_eal_mp_remote_launch: every enabled lcore, main's own too, enters    *)
(* the loop.                                                                *)
Launch ==
  /\ main.pc \in {"printed", "checked"}
  /\ main' = [pc |-> "launched", count |-> 0, print_flag |-> FALSE]
  /\ lcore' = [k \in Lcores |-> IF k \in Enabled THEN [lcore[k] EXCEPT !.pc = "start"]
                                                 ELSE lcore[k]]
  /\ UNCHANGED <<Tables, pkts_burst, mac, tx_buffer, wire, freed, rx, tx, force_quit>>

(* After rte_eal_wait_lcore of every lcore the ports are stopped and closed. *)
MainCloses ==
  /\ main.pc = "launched"
  /\ \A k \in Enabled : lcore[k].pc = "done"
  /\ main' = [main EXCEPT !.pc = "closed"]
  /\ UNCHANGED <<Tables, pkts_burst, mac, tx_buffer, wire, freed, rx, tx, force_quit, lcore>>

Main == check_all_ports_link_status \/ Launch \/ MainCloses

Next == (\E k \in Enabled : l2fwd_main_loop(k)) \/ signal_handler \/ Main

Spec == Init /\ [][Next]_vars

(* Every lcore keeps running its loop, and so does main; links and signals  *)
(* need not do anything.                                                    *)
FairSpec == Spec /\ (\A k \in Enabled : WF_vars(l2fwd_main_loop(k))) /\ WF_vars(Main)

-----------------------------------------------------------------------------
(* Properties *)

(* "Each logical core is assigned a dedicated TX queue on each port"        *)
(* (l2fwd.cr:355): whatever the mask, the enabled lcores and the number of  *)
(* queues per lcore, if main does not give up then every enabled port is    *)
(* polled by one lcore and sends to an enabled port, and an lcore never     *)
(* transmits on a port another one transmits on, whose buffer, queue and    *)
(* counter are used without a lock.                                         *)
TxQueueDedicated ==
  main.pc = "check" =>
    \A enabled \in SUBSET Lcores, per_lcore \in 1 .. NbPorts :
      LET given == Assignment(portmask, enabled, per_lcore)
          polled(k) == Range(given.q[k])
          sends(k) == {dst_ports[p] : p \in polled(k)}
      IN ~given.fail =>
           /\ UNION {polled(k) : k \in enabled} = portmask
           /\ UNION {sends(k) : k \in enabled} \subseteq portmask
           /\ \A k, l \in enabled :
                k # l => polled(k) \cap polled(l) = {} /\ sends(k) \cap sends(l) = {}

(* The packets of port that lcore k has received and not yet forwarded.     *)
InHand(k) ==
  IF lcore[k].pc = "forward"
    THEN {<<RxPort(k), rx[RxPort(k)] - lcore[k].nb_rx + n + 1>> :
            n \in lcore[k].j .. (lcore[k].nb_rx - 1)}
    ELSE {}

(* How often packet m left, waits to leave or was dropped at port p.        *)
Times(m, p) ==
  Cardinality({n \in DOMAIN wire[p] : wire[p][n][1] = m})
  + Cardinality({n \in DOMAIN tx_buffer[p] : tx_buffer[p][n] = m})
  + Cardinality({n \in DOMAIN freed[p] : freed[p][n] = m})

(* Every packet received is forwarded once, to the port paired with the one *)
(* it came from, and to no other: none is lost between the burst array, the *)
(* transmit buffer and the wire, and none is sent or freed twice.           *)
ForwardedOnce ==
  \A p \in portmask, n \in 1 .. MaxRx, q \in Ports :
    Times(<<p, n>>, q) =
      IF q = dst_ports[p] /\ n <= rx[p] /\ (\A k \in Enabled : <<p, n>> \notin InHand(k))
        THEN 1 ELSE 0

(* "The destination MAC address is replaced by 02:00:00:00:00:TX_PORT_ID"   *)
(* (l2fwd.cr:193): a packet leaves port p with the address made from p.     *)
TxPortMac ==
  MacUpdating => \A p \in Ports : \A n \in DOMAIN wire[p] : wire[p][n][2] = p

(* A packet in a transmit buffer does not wait for others to fill it: the   *)
(* drain sends or drops it, unless the program is told to quit.             *)
BufferDrains ==
  \A p \in Ports : (tx_buffer[p] # <<>>) ~> (tx_buffer[p] = <<>> \/ force_quit)

(* After a signal, whenever it comes, every lcore leaves its loop and main  *)
(* closes the ports.                                                        *)
QuitCloses == force_quit ~> (main.pc = "closed")

(* Once a pass found the links up with time left, their states are printed  *)
(* before the lcores are launched, unless a signal comes first.             *)
PrintFollows ==
  (main.print_flag /\ main.count < max_check_time) ~> (main.pc = "printed" \/ force_quit)
=============================================================================

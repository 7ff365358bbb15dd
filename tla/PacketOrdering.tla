--------------------------- MODULE PacketOrdering ---------------------------
(***************************************************************************)
(* The packet ordering example, src/examples/packet_ordering.cr: rx_thread *)
(* numbers the packets and feeds them through the ring rx_to_workers to    *)
(* the workers, which hand them on through workers_to_tx, in any order, to *)
(* send_thread, which restores the order (or, with --disable-reorder, to   *)
(* tx_thread, which does not).                                             *)
(*                                                                         *)
(* The rings are the bounded queues of RingFifo, which RteRing implements: *)
(* a burst is enqueued or dequeued in one step.  A packet is its sequence  *)
(* number.                                                                 *)
(***************************************************************************)
EXTENDS Integers, Sequences, FiniteSets, SequencesExt

CONSTANTS
  Workers,
  Ports,               \* port numbers; with two of them packets change port
  RING_SIZE,           \* packets a ring holds
  MAX_PKTS_BURST,
  REORDER_BUFFER_SIZE,
  MaxPkts              \* bound: packets received

ASSUME OrderingAssumption ==
  /\ Ports \in {{0}, {0, 1}} /\ IsFiniteSet(Workers)
  /\ {RING_SIZE, MAX_PKTS_BURST, REORDER_BUFFER_SIZE, MaxPkts} \subseteq Nat \ {0}

VARIABLES
  portmask,       \* @portmask, as a set
  disable_reorder,
  poll,           \* port_id of rx_thread's loop over the ports
  seqn,           \* rx_thread's next sequence number
  recv,           \* packets rx_thread has numbered and not yet enqueued
  port,           \* mbuf->port of each packet
  rx_to_workers,
  workers_to_tx,
  burst,          \* each worker's burst_buffer
  reorder,        \* the reorder buffer: first number expected, entries, ready ones
  send,           \* send_thread (tx_thread): its step and the packets it works on
  tx_buffer,      \* the transmit buffer of each port
  wire,           \* packets transmitted in order through the buffers, per port
  astray,         \* packets in a burst call that was not given their mbuf
  freed,          \* how often each packet was freed
  stats,          \* @app_stats
  quit_signal     \* @quit_signal

args == <<portmask, disable_reorder>>    \* set by parse_args, before the threads start
vars == <<args, poll, seqn, recv, port, rx_to_workers, workers_to_tx, burst, reorder, send,
          tx_buffer, wire, astray, freed, stats, quit_signal>>

Pkts == 0 .. (MaxPkts - 1)
NoBuffer == [init |-> FALSE, min |-> 0, order |-> {}, ready |-> <<>>]

Init ==
  /\ portmask \in (SUBSET Ports) \ {{}} /\ disable_reorder \in BOOLEAN
  /\ poll = 0 /\ seqn = 0 /\ recv = <<>>
  /\ port = [p \in Pkts |-> 0]
  /\ rx_to_workers = <<>> /\ workers_to_tx = <<>>
  /\ burst = [w \in Workers |-> <<>>]
  /\ reorder = NoBuffer
  /\ send = [pc |-> "dequeue", pkts |-> <<>>]
  /\ tx_buffer = [o \in Ports |-> <<>>] /\ wire = [o \in Ports |-> <<>>]
  /\ astray = {}
  /\ freed = [p \in Pkts |-> 0]
  /\ stats = [rx |-> 0, rx_enq |-> 0, rx_fail |-> 0, wkr_deq |-> 0, wkr_enq |-> 0, wkr_fail |-> 0,
              tx_deq |-> 0, ro_tx |-> 0, ro_fail |-> 0, early_tx |-> 0, early_fail |-> 0]
  /\ quit_signal = FALSE

-----------------------------------------------------------------------------
Drop(ps) == freed' = [p \in Pkts |-> freed[p] + Cardinality({i \in DOMAIN ps : ps[i] = p})]

(* rte_ring_enqueue_burst / rte_ring_dequeue_burst: as many as there is     *)
(* room, or packets, for.                                                   *)
Room(ring, n) == Min({n, RING_SIZE - Len(ring)})
Burst(ring) == Min({MAX_PKTS_BURST, Len(ring)})
FirstN(ps, n) == SubSeq(ps, 1, n)
AfterN(ps, n) == SubSeq(ps, n + 1, Len(ps))

(* rx_thread looks at the ports in turn and at @quit_signal before the      *)
(* first one; nothing to do at a port that is not in the mask.              *)
NextPort == poll' = (poll + 1) % Cardinality(Ports)
Polls == recv = <<>> /\ (poll = 0 => ~quit_signal)

RxNone ==
  /\ Polls
  /\ NextPort
  /\ UNCHANGED <<seqn, recv, port, rx_to_workers, workers_to_tx, burst, reorder, send, tx_buffer,
                 wire, astray, freed, stats, quit_signal, args>>

(* A burst from an enabled port, numbered in order.                         *)
RxBurst ==
  /\ Polls
  /\ poll \in portmask
  /\ \E nb_rx_pkts \in 1 .. Min({MAX_PKTS_BURST, MaxPkts - seqn}) :
       /\ recv' = [i \in 1 .. nb_rx_pkts |-> seqn + i - 1]
       /\ port' = [p \in Pkts |-> IF p \in seqn .. (seqn + nb_rx_pkts - 1) THEN poll ELSE port[p]]
       /\ seqn' = seqn + nb_rx_pkts
       /\ stats' = [stats EXCEPT !.rx = @ + nb_rx_pkts]
  /\ UNCHANGED <<poll, rx_to_workers, workers_to_tx, burst, reorder, send, tx_buffer, wire,
                 astray, freed, quit_signal, args>>

(* Its enqueue: what does not fit is freed, and counted unless nothing fit. *)
RxEnqueue ==
  LET ret == Room(rx_to_workers, Len(recv)) IN
  /\ recv # <<>>
  /\ rx_to_workers' = rx_to_workers \o FirstN(recv, ret)
  /\ stats' = [stats EXCEPT !.rx_enq = @ + ret,
                            !.rx_fail = IF ret > 0 THEN @ + (Len(recv) - ret) ELSE @]
  /\ Drop(AfterN(recv, ret))
  /\ recv' = <<>>
  /\ NextPort
  /\ UNCHANGED <<seqn, port, workers_to_tx, burst, reorder, send, tx_buffer, wire,
                 astray, quit_signal, args>>

(* worker_thread: dequeue a burst and send every packet to the other port.  *)
WorkerDequeue(w) ==
  LET burst_size == Burst(rx_to_workers) IN
  /\ ~quit_signal /\ burst[w] = <<>> /\ burst_size > 0
  /\ burst' = [burst EXCEPT ![w] = FirstN(rx_to_workers, burst_size)]
  /\ rx_to_workers' = AfterN(rx_to_workers, burst_size)
  /\ port' = [p \in Pkts |->
                IF p \in Range(burst'[w]) /\ Cardinality(Ports) > 1 THEN 1 - port[p] ELSE port[p]]
  /\ stats' = [stats EXCEPT !.wkr_deq = @ + burst_size]
  /\ UNCHANGED <<poll, seqn, recv, workers_to_tx, reorder, send, tx_buffer, wire, astray, freed,
                 quit_signal, args>>

MutWorkerEnqueue(w) ==
  LET ret == Room(workers_to_tx, Len(burst[w])) IN
  /\ burst[w] # <<>>
  /\ workers_to_tx' = workers_to_tx \o FirstN(burst[w], ret)
  /\ stats' = [stats EXCEPT !.wkr_enq = @ + ret,
                            !.wkr_fail = IF ret > 0 THEN @ + (Len(burst[w]) - ret) ELSE @]
  /\ Drop(AfterN(burst[w], ret))
  /\ burst' = [burst EXCEPT ![w] = <<>>]
  /\ UNCHANGED <<poll, seqn, recv, port, rx_to_workers, reorder, send, tx_buffer, wire, astray,
                 quit_signal, args>>
WorkerEnqueue(w) ==
  LET ret == Room(workers_to_tx, Len(burst[w])) IN
  /\ burst[w] # <<>>
  /\ workers_to_tx' = workers_to_tx \o FirstN(burst[w], ret)
  /\ stats' = [stats EXCEPT !.wkr_enq = @ + ret, !.wkr_fail = @ + (Len(burst[w]) - ret)]
  /\ Drop(AfterN(burst[w], ret))
  /\ burst' = [burst EXCEPT ![w] = <<>>]
  /\ UNCHANGED <<poll, seqn, recv, port, rx_to_workers, reorder, send, tx_buffer, wire, astray,
                 quit_signal, args>>

-----------------------------------------------------------------------------
(* librte_reorder, which is external: entries from min on are kept until    *)
(* the ones before them came, or until a number too far ahead pushes the    *)
(* window over the gaps.                                                    *)

Due(b) == b.min \in b.order
ReadyFull(b) == Len(b.ready) = REORDER_BUFFER_SIZE - 1
Take(b) == [b EXCEPT !.min = @ + 1, !.order = @ \ {b.min}, !.ready = Append(@, b.min)]
Skip(b) == [b EXCEPT !.min = @ + 1]
Put(b, p) == [b EXCEPT !.order = @ \cup {p}]

(* The first insert sets the number expected.                               *)
Started(b, p) == IF b.init THEN b ELSE [b EXCEPT !.init = TRUE, !.min = p]

(* rte_reorder_drain: up to a burst, ready entries first, then those that   *)
(* follow one another from min on.                                          *)
Run(b) == {p \in b.order : b.min .. p \subseteq b.order}
FromReady(b) == Min({MAX_PKTS_BURST, Len(b.ready)})
FromRun(b) == Min({MAX_PKTS_BURST - FromReady(b), Cardinality(Run(b))})

Drained(b) ==
  [out |-> FirstN(b.ready, FromReady(b)) \o [i \in 1 .. FromRun(b) |-> b.min + i - 1],
   b   |-> [b EXCEPT !.min = @ + FromRun(b), !.order = @ \ (b.min .. (b.min + FromRun(b) - 1)),
                     !.ready = AfterN(@, FromReady(b))]]

-----------------------------------------------------------------------------
MutSendDequeue ==
  LET n == Burst(workers_to_tx) IN
  /\ ~quit_signal /\ send.pc = "dequeue" /\ n > 0
  /\ workers_to_tx' = AfterN(workers_to_tx, n)
  /\ send' = [pc |-> "transmit", pkts |-> FirstN(workers_to_tx, n)]
  /\ stats' = [stats EXCEPT !.tx_deq = @ + n]
  /\ UNCHANGED <<poll, seqn, recv, port, rx_to_workers, burst, reorder, tx_buffer, wire, astray,
                 freed, quit_signal, args>>
(* send_thread and tx_thread: the dequeue they both begin with.             *)
SendDequeue ==
  LET n == Burst(workers_to_tx) IN
  /\ ~quit_signal /\ send.pc = "dequeue" /\ n > 0
  /\ workers_to_tx' = AfterN(workers_to_tx, n)
  /\ send' = [pc |-> IF disable_reorder THEN "transmit" ELSE "insert",
              pkts |-> FirstN(workers_to_tx, n)]
  /\ stats' = [stats EXCEPT !.tx_deq = @ + n]
  /\ UNCHANGED <<poll, seqn, recv, port, rx_to_workers, burst, reorder, tx_buffer, wire, astray,
                 freed, quit_signal, args>>

(* A packet outside the window is transmitted at once.  The call is given   *)
(* send_mbufs[i] itself where the address of a pointer to it is expected:   *)
(* the driver takes the mbuf's first word for a packet, and this one goes   *)
(* nowhere.  When the driver takes nothing the packet is freed.             *)
DirectTransmit(p) ==
  IF port[p] \notin portmask
    THEN Drop(<<p>>) /\ UNCHANGED <<astray, stats>>
    ELSE \/ /\ Drop(<<p>>)
            /\ stats' = [stats EXCEPT !.early_fail = @ + 1]
            /\ UNCHANGED astray
         \/ /\ astray' = astray \cup {p}
            /\ stats' = [stats EXCEPT !.early_tx = @ + 1]
            /\ UNCHANGED freed

(* rte_reorder_insert of the next packet: into the window; too far from it, *)
(* ERANGE; or ahead of it, and the window has to move.                      *)
Insert ==
  LET p == send.pkts[1]
      b == Started(reorder, p)
      offset == p - b.min
  IN
  /\ send.pc = "insert" /\ send.pkts # <<>>
  /\ \/ /\ offset \in 0 .. (REORDER_BUFFER_SIZE - 1)
        /\ reorder' = Put(b, p)
        /\ send' = [send EXCEPT !.pkts = Tail(@)]
        /\ UNCHANGED <<astray, stats, freed>>
     \/ /\ offset < 0 \/ offset >= 2 * REORDER_BUFFER_SIZE
        /\ reorder' = b
        /\ send' = [send EXCEPT !.pkts = Tail(@)]
        /\ DirectTransmit(p)
     \/ /\ offset \in REORDER_BUFFER_SIZE .. (2 * REORDER_BUFFER_SIZE - 1)
        /\ reorder' = b
        /\ send' = [send EXCEPT !.pc = "overflow"]
        /\ UNCHANGED <<astray, stats, freed>>
  /\ UNCHANGED <<poll, seqn, recv, port, rx_to_workers, workers_to_tx, burst, tx_buffer, wire,
                 quit_signal, args>>

(* The window is behind the packet that is to be inserted.                  *)
Behind(b) == b.min + REORDER_BUFFER_SIZE <= send.pkts[1]

(* A turn of rte_reorder_fill_overflow: what is due becomes ready, a gap is *)
(* passed over as long as the window is behind.                             *)
rte_reorder_fill_overflow ==
  /\ send.pc = "overflow" /\ ~ReadyFull(reorder)
  /\ \/ Due(reorder) /\ reorder' = Take(reorder)
     \/ ~Due(reorder) /\ Behind(reorder) /\ reorder' = Skip(reorder)
  /\ UNCHANGED <<poll, seqn, recv, port, rx_to_workers, workers_to_tx, burst, send, tx_buffer, wire,
                 astray, freed, stats, quit_signal, args>>

MutInsertMoved ==
  LET p == send.pkts[1] IN
  /\ send.pc = "overflow"
  /\ ReadyFull(reorder) \/ (~Due(reorder) /\ ~Behind(reorder))
  /\ IF Behind(reorder) THEN UNCHANGED <<reorder, freed>>
                        ELSE reorder' = Put(reorder, p) /\ UNCHANGED freed
  /\ send' = [pc |-> "insert", pkts |-> Tail(send.pkts)]
  /\ UNCHANGED <<poll, seqn, recv, port, rx_to_workers, workers_to_tx, burst, tx_buffer, wire,
                 astray, stats, quit_signal, args>>
(* Its end: the packet is in the window now or, when the ready entries are  *)
(* too many, ENOSPC is reported and the packet freed.                       *)
InsertMoved ==
  LET p == send.pkts[1] IN
  /\ send.pc = "overflow"
  /\ ReadyFull(reorder) \/ (~Due(reorder) /\ ~Behind(reorder))
  /\ IF Behind(reorder) THEN Drop(<<p>>) /\ UNCHANGED reorder
                        ELSE reorder' = Put(reorder, p) /\ UNCHANGED freed
  /\ send' = [pc |-> "insert", pkts |-> Tail(send.pkts)]
  /\ UNCHANGED <<poll, seqn, recv, port, rx_to_workers, workers_to_tx, burst, tx_buffer, wire,
                 astray, stats, quit_signal, args>>

Drain ==
  /\ send.pc = "insert" /\ send.pkts = <<>>
  /\ send' = [pc |-> "transmit", pkts |-> Drained(reorder).out]
  /\ reorder' = Drained(reorder).b
  /\ UNCHANGED <<poll, seqn, recv, port, rx_to_workers, workers_to_tx, burst, tx_buffer, wire,
                 astray, freed, stats, quit_signal, args>>

(* One packet to the transmit buffer of its port, which flushes when full   *)
(* (TxBuffer); the callback frees and counts what the driver did not take.  *)
Transmit ==
  LET p == send.pkts[1]
      o == port[p]
      buffered == Append(tx_buffer[o], p)
  IN
  /\ send.pc = "transmit" /\ send.pkts # <<>>
  /\ send' = [send EXCEPT !.pkts = Tail(@)]
  /\ \/ /\ o \notin portmask
        /\ Drop(<<p>>) /\ UNCHANGED <<tx_buffer, wire, stats>>
     \/ /\ o \in portmask /\ Len(buffered) < MAX_PKTS_BURST
        /\ tx_buffer' = [tx_buffer EXCEPT ![o] = buffered]
        /\ UNCHANGED <<wire, stats, freed>>
     \/ /\ o \in portmask /\ Len(buffered) >= MAX_PKTS_BURST
        /\ \E sent \in 0 .. Len(buffered) :
             /\ wire' = [wire EXCEPT ![o] = @ \o FirstN(buffered, sent)]
             /\ Drop(AfterN(buffered, sent))
             /\ stats' = [stats EXCEPT !.ro_tx = @ + sent, !.ro_fail = @ + (Len(buffered) - sent)]
        /\ tx_buffer' = [tx_buffer EXCEPT ![o] = <<>>]
  /\ UNCHANGED <<poll, seqn, recv, port, rx_to_workers, workers_to_tx, burst, reorder, astray,
                 quit_signal, args>>

SendLoop ==
  /\ send.pc = "transmit" /\ send.pkts = <<>>
  /\ send' = [send EXCEPT !.pc = "dequeue"]
  /\ UNCHANGED <<poll, seqn, recv, port, rx_to_workers, workers_to_tx, burst, reorder, tx_buffer, wire,
                 astray, freed, stats, quit_signal, args>>

(* SIGINT: every thread stops at the top of its loop.                       *)
signal_handler ==
  /\ ~quit_signal
  /\ quit_signal' = TRUE
  /\ UNCHANGED <<poll, seqn, recv, port, rx_to_workers, workers_to_tx, burst, reorder, send, tx_buffer,
                 wire, astray, freed, stats, args>>

Next ==
  \/ RxNone \/ RxBurst \/ RxEnqueue
  \/ \E w \in Workers : WorkerDequeue(w) \/ WorkerEnqueue(w)
  \/ SendDequeue \/ Insert \/ rte_reorder_fill_overflow \/ InsertMoved \/ Drain \/ Transmit \/ SendLoop
  \/ signal_handler

Spec == Init /\ [][Next]_vars

-----------------------------------------------------------------------------
(* Properties *)

In(ps, p) == Cardinality({i \in DOMAIN ps : ps[i] = p})
One(b) == IF b THEN 1 ELSE 0

(* How often a packet is on its way, was sent through a transmit buffer or  *)
(* freed; what a worker has, and what a port has, counted as one.           *)
Places(p) ==
  In(recv, p) + In(rx_to_workers, p) + In(workers_to_tx, p) + In(send.pkts, p)
  + Cardinality({w \in Workers : In(burst[w], p) > 0})
  + One(p \in reorder.order) + In(reorder.ready, p)
  + Cardinality({o \in Ports : In(tx_buffer[o], p) + In(wire[o], p) > 0})
  + freed[p]

(* Every packet received is in one place and there only once, or is one of  *)
(* those the stray call of send_thread lost: whichever ring is full,        *)
(* whichever worker is first, and whatever the window does, none is sent or *)
(* freed twice, none that was freed is still on its way, and no others are  *)
(* lost than print_stats counts as early packets transmitted, with          *)
(* --disable-reorder none.                                                  *)
PacketAccounted ==
  /\ \A p \in 0 .. (seqn - 1) :
       /\ Places(p) = IF p \in astray THEN 0 ELSE 1
       /\ \A w \in Workers : In(burst[w], p) <= 1
       /\ \A o \in Ports : In(tx_buffer[o], p) + In(wire[o], p) <= 1
  /\ stats.early_tx = Cardinality(astray)
  /\ disable_reorder => astray = {}

(* "Too early pkts should be transmitted out directly": no packet that was  *)
(* received is nowhere, neither on its way nor transmitted nor freed.       *)
NoneLost == \A p \in 0 .. (seqn - 1) : Places(p) > 0

(* The purpose of the example: with reordering on, the packets of a port    *)
(* leave it in the order in which rx_thread received them, although several *)
(* workers handle them at once.                                             *)
RestoredOrder ==
  ~disable_reorder =>
    \A o \in Ports : \A i, j \in DOMAIN wire[o] : i < j => wire[o][i] < wire[o][j]

(* The counters that print_stats shows agree stage by stage with what is    *)
(* still between the stages.                                                *)
StatsBalance ==
  /\ stats.rx_enq = stats.wkr_deq + Len(rx_to_workers)
  /\ stats.wkr_enq = stats.tx_deq + Len(workers_to_tx)
  /\ stats.wkr_deq = stats.wkr_enq + stats.wkr_fail
       + Cardinality({p \in Pkts : \E w \in Workers : In(burst[w], p) > 0})
  /\ stats.ro_tx = Cardinality({p \in Pkts : \E o \in Ports : In(wire[o], p) > 0})
=============================================================================

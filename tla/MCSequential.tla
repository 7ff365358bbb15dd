----------------------------- MODULE MCSequential -----------------------------
(* Instances for TLC of the three components that one thread runs by itself *)
(* while no other touches their state: packets and their segments (RteMbuf),*)
(* a call of rte_memcpy (RteMemcpy), a walk over the lcores (Lcore).  They  *)
(* share nothing, so that a behaviour is one of one of them, the others     *)
(* being at rest.                                                           *)
EXTENDS RteMbuf, RteMemcpy, Lcore

VARIABLE thread   \* what the thread does: "packets", "memcpy" or "lcores"

seqVars == <<thread, mbufVars, vars, iterVars>>

----------------------------------------------------------------------------
(* Clones need no data room; their private area is larger.                  *)
MCPoolPrivate ==
  [packets |-> [mbuf_data_room_size |-> 1, mbuf_priv_size |-> 0],
   clones |-> [mbuf_data_room_size |-> 0, mbuf_priv_size |-> 1]]

MbufSymmetry == Permutations(PktMbufs) \cup Permutations(CloneMbufs)

(* Every length up to past the block loops, and a few much longer ones.     *)
MCLengths == 0 .. 660 \cup 1020 .. 1030

----------------------------------------------------------------------------
(* A call that has returned, and a foreach over no lcore but the own one.   *)
NoCall ==
  /\ call = [isa |-> "sse", da |-> 0, sa |-> 0, len |-> 0]
  /\ pc = "done" /\ dst = 0 /\ src = 0 /\ n = 0 /\ size = 0 /\ bits = 0 /\ srcofs = 0
  /\ copied = {} /\ read = [lo |-> 0, hi |-> 0]

NoWalk ==
  /\ mode = "slaves" /\ enabled = {0} /\ master = 0 /\ limit = UINT32
  /\ i = RTE_MAX_LCORE /\ worker_id = 0 /\ visited = <<>> /\ iter_pc = "done"

SeqInit ==
  /\ MbufInit
  /\ \/ thread = "packets" /\ NoCall /\ NoWalk
     \/ thread = "memcpy" /\ Init /\ NoWalk
     \/ thread = "lcores" /\ NoCall /\ IterInit

(* A foreach comes to its end.                                              *)
Walked == iter_pc = "done" /\ UNCHANGED iterVars

SeqNext ==
  /\ UNCHANGED thread
  /\ \/ thread = "packets" /\ MbufNext /\ UNCHANGED <<vars, iterVars>>
     \/ thread = "memcpy" /\ Next /\ UNCHANGED <<mbufVars, iterVars>>
     \/ thread = "lcores" /\ (IterNext \/ Walked) /\ UNCHANGED <<mbufVars, vars>>

SeqSpec == SeqInit /\ [][SeqNext]_seqVars

----------------------------------------------------------------------------
(* What later steps can depend on: the lengths and offsets of the segments  *)
(* of a packet, and pkt_len of its first one.  rte_pktmbuf_reset and        *)
(* rte_pktmbuf_attach write the others before anything reads them.          *)
LiveView ==
  LET inPacket == UNION {SegSet(h) : h \in Packets} IN
  <<held,
    [m \in Mbufs |-> <<mb[m].refcnt, mb[m].next, mb[m].nb_segs, mb[m].attached, mb[m].in_pool,
                       mb[m].buf_addr, mb[m].buf_iova, mb[m].buf_len, mb[m].priv_size>>],
    [m \in inPacket |-> <<mb[m].data_off, mb[m].data_len>>],
    [m \in Packets |-> mb[m].pkt_len],
    thread, vars, iterVars>>
=============================================================================

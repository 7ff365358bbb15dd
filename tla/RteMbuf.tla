------------------------------- MODULE RteMbuf -------------------------------
(***************************************************************************)
(* Packets as chains of mbufs (src/src/ext/rte_mbuf.c), used by one lcore. *)
(*                                                                         *)
(* s is the memory: for every mbuf its count, its links, its lengths, where *)
(* its buffer is and how often it is in its mempool.  Each function of the *)
(* source is an operator from a memory to a memory; each call an           *)
(* application makes is an action.  Payload bytes are left out.            *)
(*                                                                         *)
(* There are two pools, one for packets and one for clones, whose elements *)
(* differ in their private area and data room.  An element of a pool is    *)
(* the mbuf, its private area and its data room, one after the other, and  *)
(* an address is the element and an offset in it.                          *)
(***************************************************************************)
EXTENDS Integers, Sequences, FiniteSets, SequencesExt

CONSTANTS
  PktMbufs, CloneMbufs,  \* the mbufs of the two mempools
  pool_private,          \* struct rte_pktmbuf_pool_private of each
  NULL,                  \* the null pointer
  SizeofMbuf,            \* sizeof(struct rte_mbuf)
  RTE_PKTMBUF_HEADROOM,
  RTE_MBUF_MAX_NB_SEGS,  \* UINT16_MAX in the source
  UINT16,                \* number of values of a uint16_t
  MaxHeld,               \* bound: references to a packet the application holds
  MaxLen                 \* bound: bytes a call adds or removes

Mbufs == PktMbufs \cup CloneMbufs
Pools == {"packets", "clones"}

ASSUME BufAssumption ==
  /\ IsFiniteSet(Mbufs) /\ NULL \notin Mbufs /\ PktMbufs \cap CloneMbufs = {}
  /\ {SizeofMbuf, RTE_PKTMBUF_HEADROOM, RTE_MBUF_MAX_NB_SEGS, UINT16, MaxHeld, MaxLen} \subseteq Nat \ {0}
  /\ pool_private \in [Pools -> [mbuf_data_room_size : 0 .. UINT16 - 1, mbuf_priv_size : 0 .. UINT16 - 1]]

(* The references to an mbuf and the clones of it are not more than a count *)
(* holds, which the source leaves to the application.                       *)
ASSUME CountsAssumption == MaxHeld + Cardinality(Mbufs) <= UINT16

VARIABLES
  mb,     \* the mbufs
  held    \* held[h]: references to the packet whose first segment is h

mbufVars == <<mb, held>>

pool(m) == IF m \in PktMbufs THEN "packets" ELSE "clones"

rte_pktmbuf_data_room_size(mp) == pool_private[mp].mbuf_data_room_size
rte_pktmbuf_priv_size(mp) == pool_private[mp].mbuf_priv_size

Plus(addr, n) == <<addr[1], addr[2] + n>>

rte_mbuf_to_baddr(md) == <<md, SizeofMbuf + rte_pktmbuf_priv_size(pool(md))>>

(* An element is contiguous in IO memory too: its IO addresses are the same *)
(* pairs.                                                                   *)
rte_mempool_virt2iova(m) == <<m, 0>>

RTE_MIN(a, b) == IF a < b THEN a ELSE b
Headroom0(buf_len) == RTE_MIN(RTE_PKTMBUF_HEADROOM, buf_len)

Fresh(m) ==
  [refcnt |-> 1, next |-> NULL, nb_segs |-> 1, pkt_len |-> 0, data_len |-> 0,
   data_off |-> Headroom0(rte_pktmbuf_data_room_size(pool(m))),
   buf_addr |-> rte_mbuf_to_baddr(m), buf_iova |-> rte_mbuf_to_baddr(m),
   buf_len |-> rte_pktmbuf_data_room_size(pool(m)), priv_size |-> rte_pktmbuf_priv_size(pool(m)),
   attached |-> FALSE, in_pool |-> 1]

(* rte_pktmbuf_pool_create: every mbuf initialised and in its pool. *)
MbufInit ==
  /\ mb = [m \in Mbufs |-> Fresh(m)]
  /\ held = [m \in Mbufs |-> 0]

Small == 0 .. UINT16 - 1
Addresses == Mbufs \X (0 .. SizeofMbuf + 2 * UINT16)

MbufTypeOK ==
  /\ mb \in [Mbufs ->
       [refcnt : Small, next : Mbufs \cup {NULL}, nb_segs : 1 .. RTE_MBUF_MAX_NB_SEGS,
        pkt_len : Nat, data_len : Small, data_off : Small, buf_addr : Addresses, buf_iova : Addresses,
        buf_len : Small, priv_size : Small, attached : BOOLEAN, in_pool : {0, 1}]]
  /\ held \in [Mbufs -> 0 .. MaxHeld]

-----------------------------------------------------------------------------
(* Functions of the source, on a memory s.                                  *)

(* IND_ATTACHED_MBUF of ol_flags, the one flag that matters here.           *)
RTE_MBUF_INDIRECT(s, m) == s[m].attached
RTE_MBUF_DIRECT(s, m) == ~RTE_MBUF_INDIRECT(s, m)

(* The mbuf that starts at the address the source computes.                 *)
rte_mbuf_from_indirect(s, mi) ==
  CHOOSE md \in Mbufs : Plus(<<md, 0>>, SizeofMbuf + s[mi].priv_size) = s[mi].buf_addr

rte_mbuf_data_iova(s, m) == Plus(s[m].buf_iova, s[m].data_off)
rte_mbuf_data_iova_default(s, m) == Plus(s[m].buf_iova, RTE_PKTMBUF_HEADROOM)
rte_pktmbuf_mtod_offset(s, m, o) == Plus(s[m].buf_addr, s[m].data_off + o)

rte_pktmbuf_headroom(s, m) == s[m].data_off

MutTailroom(s, m) == (rte_pktmbuf_headroom(s, m) - s[m].data_len) % UINT16
rte_pktmbuf_tailroom(s, m) == (s[m].buf_len - rte_pktmbuf_headroom(s, m) - s[m].data_len) % UINT16

rte_pktmbuf_is_contiguous(s, m) == s[m].nb_segs = 1

(* "copy": __rte_pktmbuf_read gathers the bytes from several segments.      *)
rte_pktmbuf_read(s, m, off, len) ==
  IF off + len <= s[m].data_len THEN rte_pktmbuf_mtod_offset(s, m, off) ELSE <<"copy">>

(* The pointers that following next from m goes through, NULL included.     *)
Walk(s, m) ==
  LET at[n \in 0 .. Cardinality(Mbufs)] ==
        IF n = 0 THEN m
        ELSE IF at[n - 1] = NULL THEN NULL ELSE s[at[n - 1]].next
  IN at

(* The segments of the packet that starts at m.                             *)
Segs(s, m) ==
  LET w == Walk(s, m)
      n == Cardinality({i \in DOMAIN w : w[i] # NULL})
  IN [i \in 1 .. n |-> w[i - 1]]

rte_pktmbuf_lastseg(s, m) == Last(Segs(s, m))

rte_mempool_get(s, m) == [s EXCEPT ![m].in_pool = @ - 1]

rte_pktmbuf_reset_headroom(s, m) == [s EXCEPT ![m].data_off = Headroom0(s[m].buf_len)]

rte_pktmbuf_reset(s, m) ==
  rte_pktmbuf_reset_headroom(
    [s EXCEPT ![m].next = NULL, ![m].pkt_len = 0, ![m].nb_segs = 1, ![m].attached = FALSE,
              ![m].data_len = 0], m)

Alloc(s, m) == rte_pktmbuf_reset(rte_mempool_get(s, m), m)

rte_mbuf_raw_free(s, m) == [s EXCEPT ![m].in_pool = @ + 1]

rte_mbuf_refcnt_read(s, m) == s[m].refcnt
rte_mbuf_refcnt_set(s, m, v) == [s EXCEPT ![m].refcnt = v]
rte_mbuf_refcnt_update(s, m, v) == [s EXCEPT ![m].refcnt = (@ + v) % UINT16]

(* The mbuf whose data room m uses.                                         *)
Owner(s, m) == IF RTE_MBUF_DIRECT(s, m) THEN m ELSE rte_mbuf_from_indirect(s, m)

rte_pktmbuf_attach(s, mi, m) ==
  [rte_mbuf_refcnt_update(s, Owner(s, m), 1) EXCEPT
     ![mi].priv_size = s[m].priv_size, ![mi].buf_iova = s[m].buf_iova,
     ![mi].buf_addr = s[m].buf_addr, ![mi].buf_len = s[m].buf_len,
     ![mi].data_off = s[m].data_off, ![mi].data_len = s[m].data_len,
     ![mi].next = NULL, ![mi].pkt_len = s[m].data_len, ![mi].nb_segs = 1, ![mi].attached = TRUE]

(* The buffer of its own that m gets back.                                  *)
MutRestore(s, m) ==
  LET mbuf_size == SizeofMbuf + rte_pktmbuf_priv_size(pool(m)) IN
  rte_pktmbuf_reset_headroom(
    [s EXCEPT ![m].priv_size = rte_pktmbuf_priv_size(pool(m)), ![m].buf_addr = <<m, mbuf_size>>,
              ![m].buf_iova = Plus(rte_mempool_virt2iova(m), mbuf_size),
              ![m].data_len = 0, ![m].attached = FALSE], m)
Restore(s, m) ==
  LET mbuf_size == SizeofMbuf + rte_pktmbuf_priv_size(pool(m)) IN
  rte_pktmbuf_reset_headroom(
    [s EXCEPT ![m].priv_size = rte_pktmbuf_priv_size(pool(m)), ![m].buf_addr = <<m, mbuf_size>>,
              ![m].buf_iova = Plus(rte_mempool_virt2iova(m), mbuf_size),
              ![m].buf_len = rte_pktmbuf_data_room_size(pool(m)),
              ![m].data_len = 0, ![m].attached = FALSE], m)

(* The owner of the buffer goes back to its pool with its last reference.   *)
rte_pktmbuf_detach(s, m) ==
  LET md == rte_mbuf_from_indirect(s, m)
      s1 == rte_mbuf_refcnt_update(Restore(s, m), md, -1)
  IN IF rte_mbuf_refcnt_read(s1, md) # 0 THEN s1
     ELSE rte_mbuf_raw_free(
            rte_mbuf_refcnt_set([s1 EXCEPT ![md].next = NULL, ![md].nb_segs = 1], md, 1), md)

(* rte_pktmbuf_prefree_seg for an mbuf nobody else refers to.               *)
Release(s, m) ==
  LET s1 == IF RTE_MBUF_INDIRECT(s, m) THEN rte_pktmbuf_detach(s, m) ELSE s
  IN IF s1[m].next # NULL THEN [s1 EXCEPT ![m].next = NULL, ![m].nb_segs = 1] ELSE s1

rte_pktmbuf_free_seg(s, m) ==
  LET s1 == rte_mbuf_refcnt_update(s, m, -1) IN
  IF rte_mbuf_refcnt_read(s, m) = 1 THEN rte_mbuf_raw_free(Release(s, m), m)
  ELSE IF rte_mbuf_refcnt_read(s1, m) = 0
  THEN rte_mbuf_raw_free(rte_mbuf_refcnt_set(Release(s1, m), m, 1), m)
  ELSE s1

(* The loop of rte_pktmbuf_free: next is read before its segment is freed.  *)
FreeChain(s, m) ==
  LET at[n \in 0 .. Cardinality(Mbufs)] ==
        IF n = 0 THEN [mem |-> s, m |-> m]
        ELSE IF at[n - 1].m = NULL THEN at[n - 1]
        ELSE [mem |-> rte_pktmbuf_free_seg(at[n - 1].mem, at[n - 1].m),
              m |-> at[n - 1].mem[at[n - 1].m].next]
  IN at[Cardinality(Mbufs)].mem

(* The loop of rte_pktmbuf_clone: fs are the mbufs that the pool gives, in  *)
(* order, one for each segment of md until it is empty.                     *)
CloneSegs(s, md, fs) ==
  LET at[i \in 0 .. Len(fs)] ==
        IF i = 0 THEN s
        ELSE LET s1 == rte_pktmbuf_attach(Alloc(at[i - 1], fs[i]), fs[i], Segs(s, md)[i])
             IN IF i = 1 THEN s1 ELSE [s1 EXCEPT ![fs[i - 1]].next = fs[i]]
  IN [at[Len(fs)] EXCEPT ![fs[1]].nb_segs = Len(fs), ![fs[1]].pkt_len = s[md].pkt_len]

-----------------------------------------------------------------------------
(* Calls of the application.                                                *)

Pooled == {m \in Mbufs : mb[m].in_pool > 0}
Free(mp) == {m \in Pooled : pool(m) = mp}

rte_pktmbuf_alloc(m) ==
  /\ m \in Pooled
  /\ mb' = Alloc(mb, m)
  /\ held' = [held EXCEPT ![m] = 1]

(* All of ms or, when the pool has fewer, none (the call changes nothing).  *)
rte_pktmbuf_alloc_bulk(ms) ==
  /\ \E mp \in Pools : ms \subseteq Free(mp)
  /\ mb' = [m \in Mbufs |-> IF m \in ms THEN Alloc(mb, m)[m] ELSE mb[m]]
  /\ held' = [m \in Mbufs |-> IF m \in ms THEN 1 ELSE held[m]]

rte_pktmbuf_free(h) ==
  /\ held[h] > 0
  /\ held' = [held EXCEPT ![h] = @ - 1]
  /\ mb' = FreeChain(mb, h)

MutCloneFails(h, mp) ==
  /\ held[h] > 0 /\ Free(mp) # {}
  /\ Cardinality(Free(mp)) < Len(Segs(mb, h))
  /\ \E fs \in SetToSeqs(Free(mp)) : mb' = CloneSegs(mb, h, fs)
  /\ UNCHANGED held
(* The pool ran out after some segments: what was built is freed again.     *)
CloneFails(h, mp) ==
  /\ held[h] > 0 /\ Free(mp) # {}
  /\ Cardinality(Free(mp)) < Len(Segs(mb, h))
  /\ \E fs \in SetToSeqs(Free(mp)) : mb' = FreeChain(CloneSegs(mb, h, fs), fs[1])
  /\ UNCHANGED held

rte_pktmbuf_clone(h, mp) ==
  /\ held[h] > 0
  /\ \E fs \in SetToAllKPermutations(Free(mp)) :
       /\ Len(fs) = Len(Segs(mb, h))
       /\ mb' = CloneSegs(mb, h, fs)
       /\ held' = [held EXCEPT ![fs[1]] = 1]

(* rte_pktmbuf_refcnt_update(h, 1): a second reference to the whole packet. *)
MutRefcntUpdate(h) ==
  /\ held[h] \in 1 .. (MaxHeld - 1)
  /\ mb' = rte_mbuf_refcnt_update(mb, h, 1)
  /\ held' = [held EXCEPT ![h] = @ + 1]
rte_pktmbuf_refcnt_update(h) ==
  /\ held[h] \in 1 .. (MaxHeld - 1)
  /\ LET segs == Range(Segs(mb, h)) IN
     mb' = [m \in Mbufs |-> IF m \in segs THEN rte_mbuf_refcnt_update(mb, m, 1)[m] ELSE mb[m]]
  /\ held' = [held EXCEPT ![h] = @ + 1]

(* The calls below change a packet; the application makes them only on      *)
(* packets it holds the one reference to.                                   *)
rte_pktmbuf_prepend(h, len) ==
  /\ held[h] = 1
  /\ len <= rte_pktmbuf_headroom(mb, h)
  /\ mb' = [mb EXCEPT ![h].data_off = @ - len, ![h].data_len = (@ + len) % UINT16,
                      ![h].pkt_len = @ + len]
  /\ UNCHANGED held

rte_pktmbuf_append(h, len) ==
  LET m_last == rte_pktmbuf_lastseg(mb, h) IN
  /\ held[h] = 1
  /\ len <= rte_pktmbuf_tailroom(mb, m_last)
  /\ mb' = [[mb EXCEPT ![m_last].data_len = (@ + len) % UINT16] EXCEPT ![h].pkt_len = @ + len]
  /\ UNCHANGED held

rte_pktmbuf_adj(h, len) ==
  /\ held[h] = 1
  /\ len <= mb[h].data_len
  /\ mb' = [mb EXCEPT ![h].data_len = (@ - len) % UINT16, ![h].data_off = @ + len,
                      ![h].pkt_len = @ - len]
  /\ UNCHANGED held

rte_pktmbuf_trim(h, len) ==
  LET m_last == rte_pktmbuf_lastseg(mb, h) IN
  /\ held[h] = 1
  /\ len <= mb[m_last].data_len
  /\ mb' = [[mb EXCEPT ![m_last].data_len = (@ - len) % UINT16] EXCEPT ![h].pkt_len = @ - len]
  /\ UNCHANGED held

rte_pktmbuf_chain(h, t) ==
  /\ h # t /\ held[h] = 1 /\ held[t] = 1
  /\ mb[h].nb_segs + mb[t].nb_segs <= RTE_MBUF_MAX_NB_SEGS
  /\ mb' = [[mb EXCEPT ![rte_pktmbuf_lastseg(mb, h)].next = t] EXCEPT
              ![h].nb_segs = @ + mb[t].nb_segs, ![h].pkt_len = @ + mb[t].pkt_len,
              ![t].pkt_len = mb[t].data_len]
  /\ held' = [held EXCEPT ![t] = 0]

rte_pktmbuf_linearize(h) ==
  /\ held[h] = 1
  /\ ~rte_pktmbuf_is_contiguous(mb, h)
  /\ mb[h].pkt_len - mb[h].data_len <= rte_pktmbuf_tailroom(mb, h)
  /\ LET s == FreeChain([mb EXCEPT ![h].data_len = mb[h].pkt_len % UINT16], mb[h].next)
     IN mb' = [s EXCEPT ![h].next = NULL, ![h].nb_segs = 1]
  /\ UNCHANGED held

MbufNext ==
  \/ \E m \in Mbufs : rte_pktmbuf_alloc(m)
  \/ \E ms \in SUBSET Mbufs : rte_pktmbuf_alloc_bulk(ms)
  \/ \E h \in Mbufs :
       rte_pktmbuf_free(h) \/ rte_pktmbuf_refcnt_update(h) \/ rte_pktmbuf_linearize(h)
  \/ \E h \in Mbufs, mp \in Pools : rte_pktmbuf_clone(h, mp) \/ CloneFails(h, mp)
  \/ \E h \in Mbufs, len \in 1 .. MaxLen :
       \/ rte_pktmbuf_prepend(h, len) \/ rte_pktmbuf_append(h, len)
       \/ rte_pktmbuf_adj(h, len) \/ rte_pktmbuf_trim(h, len)
  \/ \E h, t \in Mbufs : rte_pktmbuf_chain(h, t)

MbufSpec == MbufInit /\ [][MbufNext]_mbufVars

-----------------------------------------------------------------------------
(* Properties *)

Packets == {h \in Mbufs : held[h] > 0}
SegSet(h) == Range(Segs(mb, h))
DataLen(s, segs) == FoldLeft(LAMBDA n, m : n + s[m].data_len, 0, segs)

(* len bytes at addr lie in the data room of an mbuf that is in use.        *)
InDataRoom(addr, len) ==
  LET md == addr[1]
      base == rte_mbuf_to_baddr(md)
  IN /\ mb[md].in_pool = 0
     /\ base[2] <= addr[2]
     /\ addr[2] + len <= base[2] + rte_pktmbuf_data_room_size(pool(md))

(* Every packet the application holds is what the drivers assume: its chain *)
(* is as long as nb_segs and ends in NULL, pkt_len is the sum of its        *)
(* segments' data_len; the data of every segment, own or shared with a      *)
(* clone from another pool, lies in the data room of an mbuf that is not in *)
(* its pool, at the same place for the processor and the NIC, and so does   *)
(* whatever rte_pktmbuf_read points to.  Every field keeps its width.       *)
PacketWellFormed ==
  MbufTypeOK /\ \A h \in Packets :
    LET segs == Segs(mb, h) IN
    /\ mb[h].nb_segs = Len(segs)
    /\ mb[Last(segs)].next = NULL
    /\ mb[h].pkt_len = DataLen(mb, segs)
    /\ \A m \in Range(segs) :
         /\ InDataRoom(rte_pktmbuf_mtod_offset(mb, m, 0), mb[m].data_len)
         /\ rte_mbuf_data_iova(mb, m) = rte_pktmbuf_mtod_offset(mb, m, 0)
    /\ \A off \in 0 .. mb[h].pkt_len : \A len \in 0 .. (mb[h].pkt_len - off) :
         LET p == rte_pktmbuf_read(mb, h, off, len) IN p = <<"copy">> \/ InDataRoom(p, len)

(* What MBUF_RAW_ALLOC_CHECK and rte_mbuf_raw_free assert of an mbuf in its *)
(* pool: count 1, no next, one segment; its buffer, length and private area *)
(* are its own again, whatever it was attached to, so that a driver which   *)
(* refills from the pool lets the NIC write behind the headroom of its own  *)
(* data room; and no packet or attached mbuf uses it.                       *)
PooledIsClean ==
  \A m \in Pooled :
    /\ mb[m].refcnt = 1 /\ mb[m].next = NULL /\ mb[m].nb_segs = 1
    /\ RTE_MBUF_DIRECT(mb, m)
    /\ mb[m].buf_addr = rte_mbuf_to_baddr(m)
    /\ rte_mbuf_data_iova_default(mb, m) = Plus(rte_mbuf_to_baddr(m), RTE_PKTMBUF_HEADROOM)
    /\ mb[m].buf_len = rte_pktmbuf_data_room_size(pool(m))
    /\ mb[m].priv_size = rte_pktmbuf_priv_size(pool(m))
    /\ \A h \in Packets : m \notin SegSet(h)
    /\ \A i \in Mbufs \ {m} : Owner(mb, i) # m

(* The count of an mbuf outside the pool is the references to the packet it *)
(* is a segment of plus the mbufs attached to its buffer, and is not 0: no  *)
(* call, the clone that fails halfway included, leaks a segment or drops    *)
(* one too many.  No segment is in two packets.                             *)
RefcntExact ==
  \A m \in Mbufs \ Pooled :
    LET users == {h \in Packets : m \in SegSet(h)}
        attached == {i \in Mbufs \ {m} : Owner(mb, i) = m}
    IN /\ Cardinality(users) <= 1
       /\ mb[m].refcnt = (IF users = {} THEN 0 ELSE held[CHOOSE h \in users : TRUE])
                         + Cardinality(attached)
       /\ mb[m].refcnt > 0

(* Freeing a reference leaves every packet that is still held exactly as it *)
(* was: the same segments, data and lengths, even when the freed chain was  *)
(* cloned from it, shares it or owned the buffers it uses.                  *)
FreeKeepsOthers ==
  [][\A h \in Mbufs : rte_pktmbuf_free(h) =>
       \A g \in Mbufs : held'[g] > 0 =>
         /\ Segs(mb', g) = Segs(mb, g)
         /\ mb'[g].pkt_len = mb[g].pkt_len
         /\ \A m \in SegSet(g) :
              /\ mb'[m].buf_addr = mb[m].buf_addr /\ mb'[m].data_off = mb[m].data_off
              /\ mb'[m].data_len = mb[m].data_len]_mbufVars
=============================================================================

------------------------------ MODULE MbufRefcnt ------------------------------
(***************************************************************************)
(* Reference counting of packet buffers shared by several lcores           *)
(* (src/src/ext/rte_mbuf.c, built with RTE_MBUF_REFCNT_ATOMIC).            *)
(*                                                                         *)
(* A direct mbuf owns its buffer; an indirect one is attached to the       *)
(* buffer of a direct one, which counts it as a reference.  The count is   *)
(* read with a plain load; when it reads 1 the code stores the new value   *)
(* without an atomic operation.  Each load, store and atomic add is a step *)
(* of its own, so that what another lcore does in between can be seen.     *)
(* Packets have one segment here; RteMbuf models chains.                   *)
(***************************************************************************)
EXTENDS Integers, FiniteSets

CONSTANTS
  Lcores,
  Mbufs,          \* the mbufs of one mempool
  None,           \* no mbuf
  ShareIndirect,  \* may a clone be handed to a second lcore by raising its own count?
  MaxRefs         \* bound: references to one mbuf that the lcores hold together

ASSUME NoneAssumption == None \notin Mbufs
ASSUME FiniteAssumption == IsFiniteSet(Lcores) /\ IsFiniteSet(Mbufs)
ASSUME ShareAssumption == ShareIndirect \in BOOLEAN
ASSUME RefsAssumption == MaxRefs \in Nat \ {0}

VARIABLES
  refcnt,   \* m->refcnt_atomic
  buf,      \* the mbuf whose buffer buf_addr points into; m itself when direct
  pool,     \* how often m is in the mempool: 0 or 1 unless freed twice
  refs,     \* refs[l][m]: references to m that lcore l holds
  op        \* what each lcore is doing: its step and its locals

vars == <<refcnt, buf, pool, refs, op>>

Idle == [pc |-> "idle", m |-> None, md |-> None, mi |-> None, to |-> None,
         zero |-> FALSE]

RTE_MBUF_INDIRECT(m) == buf[m] # m

Attached(m) == {i \in Mbufs \ {m} : buf[i] = m}

(* The references to m that the lcores hold, one by one.                    *)
Refs(m) == UNION {{<<"ref", l, j>> : j \in 1 .. refs[l][m]} : l \in Lcores}
Held(m) == Cardinality(Refs(m))

Call ==
  [pc : {"idle", "attach", "attach_set", "attach_add", "share", "share_set", "share_add",
         "free", "free_dec", "detach", "detach_set", "detach_add", "put_direct", "put"},
   m : Mbufs \cup {None}, md : Mbufs \cup {None}, mi : Mbufs \cup {None},
   to : Lcores \cup {None}, zero : BOOLEAN]

TypeOK ==
  /\ refcnt \in [Mbufs -> Nat]
  /\ buf \in [Mbufs -> Mbufs]
  /\ pool \in [Mbufs -> Nat]
  /\ refs \in [Lcores -> [Mbufs -> Nat]]
  /\ op \in [Lcores -> Call]

(* rte_pktmbuf_pool_create: every mbuf direct, count 1, in the pool. *)
Init ==
  /\ refcnt = [m \in Mbufs |-> 1]
  /\ buf = [m \in Mbufs |-> m]
  /\ pool = [m \in Mbufs |-> 1]
  /\ refs = [l \in Lcores |-> [m \in Mbufs |-> 0]]
  /\ op = [l \in Lcores |-> Idle]

-----------------------------------------------------------------------------
(* rte_mempool_get is external: it hands out some mbuf of the pool.         *)
rte_mempool_get(m) == pool[m] > 0 /\ pool' = [pool EXCEPT ![m] = @ - 1]
rte_mempool_put(m) == pool' = [pool EXCEPT ![m] = @ + 1]

rte_pktmbuf_alloc(l) ==
  /\ op[l].pc = "idle"
  /\ \E m \in Mbufs :
       /\ rte_mempool_get(m)
       /\ refs' = [refs EXCEPT ![l][m] = @ + 1]
  /\ UNCHANGED <<refcnt, buf, op>>

(* The step that follows the read of a count: a plain store when it reads 1 *)
(* (rte_mbuf_refcnt_update), an atomic add otherwise.                       *)
MutPathOf(m, set, add) == set
PathOf(m, set, add) == IF refcnt[m] = 1 THEN set ELSE add

(* rte_pktmbuf_clone of m, which l holds: a fresh mbuf mi is attached to    *)
(* the buffer m uses.  With an empty pool it returns NULL and does nothing. *)
rte_pktmbuf_clone(l) ==
  /\ op[l].pc = "idle"
  /\ \E m, mi \in Mbufs :
       /\ refs[l][m] > 0
       /\ rte_mempool_get(mi)
       /\ op' = [op EXCEPT ![l] = [Idle EXCEPT !.pc = "attach", !.m = m, !.mi = mi, !.md = buf[m]]]
  /\ UNCHANGED <<refcnt, buf, refs>>

(* rte_pktmbuf_attach: the count of the buffer's owner, then mi's fields.   *)
AttachRead(l) ==
  /\ op[l].pc = "attach"
  /\ op' = [op EXCEPT ![l].pc = PathOf(op[l].md, "attach_set", "attach_add")]
  /\ UNCHANGED <<refcnt, buf, pool, refs>>

AttachUpdate(l) ==
  /\ \/ /\ op[l].pc = "attach_set"
        /\ refcnt' = [refcnt EXCEPT ![op[l].md] = 2]
     \/ /\ op[l].pc = "attach_add"
        /\ refcnt' = [refcnt EXCEPT ![op[l].md] = @ + 1]
  /\ buf' = [buf EXCEPT ![op[l].mi] = op[l].md]
  /\ refs' = [refs EXCEPT ![l][op[l].mi] = @ + 1]
  /\ op' = [op EXCEPT ![l] = Idle]
  /\ UNCHANGED pool

(* rte_pktmbuf_refcnt_update(m, 1): l makes a second reference to m, and    *)
(* hands it to lcore to once the count includes it.                         *)
rte_pktmbuf_refcnt_update(l) ==
  /\ op[l].pc = "idle"
  /\ \E m \in Mbufs, to \in Lcores :
       /\ refs[l][m] > 0
       /\ RTE_MBUF_INDIRECT(m) => ShareIndirect
       /\ Held(m) < MaxRefs
       /\ op' = [op EXCEPT ![l] = [Idle EXCEPT !.pc = "share", !.m = m, !.to = to]]
  /\ UNCHANGED <<refcnt, buf, pool, refs>>

ShareRead(l) ==
  /\ op[l].pc = "share"
  /\ op' = [op EXCEPT ![l].pc = PathOf(op[l].m, "share_set", "share_add")]
  /\ UNCHANGED <<refcnt, buf, pool, refs>>

ShareUpdate(l) ==
  /\ \/ /\ op[l].pc = "share_set"
        /\ refcnt' = [refcnt EXCEPT ![op[l].m] = 2]
     \/ /\ op[l].pc = "share_add"
        /\ refcnt' = [refcnt EXCEPT ![op[l].m] = @ + 1]
  /\ refs' = [refs EXCEPT ![op[l].to][op[l].m] = @ + 1]
  /\ op' = [op EXCEPT ![l] = Idle]
  /\ UNCHANGED <<buf, pool>>

(* rte_pktmbuf_free of a reference of l.                                    *)
rte_pktmbuf_free(l) ==
  /\ op[l].pc = "idle"
  /\ \E m \in Mbufs :
       /\ refs[l][m] > 0
       /\ refs' = [refs EXCEPT ![l][m] = @ - 1]
       /\ op' = [op EXCEPT ![l] = [Idle EXCEPT !.pc = "free", !.m = m]]
  /\ UNCHANGED <<refcnt, buf, pool>>

(* Where rte_pktmbuf_prefree_seg goes once m is l's alone: detach, then put. *)
AfterLast(m) == IF RTE_MBUF_INDIRECT(m) THEN "detach" ELSE "put"

(* rte_pktmbuf_prefree_seg, first test: the count reads 1.                  *)
MutPrefreeRead(l) ==
  /\ op[l].pc = "free"
  /\ op' = [op EXCEPT ![l].pc = AfterLast(op[l].m)]
  /\ UNCHANGED <<refcnt, buf, pool, refs>>
PrefreeRead(l) ==
  /\ op[l].pc = "free"
  /\ op' = [op EXCEPT ![l].pc = PathOf(op[l].m, AfterLast(op[l].m), "free_dec")]
  /\ UNCHANGED <<refcnt, buf, pool, refs>>

(* Second test: the atomic decrement gives 0 to exactly one lcore.          *)
PrefreeDec(l) ==
  /\ op[l].pc = "free_dec"
  /\ refcnt' = [refcnt EXCEPT ![op[l].m] = @ - 1]
  /\ op' = [op EXCEPT ![l] = IF refcnt[op[l].m] = 1
                               THEN [op[l] EXCEPT !.pc = AfterLast(op[l].m), !.zero = TRUE]
                               ELSE Idle]
  /\ UNCHANGED <<buf, pool, refs>>

(* rte_pktmbuf_detach: m gets its own buffer back, then the owner's count   *)
(* drops.                                                                   *)
DetachRead(l) ==
  /\ op[l].pc = "detach"
  /\ LET md == buf[op[l].m] IN
     op' = [op EXCEPT ![l].md = md, ![l].pc = PathOf(md, "detach_set", "detach_add")]
  /\ buf' = [buf EXCEPT ![op[l].m] = op[l].m]
  /\ UNCHANGED <<refcnt, pool, refs>>

DetachUpdate(l) ==
  /\ \/ /\ op[l].pc = "detach_set"
        /\ refcnt' = [refcnt EXCEPT ![op[l].md] = 0]
        /\ op' = [op EXCEPT ![l].pc = "put_direct"]
     \/ /\ op[l].pc = "detach_add"
        /\ refcnt' = [refcnt EXCEPT ![op[l].md] = @ - 1]
        /\ op' = [op EXCEPT ![l].pc = IF refcnt[op[l].md] = 1 THEN "put_direct" ELSE "put"]
  /\ UNCHANGED <<buf, pool, refs>>

(* The last reference to a buffer's owner went with the detached mbuf.      *)
PutDirect(l) ==
  /\ op[l].pc = "put_direct"
  /\ refcnt' = [refcnt EXCEPT ![op[l].md] = 1]
  /\ rte_mempool_put(op[l].md)
  /\ op' = [op EXCEPT ![l].pc = "put", ![l].md = None]
  /\ UNCHANGED <<buf, refs>>

(* rte_mbuf_raw_free; a count that went to 0 is set back to 1 before.       *)
MutPut(l) ==
  /\ op[l].pc = "put"
  /\ rte_mempool_put(op[l].m)
  /\ op' = [op EXCEPT ![l] = Idle]
  /\ UNCHANGED <<refcnt, buf, refs>>
rte_mbuf_raw_free(l) ==
  /\ op[l].pc = "put"
  /\ refcnt' = IF op[l].zero THEN [refcnt EXCEPT ![op[l].m] = 1] ELSE refcnt
  /\ rte_mempool_put(op[l].m)
  /\ op' = [op EXCEPT ![l] = Idle]
  /\ UNCHANGED <<buf, refs>>

-----------------------------------------------------------------------------
Next ==
  \E l \in Lcores :
    \/ rte_pktmbuf_alloc(l)
    \/ rte_pktmbuf_clone(l) \/ AttachRead(l) \/ AttachUpdate(l)
    \/ rte_pktmbuf_refcnt_update(l) \/ ShareRead(l) \/ ShareUpdate(l)
    \/ rte_pktmbuf_free(l) \/ PrefreeRead(l) \/ PrefreeDec(l)
    \/ DetachRead(l) \/ DetachUpdate(l) \/ PutDirect(l) \/ rte_mbuf_raw_free(l)

Spec == Init /\ [][Next]_vars

-----------------------------------------------------------------------------
(* Properties *)

(* A call of lcore l has read the count of m and is about to change it.     *)
AboutToUpdate(l, m) ==
  \/ op[l].pc \in {"attach_set", "attach_add", "detach_set", "detach_add"} /\ op[l].md = m
  \/ op[l].pc \in {"share_set", "share_add", "free_dec"} /\ op[l].m = m

(* An lcore that read the count 1 stores the new count without an atomic    *)
(* add; meanwhile no other lcore is changing the same count, because        *)
(* "we know we are the uniq holder of this mbuf (i.e. ref_cnt == 1)"      *)
(* (rte_mbuf.c:773-779).                                                    *)
UniqHolder ==
  \A l, k \in Lcores, m \in Mbufs :
    /\ l # k
    /\ op[l].pc \in {"attach_set", "detach_set", "share_set"}
    /\ AboutToUpdate(l, m)
    => ~AboutToUpdate(k, m)

(* An mbuf in the pool is there once, has the count 1 and its own buffer    *)
(* (MBUF_RAW_ALLOC_CHECK and the assertions of rte_mbuf_raw_free), and no   *)
(* lcore holds it or anything attached to its buffer: whatever order the    *)
(* lcores free their references in, the last one and only the last one puts *)
(* the mbuf back.                                                           *)
PooledIsUnused ==
  \A m \in Mbufs : pool[m] > 0 =>
    /\ pool[m] = 1
    /\ refcnt[m] = 1
    /\ ~RTE_MBUF_INDIRECT(m)
    /\ Attached(m) = {}
    /\ Held(m) = 0

(* When no call is under way the count of every mbuf outside the pool is    *)
(* the number of references the lcores hold plus the mbufs attached to its  *)
(* buffer, and it is outside the pool because there is one: no count drifts *)
(* and no mbuf leaks.  At all times counts and references have their types. *)
CountIsExact ==
  /\ TypeOK
  /\ (\A l \in Lcores : op[l].pc = "idle") =>
       \A m \in Mbufs : pool[m] = 0 =>
         /\ refcnt[m] = Held(m) + Cardinality(Attached(m))
         /\ refcnt[m] > 0

-----------------------------------------------------------------------------
(* The inductive invariant behind them *)

Attaching == {"attach", "attach_set", "attach_add"}
Sharing   == {"share", "share_set", "share_add"}
Detaching == {"detach_set", "detach_add"}

(* A call of l stands for one unit of m's count that is in nobody's hand:   *)
(* the clone it is setting up, the reference it is giving up, the owner it  *)
(* has detached from, the mbuf it is about to put back.                     *)
CallHolds(l, m) ==
  \/ op[l].pc \in Attaching /\ op[l].mi = m
  \/ op[l].pc \in {"free", "free_dec"} /\ op[l].m = m
  \/ op[l].pc \in Detaching /\ op[l].md = m
  \/ op[l].pc \in Detaching \cup {"detach", "put_direct", "put"} /\ op[l].m = m /\ ~op[l].zero

Clones(m)  == {<<"mbuf", i, 0>> : i \in Attached(m)}
Calls(m)   == {<<"call", l, 0>> : l \in {k \in Lcores : CallHolds(k, m)}}
InPool(m)  == {<<"pool", m, j>> : j \in 1 .. pool[m]}
Holders(m) == (Refs(m) \cup Clones(m)) \cup (Calls(m) \cup InPool(m))

(* A call of l took m's count to 0 and will set it back.                    *)
Kills(l, m) ==
  \/ op[l].pc = "put_direct" /\ op[l].md = m
  \/ op[l].pc = "put" /\ op[l].zero /\ op[l].m = m

(* What a call of l knows at each of its steps; what it read before it      *)
(* stores without an atomic operation is still so.                          *)
Locals(l) ==
  LET pc == op[l].pc  m == op[l].m  md == op[l].md  mi == op[l].mi IN
  /\ pc \in Attaching =>
       /\ m \in Mbufs /\ mi \in Mbufs /\ refs[l][m] > 0 /\ md = buf[m]
       /\ buf[mi] = mi /\ refcnt[mi] = 1
       /\ pc = "attach_set" => refcnt[md] = 1
  /\ pc \in Sharing =>
       /\ m \in Mbufs /\ op[l].to \in Lcores /\ refs[l][m] > 0 /\ buf[m] = m
       /\ pc = "share_set" => refcnt[m] = 1
  /\ pc \in {"free", "free_dec"} => m \in Mbufs
  /\ pc = "free_dec" => buf[m] = m
  /\ pc = "detach" => m \in Mbufs /\ buf[m] # m
  /\ pc \in Detaching \cup {"put_direct"} =>
       /\ m \in Mbufs /\ md \in Mbufs /\ m # md /\ buf[m] = m /\ buf[md] = md /\ refcnt[m] = 1
       /\ pc = "detach_set" => refcnt[md] = 1
       /\ pc = "put_direct" => refcnt[md] = 0
  /\ pc = "put" => m \in Mbufs /\ buf[m] = m /\ refcnt[m] = IF op[l].zero THEN 0 ELSE 1
  /\ pc # "put" => ~op[l].zero

(* While no lcore shares an indirect mbuf: the count of an mbuf is the      *)
(* number of its holders at every step of every call, an attached mbuf has  *)
(* one holder, what the calls know holds, and an mbuf without a holder is   *)
(* about to be put back by exactly one call.                                *)
RefInv ==
  /\ TypeOK
  /\ \A m \in Mbufs : IsFiniteSet(Holders(m)) /\ refcnt[m] = Cardinality(Holders(m))
  /\ \A m \in Mbufs : buf[buf[m]] = buf[m]
  /\ \A m \in Mbufs : buf[m] # m => refcnt[m] = 1
  /\ \A m \in Mbufs : pool[m] > 0 => refcnt[m] = 1 /\ buf[m] = m
  /\ \A l \in Lcores : Locals(l)
  /\ \A l, k \in Lcores, m \in Mbufs : Kills(l, m) /\ Kills(k, m) => l = k
  /\ \A m \in Mbufs : refcnt[m] = 0 => \E l \in Lcores : Kills(l, m)
=============================================================================

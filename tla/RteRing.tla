------------------------------- MODULE RteRing -------------------------------
(***************************************************************************)
(* The lock-free ring of src/src/ext/rte_ring.c and its peeking dequeue    *)
(* (src/src/ext/rte_ring_extra.c, the macro rte_ring_sc_dequeue_burst of   *)
(* src/src/dpdk/inlines.cr).                                               *)
(*                                                                         *)
(* A ring has two sides, the producers' and the consumers', each a struct  *)
(* rte_ring_headtail.  An operation of either side claims n positions by   *)
(* moving its side's head, copies n object pointers, and hands the         *)
(* positions to the other side by moving its side's tail.  Every load,     *)
(* store, compare-and-set and copied pointer is a step of its own.         *)
(*                                                                         *)
(* The functions that move the indices live in DPDK's rte_ring_generic.h,  *)
(* which is not in the repository: LoadHead, LoadOppositeTail, MoveHead    *)
(* and update_tail are modelled from how rte_ring.c uses them.             *)
(***************************************************************************)
EXTENDS Integers, Sequences

CONSTANTS
  Producers,      \* lcores that enqueue
  Consumers,      \* lcores that dequeue
  Size,           \* slots of the ring array, a power of two
  Capacity,       \* usable slots: Size - 1, or less with RING_F_EXACT_SZ
  IndexMod,       \* indices are uint32_t: IndexMod is 2^32, scaled down for TLC
  ProdSingle,     \* prod.single: the ring was created with RING_F_SP_ENQ
  ConsSingle,     \* cons.single: the ring was created with RING_F_SC_DEQ
  MaxBurst,       \* bound: the largest n passed to a call
  MaxObj,         \* bound: how many objects are ever offered to the ring
  Starts          \* index values at which the (empty) ring is first looked at

Threads == Producers \cup Consumers

Index == 0 .. IndexMod - 1

ASSUME SidesAssumption == Producers \cap Consumers = {}
ASSUME SizeAssumption ==
  /\ Size \in Nat \ {0}
  /\ Capacity \in 1 .. Size - 1
  /\ IndexMod \in Nat
  /\ Size < IndexMod
  /\ IndexMod % Size = 0
ASSUME BoundAssumption ==
  /\ MaxBurst \in Nat \ {0}
  /\ MaxObj \in Nat
  /\ Starts \subseteq Index
ASSUME FlagAssumption ==
  /\ ProdSingle \in BOOLEAN
  /\ ConsSingle \in BOOLEAN

VARIABLES
  users,    \* the lcores that call this ring's functions; the others never do
  head,     \* head[side]: prod.head and cons.head
  tail,     \* tail[side]: prod.tail and cons.tail
  ring,     \* the array of object pointers that follows the struct; 0 is "never written"
  pc,       \* where each lcore is in its current call
  how,      \* "single", "multi" or "peek": how the call moves its head and tail
  fixed,    \* RTE_RING_QUEUE_FIXED (bulk) or _VARIABLE (burst)
  max,      \* n as passed by the caller
  n,        \* n as reduced by the head move
  old,      \* old_head of the call
  tbl,      \* obj_table: what a producer offers, what a consumer has copied so far
  copied,   \* pointers copied so far
  offered,  \* number of objects offered so far; object ids are 1..offered
  lag       \* history: positions the head moved since the call loaded it

idx  == <<head, tail>>
loc  == <<how, fixed, max, users>>
vars == <<users, head, tail, ring, pc, how, fixed, max, n, old, tbl, copied, offered, lag>>

(* uint32_t addition and subtraction of two indices.  The Mut... variants   *)
(* here and below are seeded faults: the runs must tell them from the code. *)
Plus(a, b)  == IF a + b >= IndexMod THEN a + b - IndexMod ELSE a + b
Minus(a, b) == IF a >= b THEN a - b ELSE a - b + IndexMod

(* The slot of an index: idx & r->mask. *)
Slot(i) == i % Size

SideOf(t) == IF t \in Producers THEN "prod" ELSE "cons"
(* The application gave one side of the ring to t only.                     *)
Alone(t)  == t \in users /\ \A u \in users : SideOf(u) = SideOf(t) => u = t

(* A call is past its head move and owns the positions old .. old + n - 1. *)
Claims(t) == pc[t] \in {"copy", "block", "tail"}
(* A call has loaded a head that another call may since have moved. *)
Loaded(t) == pc[t] \in {"opposite", "move"}

TypeOK ==
  /\ users \subseteq Threads
  /\ head \in [{"prod", "cons"} -> Index]
  /\ tail \in [{"prod", "cons"} -> Index]
  /\ ring \in [0 .. Size - 1 -> Nat]
  /\ pc \in [Threads -> {"idle", "head", "opposite", "move", "copy", "block", "tail"}]
  /\ how \in [Threads -> {"single", "multi", "peek"}]
  /\ fixed \in [Threads -> BOOLEAN]
  /\ max \in [Threads -> Nat]
  /\ n \in [Threads -> Nat]
  /\ old \in [Threads -> Index]
  /\ tbl \in [Threads -> Seq(Nat)]
  /\ copied \in [Threads -> Nat]
  /\ offered \in Nat
  /\ lag \in [Threads -> Nat]

-----------------------------------------------------------------------------
(* rte_ring_create leaves an empty ring; Starts lets the window that is     *)
(* explored begin after some multiple of traffic, next to the index wrap.   *)
Init ==
  /\ users \in SUBSET Threads
  /\ users \cap Producers # {} /\ users \cap Consumers # {}
  /\ \E s \in Starts :
      /\ head = [side \in {"prod", "cons"} |-> s]
      /\ tail = [side \in {"prod", "cons"} |-> s]
      /\ ring = [i \in 0 .. Size - 1 |-> 0]
      /\ pc = [t \in Threads |-> "idle"]
      /\ how = [t \in Threads |-> "multi"]
      /\ fixed = [t \in Threads |-> FALSE]
      /\ max = [t \in Threads |-> 0]
      /\ n = [t \in Threads |-> 0]
      /\ old = [t \in Threads |-> 0]
      /\ tbl = [t \in Threads |-> <<>>]
      /\ copied = [t \in Threads |-> 0]
      /\ offered = 0
      /\ lag = [t \in Threads |-> 0]

(* The call returns; its locals are gone and obj_table is the caller's.     *)
Return(t) ==
  /\ pc' = [pc EXCEPT ![t] = "idle"]
  /\ n' = [n EXCEPT ![t] = 0]
  /\ old' = [old EXCEPT ![t] = 0]
  /\ tbl' = [tbl EXCEPT ![t] = <<>>]
  /\ copied' = [copied EXCEPT ![t] = 0]
  /\ lag' = [lag EXCEPT ![t] = 0]
  /\ how' = [how EXCEPT ![t] = "multi"]
  /\ fixed' = [fixed EXCEPT ![t] = FALSE]
  /\ max' = [max EXCEPT ![t] = 0]
  /\ UNCHANGED users

(* Entry of a call of t for m objects. *)
Enter(t, m, isFixed, mode) ==
  /\ t \in users
  /\ pc[t] = "idle"
  /\ pc' = [pc EXCEPT ![t] = "head"]
  /\ how' = [how EXCEPT ![t] = mode]
  /\ fixed' = [fixed EXCEPT ![t] = isFixed]
  /\ max' = [max EXCEPT ![t] = m]
  /\ UNCHANGED <<users, idx, ring, n, old, copied, lag>>

(* __rte_ring_do_enqueue: obj_table holds the next m objects.               *)
DoEnqueue(p, m, isFixed, isSp) ==
  /\ isSp => Alone(p)                   \* "NOT multi-producers safe"
  /\ offered + m <= MaxObj              \* bound
  /\ offered' = offered + m
  /\ tbl' = [tbl EXCEPT ![p] = [i \in 1 .. m |-> offered + i]]
  /\ Enter(p, m, isFixed, IF isSp THEN "single" ELSE "multi")

(* __rte_ring_do_dequeue                                                    *)
DoDequeue(c, m, isFixed, isSc) ==
  /\ isSc => Alone(c)                   \* "NOT multi-consumers safe"
  /\ Enter(c, m, isFixed, IF isSc THEN "single" ELSE "multi")
  /\ UNCHANGED <<tbl, offered>>

rte_ring_mp_enqueue_bulk(p, m)  == DoEnqueue(p, m, TRUE, FALSE)
rte_ring_sp_enqueue_bulk(p, m)  == DoEnqueue(p, m, TRUE, TRUE)
rte_ring_enqueue_bulk(p, m)     == DoEnqueue(p, m, TRUE, ProdSingle)
rte_ring_mp_enqueue(p)          == rte_ring_mp_enqueue_bulk(p, 1)
rte_ring_sp_enqueue(p)          == rte_ring_sp_enqueue_bulk(p, 1)
rte_ring_enqueue(p)             == rte_ring_enqueue_bulk(p, 1)
rte_ring_mp_enqueue_burst(p, m) == DoEnqueue(p, m, FALSE, FALSE)
rte_ring_sp_enqueue_burst(p, m) == DoEnqueue(p, m, FALSE, TRUE)
rte_ring_enqueue_burst(p, m)    == DoEnqueue(p, m, FALSE, ProdSingle)

rte_ring_mc_dequeue_bulk(c, m)  == DoDequeue(c, m, TRUE, FALSE)
rte_ring_sc_dequeue_bulk(c, m)  == DoDequeue(c, m, TRUE, TRUE)
rte_ring_dequeue_bulk(c, m)     == DoDequeue(c, m, TRUE, ConsSingle)
rte_ring_mc_dequeue(c)          == rte_ring_mc_dequeue_bulk(c, 1)
rte_ring_sc_dequeue(c)          == rte_ring_sc_dequeue_bulk(c, 1)
rte_ring_dequeue(c)             == rte_ring_dequeue_bulk(c, 1)
rte_ring_mc_dequeue_burst(c, m) == DoDequeue(c, m, FALSE, FALSE)
rte_ring_sc_dequeue_burst(c, m) == DoDequeue(c, m, FALSE, TRUE)
rte_ring_dequeue_burst(c, m)    == DoDequeue(c, m, FALSE, ConsSingle)

(* rte_ring_sc_dequeue_burst_peek: a single-consumer burst that leaves the  *)
(* tail to the caller.                                                      *)
rte_ring_sc_dequeue_burst_peek(c, m) ==
  /\ Alone(c)
  /\ Enter(c, m, FALSE, "peek")
  /\ UNCHANGED <<tbl, offered>>

-----------------------------------------------------------------------------
(* First load of a head move: *old_head = r->prod.head.                     *)
LoadHead(t) ==
  /\ pc[t] = "head"
  /\ old' = [old EXCEPT ![t] = head[SideOf(t)]]
  /\ lag' = [lag EXCEPT ![t] = 0]
  /\ pc' = [pc EXCEPT ![t] = "opposite"]
  /\ UNCHANGED <<idx, ring, loc, n, tbl, copied, offered>>

(* free_entries of a producer, entries of a consumer, from the opposite     *)
(* side's tail and the head loaded before it.                               *)
Available(t) ==
  IF t \in Producers THEN Minus(Plus(Capacity, tail["cons"]), old[t])
                     ELSE Minus(tail["prod"], old[t])

MutFit(want, avail, isFixed) ==
  IF want <= avail \/ isFixed THEN want ELSE avail

(* n reduced to what fits: all or nothing when FIXED, as much as possible   *)
(* when VARIABLE.                                                           *)
Fit(want, avail, isFixed) ==
  IF want <= avail THEN want ELSE IF isFixed THEN 0 ELSE avail

(* Second load, n, and the early return of an operation that moves nothing. *)
LoadOppositeTail(t) ==
  /\ pc[t] = "opposite"
  /\ LET fit == Fit(max[t], Available(t), fixed[t]) IN
     \/ /\ fit = 0
        /\ Return(t)
     \/ /\ fit > 0
        /\ n' = [n EXCEPT ![t] = fit]
        /\ pc' = [pc EXCEPT ![t] = "move"]
        /\ UNCHANGED <<loc, old, tbl, copied, lag>>
  /\ UNCHANGED <<idx, ring, offered>>

(* No lcore sleeps between its load of a head and its compare-and-set while *)
(* the others move that head by a whole turn of the 32-bit index: the       *)
(* compare-and-set cannot tell such a head from one that never moved.       *)
NoFullTurn(t) ==
  \A u \in Threads \ {t} :
    SideOf(u) = SideOf(t) /\ Loaded(u) => lag[u] + n[t] < IndexMod

(* rte_atomic32_cmpset finds another head than the one loaded. *)
MutCmpsetFails(t) == FALSE
CmpsetFails(t) == how[t] = "multi" /\ head[SideOf(t)] # old[t]

(* The claim: a plain store when single, else a compare-and-set that sends  *)
(* the call back to its first load when the head has moved.                 *)
MoveHead(t) ==
  /\ pc[t] = "move"
  /\ \/ /\ CmpsetFails(t)
        /\ pc' = [pc EXCEPT ![t] = "head"]
        /\ UNCHANGED <<head, lag>>
     \/ /\ ~CmpsetFails(t)
        /\ NoFullTurn(t)
        /\ head' = [head EXCEPT ![SideOf(t)] = Plus(old[t], n[t])]
        /\ pc' = [pc EXCEPT ![t] = "copy"]
        /\ lag' = [u \in Threads |->
                     IF u # t /\ SideOf(u) = SideOf(t) /\ Loaded(u)
                       THEN lag[u] + n[t] ELSE IF u = t THEN 0 ELSE lag[u]]
  /\ UNCHANGED <<tail, ring, loc, n, old, tbl, copied, offered>>

(* One pointer of ENQUEUE_PTRS; the wrap at the end of the array is Slot.   *)
ENQUEUE_PTR(p) ==
  /\ ring' = [ring EXCEPT ![Slot(Plus(old[p], copied[p]))] = tbl[p][copied[p] + 1]]
  /\ UNCHANGED tbl

(* One pointer of DEQUEUE_PTRS.                                             *)
DEQUEUE_PTR(c) ==
  /\ tbl' = [tbl EXCEPT ![c] = Append(@, ring[Slot(Plus(old[c], copied[c]))])]
  /\ UNCHANGED ring

Copy(t) ==
  /\ pc[t] = "copy"
  /\ copied' = [copied EXCEPT ![t] = @ + 1]
  /\ pc' = [pc EXCEPT ![t] =
              IF copied[t] + 1 < n[t] THEN "copy"
              ELSE IF how[t] = "peek" THEN "block" ELSE "tail"]
  /\ \/ t \in Producers /\ ENQUEUE_PTR(t)
     \/ t \in Consumers /\ DEQUEUE_PTR(t)
  /\ UNCHANGED <<idx, loc, n, old, offered, lag>>

(* The block the macro rte_ring_sc_dequeue_burst yields to, run on the      *)
(* peeked objects while their slots are still the consumer's.               *)
YieldBlock(c) ==
  /\ pc[c] = "block"
  /\ pc' = [pc EXCEPT ![c] = "tail"]
  /\ UNCHANGED <<idx, ring, loc, n, old, tbl, copied, offered, lag>>

(* Calls that claimed earlier positions have yet to publish them. *)
MutMustWait(t) == FALSE
MutMustWaitHead(t) == how[t] = "multi" /\ head[SideOf(t)] # Plus(old[t], n[t])
MustWait(t) == how[t] = "multi" /\ tail[SideOf(t)] # old[t]

(* update_tail: wait for the calls that claimed earlier positions, unless   *)
(* single; then publish the positions and return.                           *)
update_tail(t) ==
  /\ pc[t] = "tail"
  /\ how[t] # "peek"
  /\ ~MustWait(t)
  /\ tail' = [tail EXCEPT ![SideOf(t)] = Plus(old[t], n[t])]
  /\ Return(t)
  /\ UNCHANGED <<head, ring, offered>>

(* The macro's plain store of cons.tail after the block.                    *)
update_sc_tail(c) ==
  /\ pc[c] = "tail"
  /\ how[c] = "peek"
  /\ tail' = [tail EXCEPT !["cons"] = Plus(old[c], n[c])]
  /\ Return(c)
  /\ UNCHANGED <<head, ring, offered>>

-----------------------------------------------------------------------------
(* What a caller can ask about the ring without changing it.                *)
MutCount ==
  LET count == Minus(head["prod"], tail["prod"]) % Size
  IN  IF count > Capacity THEN Capacity ELSE count
rte_ring_count ==
  LET count == Minus(tail["prod"], tail["cons"]) % Size
  IN  IF count > Capacity THEN Capacity ELSE count
rte_ring_free_count == Capacity - rte_ring_count
rte_ring_full == rte_ring_free_count = 0
rte_ring_empty == rte_ring_count = 0
rte_ring_get_size == Size
rte_ring_get_capacity == Capacity

-----------------------------------------------------------------------------
Enqueue(p) ==
  \/ \E m \in 1 .. MaxBurst :
       \/ rte_ring_mp_enqueue_bulk(p, m)
       \/ rte_ring_sp_enqueue_bulk(p, m)
       \/ rte_ring_enqueue_bulk(p, m)
       \/ rte_ring_mp_enqueue_burst(p, m)
       \/ rte_ring_sp_enqueue_burst(p, m)
       \/ rte_ring_enqueue_burst(p, m)
  \/ rte_ring_mp_enqueue(p)
  \/ rte_ring_sp_enqueue(p)
  \/ rte_ring_enqueue(p)

Dequeue(c) ==
  \/ \E m \in 1 .. MaxBurst :
       \/ rte_ring_mc_dequeue_bulk(c, m)
       \/ rte_ring_sc_dequeue_bulk(c, m)
       \/ rte_ring_dequeue_bulk(c, m)
       \/ rte_ring_mc_dequeue_burst(c, m)
       \/ rte_ring_sc_dequeue_burst(c, m)
       \/ rte_ring_dequeue_burst(c, m)
       \/ rte_ring_sc_dequeue_burst_peek(c, m)
  \/ rte_ring_mc_dequeue(c)
  \/ rte_ring_sc_dequeue(c)
  \/ rte_ring_dequeue(c)

(* The steps an lcore takes inside a call. *)
Step(t) ==
  \/ LoadHead(t)
  \/ LoadOppositeTail(t)
  \/ MoveHead(t)
  \/ Copy(t)
  \/ YieldBlock(t)
  \/ update_tail(t)
  \/ update_sc_tail(t)

Next ==
  \/ \E p \in Producers : Enqueue(p)
  \/ \E c \in Consumers : Dequeue(c)
  \/ \E t \in Threads : Step(t)

Spec == Init /\ [][Next]_vars

(* An lcore runs its own pinned thread: inside a call it keeps running.     *)
FairSpec == Spec /\ \A t \in Threads : WF_vars(Step(t))

-----------------------------------------------------------------------------
(* Properties *)

(* Seen from cons.tail and going round modulo 2^32, the four indices keep  *)
(* the order cons.tail, cons.head, prod.tail, prod.head, and never spread   *)
(* over more than the ring's capacity: no load, compare-and-set or store of *)
(* any lcore, in any order, lets a producer claim an occupied slot or a     *)
(* consumer claim an unpublished one (rte_ring.c, __rte_ring_do_enqueue and *)
(* __rte_ring_do_dequeue).                                                  *)
RingOrder ==
  LET From(i) == Minus(i, tail["cons"])
  IN  /\ From(head["cons"]) <= From(tail["prod"])
      /\ From(tail["prod"]) <= From(head["prod"])
      /\ From(head["prod"]) <= Capacity

(* The positions a call owns between its head move and its tail update lie  *)
(* between its side's tail and head, and no two calls own a common one: two *)
(* lcores never copy through the same slot.                                 *)
Offset(t) == Minus(old[t], tail[SideOf(t)])
ClaimsExclusive ==
  /\ \A t \in Threads : Claims(t) =>
       /\ n[t] > 0
       /\ Offset(t) + n[t] <= Minus(head[SideOf(t)], tail[SideOf(t)])
  /\ \A t, u \in Threads :
       Claims(t) /\ Claims(u) /\ t # u /\ SideOf(t) = SideOf(u) =>
         Offset(t) + n[t] <= Offset(u) \/ Offset(u) + n[u] <= Offset(t)

(* A call never copies beyond its obj_table: n is between 1 and what the    *)
(* caller passed, and the copy loop stops at n.                             *)
TableBound ==
  \A t \in Threads :
    /\ pc[t] \in {"move", "copy", "block", "tail"} => n[t] \in 1 .. max[t]
    /\ pc[t] \in {"idle", "head", "opposite", "move"} => copied[t] = 0
    /\ pc[t] = "copy" => copied[t] < n[t]
    /\ t \in Producers /\ pc[t] # "idle" => Len(tbl[t]) = max[t]

(* What a call loaded is never more optimistic than the ring: a head that   *)
(* still compares equal has not moved at all, and then the n it was reduced *)
(* to still fits, however far the opposite tail advanced meanwhile.         *)
Room(t) ==
  IF t \in Producers THEN Capacity - Minus(head["prod"], tail["cons"])
                     ELSE Minus(tail["prod"], head["cons"])
Snapshot ==
  \A t \in Threads : Loaded(t) =>
    /\ lag[t] < IndexMod
    /\ head[SideOf(t)] = Plus(old[t], lag[t])
    /\ pc[t] = "move" /\ lag[t] = 0 => n[t] <= Room(t)

(* A side with one lcore has no claim but that lcore's: its head and tail   *)
(* differ only during a call, by exactly the claim.  This is what makes the *)
(* plain stores of the single variants and of the peeking dequeue sound.    *)
LoneSide ==
  \A t \in Threads :
    /\ how[t] # "multi" => Alone(t)
    /\ how[t] = "peek" => t \in Consumers
    /\ Alone(t) /\ Claims(t) =>
         old[t] = tail[SideOf(t)] /\ head[SideOf(t)] = Plus(old[t], n[t])
    /\ Alone(t) /\ ~Claims(t) => head[SideOf(t)] = tail[SideOf(t)]
    /\ Alone(t) /\ Loaded(t) => lag[t] = 0

(* Only the users of the ring are ever inside a call. *)
CallersAreUsers == \A t \in Threads : pc[t] # "idle" => t \in users

(* The inductive invariant of the index protocol.                           *)
IndInv ==
  /\ TypeOK
  /\ TableBound
  /\ RingOrder
  /\ ClaimsExclusive
  /\ Snapshot
  /\ LoneSide
  /\ CallersAreUsers

(* Every position between a side's tail and head is claimed by some call:   *)
(* when the last call that claimed has returned, head and tail have met.    *)
ClaimsCover ==
  \A side \in {"prod", "cons"} :
    \A k \in 0 .. Minus(head[side], tail[side]) - 1 :
      \E t \in Threads :
        /\ SideOf(t) = side /\ Claims(t)
        /\ k \in Offset(t) .. Offset(t) + n[t] - 1

(* What the copy loops have done so far: a producer's objects are in the    *)
(* slots it claimed and stay there until it publishes them, a consumer's    *)
(* table holds one object for each slot it has read.                        *)
TablesCopied ==
  /\ \A t \in Threads : pc[t] = "idle" => tbl[t] = <<>>
  /\ \A t \in Threads : pc[t] \in {"block", "tail"} => copied[t] = n[t]
  /\ \A p \in Producers : Claims(p) =>
       \A i \in 1 .. copied[p] : ring[Slot(Plus(old[p], i - 1))] = tbl[p][i]
  /\ \A c \in Consumers : Len(tbl[c]) = copied[c]

(* What the index protocol and the copy loops together keep: with IndInv it *)
(* makes every step of the ring a step of the bounded FIFO queue.           *)
FifoInv == ClaimsCover /\ TablesCopied

(* While a producer is outside its call, rte_ring_free_count is exactly the *)
(* free_entries the next enqueue will compute when no dequeue is under way  *)
(* between, the ring is never full and empty at once, and it is full at its *)
(* capacity although the data store has more slots.                         *)
FreeCountIsRoom ==
  (\A t \in Threads : ~Claims(t)) =>
    /\ rte_ring_free_count = Minus(Plus(Capacity, tail["cons"]), head["prod"])
    /\ ~(rte_ring_full /\ rte_ring_empty)
    /\ rte_ring_full <=> Minus(tail["prod"], tail["cons"]) = rte_ring_get_capacity
    /\ rte_ring_count < rte_ring_get_size

(* A call that was entered returns: compare-and-set loops and the wait of   *)
(* update_tail for earlier claims always end while the lcores keep running. *)
CallReturns == \A t \in Threads : pc[t] # "idle" ~> pc[t] = "idle"
=============================================================================

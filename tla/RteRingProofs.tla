---------------------------- MODULE RteRingProofs ----------------------------
(***************************************************************************)
(* Proofs about RteRing for every number of lcores, ring size, capacity    *)
(* and index width: the index protocol of src/src/ext/rte_ring.c keeps its *)
(* inductive invariant IndInv, from which type correctness, the order of   *)
(* the four indices and the exclusiveness of claims follow.                *)
(*                                                                         *)
(* Then that the ring implements the bounded FIFO queue of RingFifo.       *)
(* IndInv says which positions a call owns; FifoInv adds what is in their  *)
(* slots.                                                                  *)
(***************************************************************************)
EXTENDS RteRingFifo, FiniteSetTheorems, TLAPS

(* Index arithmetic stays inside uint32_t.                                  *)
LEMMA IndexArith ==
  ASSUME NEW a \in Index, NEW b \in Index
  PROVE  /\ Plus(a, b) \in Index
         /\ Minus(a, b) \in Index
         /\ Plus(b, Minus(a, b)) = a
  BY SizeAssumption DEF Index, Plus, Minus

(* The slot of an index is a slot of the array: idx & mask < size.          *)
LEMMA SlotInRing ==
  ASSUME NEW a \in Index
  PROVE  Slot(a) \in 0 .. Size - 1
  BY SizeAssumption DEF Index, Slot

(* A distance that grows without passing 2^32 grows by what was added.      *)
LEMMA MinusPlus ==
  ASSUME NEW a \in Index, NEW b \in Index, NEW k \in Nat,
         Minus(a, b) + k < IndexMod
  PROVE  /\ Minus(Plus(a, k), b) = Minus(a, b) + k
         /\ Plus(a, k) \in Index
  BY SizeAssumption DEF Index, Plus, Minus

(* Of two distances from one origin, the difference is the distance apart.  *)
LEMMA MinusOrigin ==
  ASSUME NEW a \in Index, NEW b \in Index, NEW c \in Index,
         Minus(b, c) <= Minus(a, c)
  PROVE  Minus(a, b) = Minus(a, c) - Minus(b, c)
  BY SizeAssumption DEF Index, Minus

(* A load is told from a move by less than a full turn.                     *)
LEMMA PlusFixpoint ==
  ASSUME NEW a \in Index, NEW k \in Nat, k < IndexMod, Plus(a, k) = a
  PROVE  k = 0
  BY SizeAssumption DEF Index, Plus

(* Two moves that together make less than a full turn add up.               *)
LEMMA PlusPlus ==
  ASSUME NEW a \in Index, NEW j \in Nat, NEW k \in Nat, j + k < IndexMod
  PROVE  Plus(Plus(a, j), k) = Plus(a, j + k)
  BY SizeAssumption DEF Index, Plus

(* An origin that advances within a distance shortens it by as much.        *)
LEMMA MinusShift ==
  ASSUME NEW a \in Index, NEW b \in Index, NEW k \in Nat, k <= Minus(a, b)
  PROVE  /\ Minus(a, Plus(b, k)) = Minus(a, b) - k
         /\ Plus(b, k) \in Index
  BY SizeAssumption DEF Index, Plus, Minus

LEMMA SideInSides == \A t : SideOf(t) \in {"prod", "cons"}
  BY DEF SideOf

(* The state before the first call satisfies the invariant.                 *)
LEMMA InitInv == Init => IndInv
<1> SUFFICES ASSUME Init PROVE IndInv
  OBVIOUS
<1>1. PICK s \in Starts : head = [side \in {"prod", "cons"} |-> s]
                        /\ tail = [side \in {"prod", "cons"} |-> s]
  BY DEF Init
<1>2. s \in Index /\ Minus(s, s) = 0
  BY <1>1, BoundAssumption DEF Minus, Index
<1>3. TypeOK
  <2>1. tbl \in [Threads -> Seq(Nat)] /\ ring \in [0 .. Size - 1 -> Nat]
    BY DEF Init
  <2>2. pc = [t \in Threads |-> "idle"] /\ how = [t \in Threads |-> "multi"]
        /\ fixed = [t \in Threads |-> FALSE]
    BY DEF Init
  <2>3. old \in [Threads -> Index]
    BY SizeAssumption DEF Init, Index
  <2>4. /\ max \in [Threads -> Nat] /\ n \in [Threads -> Nat]
        /\ copied \in [Threads -> Nat] /\ offered \in Nat /\ lag \in [Threads -> Nat]
    BY DEF Init
  <2>5. users \subseteq Threads
    BY DEF Init
  <2> QED
    BY <1>1, <1>2, <2>1, <2>2, <2>3, <2>4, <2>5 DEF TypeOK
<1>4. RingOrder
  BY <1>1, <1>2, SizeAssumption DEF RingOrder
<1>5. TableBound /\ ClaimsExclusive /\ Snapshot
  <2>1. \A t \in Threads : pc[t] = "idle" /\ copied[t] = 0
    BY DEF Init
  <2> QED
    BY <2>1 DEF TableBound, ClaimsExclusive, Snapshot, Claims, Loaded
<1>6. LoneSide /\ CallersAreUsers
  BY <1>1, SideInSides DEF Init, LoneSide, CallersAreUsers, Claims, Loaded
<1> QED
  BY <1>3, <1>4, <1>5, <1>6 DEF IndInv

(* Entering a call touches no index and no other lcore's call.              *)
LEMMA EnterInv ==
  ASSUME IndInv,
         NEW t \in Threads, NEW m \in Nat, NEW f \in BOOLEAN,
         NEW mode \in {"single", "multi", "peek"},
         mode # "multi" => Alone(t),
         mode = "peek" => t \in Consumers,
         Enter(t, m, f, mode),
         offered' \in Nat,
         tbl' \in [Threads -> Seq(Nat)],
         t \in Producers => Len(tbl'[t]) = m,
         \A u \in Threads \ {t} : tbl'[u] = tbl[u]
  PROVE  IndInv'
<1> USE DEF IndInv, Enter, idx
<1>1. TypeOK'
  BY DEF TypeOK
<1>2. TableBound'
  BY DEF TypeOK, TableBound
<1>3. RingOrder'
  BY DEF RingOrder
<1>4. ClaimsExclusive'
  BY DEF TypeOK, ClaimsExclusive, Claims, Offset
<1>5. Snapshot'
  BY DEF TypeOK, Snapshot, Loaded, Room
<1>6. LoneSide'
  BY DEF TypeOK, LoneSide, Claims, Loaded, Alone
<1>7. CallersAreUsers'
  BY DEF TypeOK, CallersAreUsers
<1> QED
  BY <1>1, <1>2, <1>3, <1>4, <1>5, <1>6, <1>7

(* A call that starts to enqueue keeps the invariant.                       *)
LEMMA EnqueueInv ==
  ASSUME IndInv, NEW p \in Producers, NEW m \in Nat,
         NEW f \in BOOLEAN, NEW sp \in BOOLEAN, DoEnqueue(p, m, f, sp)
  PROVE  IndInv'
<1> DEFINE table == [i \in 1 .. m |-> offered + i]
<1>1. p \in Threads /\ offered \in Nat
  BY DEF Threads, IndInv, TypeOK
<1>2. table \in Seq(Nat) /\ Len(table) = m
  BY <1>1
<1>3. tbl' \in [Threads -> Seq(Nat)] /\ tbl'[p] = table
      /\ \A u \in Threads \ {p} : tbl'[u] = tbl[u]
  BY <1>1, <1>2 DEF DoEnqueue, IndInv, TypeOK
<1>4. offered' \in Nat
  BY <1>1 DEF DoEnqueue
<1> QED
  BY <1>1, <1>2, <1>3, <1>4, EnterInv DEF DoEnqueue

(* A call that starts to dequeue keeps the invariant.                       *)
LEMMA DequeueInv ==
  ASSUME IndInv, NEW c \in Consumers, NEW m \in Nat,
         NEW f \in BOOLEAN, NEW sc \in BOOLEAN,
         DoDequeue(c, m, f, sc) \/ rte_ring_sc_dequeue_burst_peek(c, m)
  PROVE  IndInv'
<1>1. c \in Threads /\ c \notin Producers
  BY SidesAssumption DEF Threads
<1>2. offered' \in Nat /\ tbl' \in [Threads -> Seq(Nat)]
      /\ \A u \in Threads \ {c} : tbl'[u] = tbl[u]
  BY DEF DoDequeue, rte_ring_sc_dequeue_burst_peek, IndInv, TypeOK
<1>3. CASE DoDequeue(c, m, f, sc)
  BY <1>1, <1>2, <1>3, EnterInv DEF DoDequeue
<1>4. CASE rte_ring_sc_dequeue_burst_peek(c, m)
  BY <1>1, <1>2, <1>4, EnterInv DEF rte_ring_sc_dequeue_burst_peek
<1> QED
  BY <1>3, <1>4

(* A first load only changes what the call itself knows.                    *)
LEMMA LoadHeadInv ==
  ASSUME IndInv, NEW t \in Threads, LoadHead(t)
  PROVE  IndInv'
<1> USE SideInSides DEF IndInv, LoadHead, idx, loc
<1>1. TypeOK'
  BY SizeAssumption DEF TypeOK
<1>2. TableBound'
  BY DEF TypeOK, TableBound
<1>3. RingOrder'
  BY DEF RingOrder
<1>4. ClaimsExclusive'
  BY DEF TypeOK, ClaimsExclusive, Claims, Offset
<1>5. Snapshot'
  <2>1. head[SideOf(t)] \in Index
    BY DEF TypeOK
  <2>2. head[SideOf(t)] = Plus(head[SideOf(t)], 0)
    BY <2>1, SizeAssumption DEF Plus, Index
  <2> QED
    BY <2>2, SizeAssumption DEF TypeOK, Snapshot, Loaded, Room
<1>6. LoneSide'
  BY DEF TypeOK, LoneSide, Claims, Loaded, Alone
<1>7. CallersAreUsers'
  BY DEF TypeOK, CallersAreUsers
<1> QED
  BY <1>1, <1>2, <1>3, <1>4, <1>5, <1>6, <1>7

(* A call that returns without having claimed anything leaves the rest      *)
(* alone.                                                                   *)
LEMMA ReturnInv ==
  ASSUME IndInv, NEW t \in Threads, ~Claims(t), Return(t),
         UNCHANGED <<idx, ring, offered>>
  PROVE  IndInv'
<1> USE SideInSides DEF IndInv, Return, idx
<1>1. TypeOK'
  <2>1. tbl' \in [Threads -> Seq(Nat)]
    BY DEF TypeOK
  <2>2. old' \in [Threads -> Index]
    BY SizeAssumption DEF TypeOK, Index
  <2> QED
    BY <2>1, <2>2 DEF TypeOK
<1>2. TableBound'
  BY DEF TypeOK, TableBound
<1>3. RingOrder'
  BY DEF RingOrder
<1>4. ClaimsExclusive'
  BY DEF TypeOK, ClaimsExclusive, Claims, Offset
<1>5. Snapshot'
  BY DEF TypeOK, Snapshot, Loaded, Room
<1>6. LoneSide'
  BY DEF TypeOK, LoneSide, Claims, Loaded, Alone
<1>7. CallersAreUsers'
  BY DEF TypeOK, CallersAreUsers
<1> QED
  BY <1>1, <1>2, <1>3, <1>4, <1>5, <1>6, <1>7

(* What an unmoved head leaves room for is what the call computes from the  *)
(* tail it loads next: capacity + cons.tail - prod.head, or prod.tail -     *)
(* cons.head.                                                               *)
LEMMA AvailableIsRoom ==
  ASSUME IndInv, NEW t \in Threads
  PROVE  /\ Available(t) \in Nat
         /\ head[SideOf(t)] = old[t] => Available(t) = Room(t)
<1> DEFINE hp == head["prod"]  ct == tail["cons"]
<1>1. hp \in Index /\ ct \in Index /\ old[t] \in Index /\ Capacity \in Index
      /\ tail["prod"] \in Index /\ head["cons"] \in Index
  BY SizeAssumption DEF IndInv, TypeOK, Index
<1>2. Available(t) \in Nat
  <2>1. Minus(Plus(Capacity, ct), old[t]) \in Index /\ Minus(tail["prod"], old[t]) \in Index
    BY <1>1, IndexArith
  <2> QED
    BY <2>1, SizeAssumption DEF Available, Index
<1>3. Minus(hp, ct) <= Capacity => Minus(Plus(Capacity, ct), hp) = Capacity - Minus(hp, ct)
  BY <1>1, SizeAssumption DEF Minus, Plus, Index
<1>4. Minus(hp, ct) <= Capacity
  BY DEF IndInv, RingOrder
<1> QED
  BY <1>2, <1>3, <1>4 DEF Available, Room, SideOf

(* The second load either returns or reduces n to what fits.                *)
LEMMA LoadOppositeTailInv ==
  ASSUME IndInv, NEW t \in Threads, LoadOppositeTail(t)
  PROVE  IndInv'
<1> DEFINE fit == Fit(max[t], Available(t), fixed[t])
<1>1. CASE fit = 0 /\ Return(t)
  BY <1>1, ReturnInv DEF LoadOppositeTail, Claims
<1>2. CASE /\ fit > 0
           /\ n' = [n EXCEPT ![t] = fit]
           /\ pc' = [pc EXCEPT ![t] = "move"]
           /\ UNCHANGED <<loc, old, tbl, copied, lag>>
  <2> USE SideInSides DEF IndInv, idx, loc
  <2>1. UNCHANGED <<idx, ring, offered>> /\ pc[t] = "opposite"
    BY DEF LoadOppositeTail
  <2>2. max[t] \in Nat /\ Available(t) \in Nat
    BY AvailableIsRoom DEF TypeOK
  <2>3. fit \in 1 .. max[t] /\ fit <= Available(t)
    BY <1>2, <2>2 DEF Fit
  <2> HIDE DEF fit
  <2>4. TypeOK'
    BY <1>2, <2>1, <2>3 DEF TypeOK
  <2>5. TableBound'
    BY <1>2, <2>1, <2>3 DEF TypeOK, TableBound
  <2>6. RingOrder'
    BY <2>1 DEF RingOrder
  <2>7. ClaimsExclusive'
    BY <1>2, <2>1 DEF TypeOK, ClaimsExclusive, Claims, Offset
  <2>8. Snapshot'
    <3>1. lag[t] = 0 => head[SideOf(t)] = old[t]
      <4>1. head[SideOf(t)] = Plus(old[t], lag[t]) /\ old[t] \in Index
        BY <2>1 DEF Snapshot, Loaded, TypeOK
      <4> QED
        BY <4>1, SizeAssumption DEF Plus, Index
    <3>2. lag[t] = 0 => fit <= Room(t)
      BY <3>1, <2>3, AvailableIsRoom
    <3>3. \A u \in Threads : Room(u)' = Room(u)
      BY <2>1 DEF Room
    <3> QED
      BY <1>2, <2>1, <3>2, <3>3 DEF TypeOK, Snapshot, Loaded
  <2>9. LoneSide'
    BY <1>2, <2>1 DEF TypeOK, LoneSide, Claims, Loaded, Alone
  <2>10. CallersAreUsers'
    BY <1>2, <2>1 DEF TypeOK, CallersAreUsers
  <2> QED
    BY <2>4, <2>5, <2>6, <2>7, <2>8, <2>9, <2>10
<1> QED
  BY <1>1, <1>2 DEF LoadOppositeTail

(* Copying a pointer stays inside the ring and inside obj_table.            *)
LEMMA CopyInv ==
  ASSUME IndInv, NEW t \in Threads, Copy(t)
  PROVE  IndInv'
<1> USE SideInSides DEF IndInv, Copy, idx, loc
<1> DEFINE slot == Slot(Plus(old[t], copied[t]))
<1>1. copied[t] \in Nat /\ n[t] \in 1 .. max[t] /\ copied[t] < n[t]
      /\ max[t] \in Nat
  BY DEF TypeOK, TableBound
<1>2. n[t] <= Minus(head[SideOf(t)], tail[SideOf(t)])
  <2>1. Offset(t) + n[t] <= Minus(head[SideOf(t)], tail[SideOf(t)])
    BY DEF ClaimsExclusive, Claims
  <2>2. Offset(t) \in Index /\ Minus(head[SideOf(t)], tail[SideOf(t)]) \in Index
    BY IndexArith DEF Offset, TypeOK
  <2> QED
    BY <1>1, <2>1, <2>2 DEF Index
<1>3. slot \in 0 .. Size - 1
  <2>1. Minus(head[SideOf(t)], tail[SideOf(t)]) \in Index
    BY IndexArith DEF TypeOK
  <2>2. copied[t] \in Index
    BY <1>1, <1>2, <2>1, SizeAssumption DEF Index
  <2> QED
    BY <2>2, IndexArith, SlotInRing DEF TypeOK
<1> HIDE DEF slot
<1>4. ring' \in [0 .. Size - 1 -> Nat] /\ tbl' \in [Threads -> Seq(Nat)]
      /\ \A u \in Producers : tbl'[u] = tbl[u]
  <2>1. CASE t \in Producers /\ ENQUEUE_PTR(t)
    <3>1. tbl[t] \in Seq(Nat) /\ Len(tbl[t]) = max[t]
      BY <2>1 DEF TypeOK, TableBound
    <3>2. tbl[t][copied[t] + 1] \in Nat
      BY <3>1, <1>1
    <3> QED
      BY <2>1, <3>2, <1>3 DEF ENQUEUE_PTR, TypeOK, slot
  <2>2. CASE t \in Consumers /\ DEQUEUE_PTR(t)
    <3>1. ring[slot] \in Nat /\ tbl[t] \in Seq(Nat)
      BY <1>3 DEF TypeOK
    <3>2. Append(tbl[t], ring[slot]) \in Seq(Nat)
      BY <3>1
    <3> QED
      BY <2>2, <3>2, SidesAssumption DEF DEQUEUE_PTR, TypeOK, slot
  <2> QED
    BY <2>1, <2>2
<1>5. pc[t] = "copy" /\ pc'[t] \in {"copy", "block", "tail"}
      /\ (pc'[t] = "copy" => copied[t] + 1 < n[t])
      /\ \A u \in Threads \ {t} : pc'[u] = pc[u]
      /\ pc' \in [Threads -> {"idle", "head", "opposite", "move", "copy", "block", "tail"}]
  BY DEF TypeOK
<1>6. TypeOK'
  <2>1. copied' \in [Threads -> Nat]
    BY <1>1 DEF TypeOK
  <2> QED
    BY <2>1, <1>4, <1>5 DEF TypeOK
<1>7. TableBound'
  BY <1>1, <1>4, <1>5 DEF TypeOK, TableBound
<1>8. RingOrder'
  BY DEF RingOrder
<1>9. ClaimsExclusive'
  BY <1>5 DEF TypeOK, ClaimsExclusive, Claims, Offset
<1>10. Snapshot'
  BY <1>5 DEF TypeOK, Snapshot, Loaded, Room
<1>11. LoneSide'
  BY <1>5 DEF TypeOK, LoneSide, Claims, Loaded, Alone
<1>12. CallersAreUsers'
  BY <1>5 DEF TypeOK, CallersAreUsers
<1> QED
  BY <1>6, <1>7, <1>8, <1>9, <1>10, <1>11, <1>12

(* Running the block of a peeking dequeue changes no index.                 *)
LEMMA YieldBlockInv ==
  ASSUME IndInv, NEW t \in Threads, YieldBlock(t)
  PROVE  IndInv'
<1> USE SideInSides DEF IndInv, YieldBlock, idx, loc
<1>1. TypeOK'
  BY DEF TypeOK
<1>2. TableBound'
  BY DEF TypeOK, TableBound
<1>3. RingOrder'
  BY DEF RingOrder
<1>4. ClaimsExclusive'
  BY DEF TypeOK, ClaimsExclusive, Claims, Offset
<1>5. Snapshot'
  BY DEF TypeOK, Snapshot, Loaded, Room
<1>6. LoneSide'
  BY DEF TypeOK, LoneSide, Claims, Loaded, Alone
<1>7. CallersAreUsers'
  BY DEF TypeOK, CallersAreUsers
<1> QED
  BY <1>1, <1>2, <1>3, <1>4, <1>5, <1>6, <1>7

(* The distances between the four indices, as RingOrder gives them.         *)
LEMMA Spans ==
  ASSUME IndInv
  PROVE  /\ \A side \in {"prod", "cons"} : head[side] \in Index /\ tail[side] \in Index
         /\ \A side \in {"prod", "cons"} : Minus(head[side], tail[side]) \in Nat
         /\ Minus(head["cons"], tail["cons"]) <= Minus(tail["prod"], tail["cons"])
         /\ Minus(tail["prod"], tail["cons"]) <= Minus(head["prod"], tail["cons"])
         /\ Minus(head["prod"], tail["cons"]) <= Capacity
         /\ Minus(head["prod"], tail["prod"])
              = Minus(head["prod"], tail["cons"]) - Minus(tail["prod"], tail["cons"])
         /\ Minus(tail["prod"], head["cons"])
              = Minus(tail["prod"], tail["cons"]) - Minus(head["cons"], tail["cons"])
         /\ Capacity < IndexMod /\ Capacity \in Nat
         /\ Minus(head["cons"], tail["cons"]) \in Nat
         /\ Minus(tail["prod"], tail["cons"]) \in Nat
         /\ Minus(head["prod"], tail["cons"]) \in Nat
<1>1. \A side \in {"prod", "cons"} : head[side] \in Index /\ tail[side] \in Index
  BY DEF IndInv, TypeOK
<1>2. \A a, b \in Index : Minus(a, b) \in Nat
  BY SizeAssumption DEF Minus, Index
<1>3. /\ Minus(head["cons"], tail["cons"]) <= Minus(tail["prod"], tail["cons"])
      /\ Minus(tail["prod"], tail["cons"]) <= Minus(head["prod"], tail["cons"])
      /\ Minus(head["prod"], tail["cons"]) <= Capacity
  BY DEF IndInv, RingOrder
<1>4. Capacity < IndexMod /\ Capacity \in Nat
  BY SizeAssumption
<1> QED
  BY <1>1, <1>2, <1>3, <1>4, MinusOrigin

(* A compare-and-set that fails sends the call back to its first load.      *)
LEMMA MoveFailsInv ==
  ASSUME IndInv, NEW t \in Threads, pc[t] = "move",
         pc' = [pc EXCEPT ![t] = "head"],
         UNCHANGED <<head, lag, tail, ring, loc, n, old, tbl, copied, offered>>
  PROVE  IndInv'
<1> USE SideInSides DEF IndInv, loc
<1>1. TypeOK'
  BY DEF TypeOK
<1>2. TableBound'
  BY DEF TypeOK, TableBound
<1>3. RingOrder'
  BY DEF RingOrder
<1>4. ClaimsExclusive'
  BY DEF TypeOK, ClaimsExclusive, Claims, Offset
<1>5. Snapshot'
  BY DEF TypeOK, Snapshot, Loaded, Room
<1>6. LoneSide'
  BY DEF TypeOK, LoneSide, Claims, Loaded, Alone
<1>7. CallersAreUsers'
  BY DEF TypeOK, CallersAreUsers
<1> QED
  BY <1>1, <1>2, <1>3, <1>4, <1>5, <1>6, <1>7

(* A head that the move still finds unmoved gives the call a claim of its   *)
(* own, next to the claims before it and inside the capacity.               *)
LEMMA MoveFacts ==
  ASSUME IndInv, NEW t \in Threads, MoveHead(t), ~CmpsetFails(t)
  PROVE  /\ n[t] \in Nat \ {0} /\ old[t] \in Index
         /\ head[SideOf(t)] = old[t] /\ n[t] <= Room(t)
         /\ head'[SideOf(t)] = Plus(head[SideOf(t)], n[t]) /\ head'[SideOf(t)] \in Index
         /\ Minus(head'[SideOf(t)], tail["cons"]) = Minus(head[SideOf(t)], tail["cons"]) + n[t]
         /\ Minus(head'[SideOf(t)], tail[SideOf(t)]) = Minus(head[SideOf(t)], tail[SideOf(t)]) + n[t]
         /\ Minus(head[SideOf(t)], tail[SideOf(t)]) \in Nat
         /\ \A side \in {"prod", "cons"} \ {SideOf(t)} : head'[side] = head[side]
<1> USE SideInSides DEF IndInv, loc
<1> DEFINE s == SideOf(t)
           span == Minus(head[s], tail[s])
<1>1. /\ pc[t] = "move"
      /\ NoFullTurn(t)
      /\ head' = [head EXCEPT ![s] = Plus(old[t], n[t])]
      /\ pc' = [pc EXCEPT ![t] = "copy"]
      /\ lag' = [u \in Threads |->
                   IF u # t /\ SideOf(u) = SideOf(t) /\ Loaded(u)
                     THEN lag[u] + n[t] ELSE IF u = t THEN 0 ELSE lag[u]]
      /\ UNCHANGED <<tail, ring, loc, n, old, tbl, copied, offered>>
  BY DEF MoveHead
<1>2. n[t] \in Nat \ {0} /\ lag[t] \in Nat /\ old[t] \in Index /\ s \in {"prod", "cons"}
  BY <1>1 DEF TypeOK, TableBound
<1>3. lag[t] < IndexMod /\ head[s] = Plus(old[t], lag[t])
      /\ (lag[t] = 0 => n[t] <= Room(t))
  BY <1>1 DEF Snapshot, Loaded
<1>4. lag[t] = 0
  <2>1. CASE how[t] # "multi"
    BY <2>1, <1>1 DEF LoneSide, Loaded
  <2>2. CASE how[t] = "multi"
    BY <2>2, <1>2, <1>3, PlusFixpoint DEF CmpsetFails
  <2> QED
    BY <2>1, <2>2
<1>5. head[s] = old[t] /\ n[t] <= Room(t)
  BY <1>2, <1>3, <1>4, SizeAssumption DEF Plus, Index
<1>6. head'[s] = Plus(head[s], n[t]) /\ head'[s] \in Index
      /\ Minus(head'[s], tail["cons"]) = Minus(head[s], tail["cons"]) + n[t]
      /\ Minus(head'[s], tail[s]) = span + n[t]
      /\ span \in Nat
  <2>1. head'[s] = Plus(head[s], n[t])
    BY <1>1, <1>5, <1>2 DEF TypeOK
  <2>2. CASE t \in Producers
    <3>1. s = "prod" /\ n[t] <= Capacity - Minus(head["prod"], tail["cons"])
      BY <2>2, <1>5 DEF Room, SideOf
    <3>2. head[s] \in Index /\ tail[s] \in Index /\ tail["cons"] \in Index /\ span \in Nat
      BY <3>1, Spans
    <3>3. Minus(head[s], tail["cons"]) + n[t] < IndexMod /\ span + n[t] < IndexMod
      BY <3>1, <1>2, Spans, SizeAssumption
    <3> QED
      BY <3>2, <3>3, <2>1, <1>2, MinusPlus
  <2>3. CASE t \notin Producers
    <3>1. s = "cons" /\ n[t] <= Minus(tail["prod"], head["cons"])
      BY <2>3, <1>5 DEF Room, SideOf
    <3>2. head[s] \in Index /\ tail[s] \in Index /\ tail["cons"] \in Index /\ span \in Nat
      BY <3>1, Spans
    <3>3. Minus(head[s], tail["cons"]) + n[t] < IndexMod /\ span + n[t] < IndexMod
      BY <3>1, <1>2, Spans, SizeAssumption
    <3> QED
      BY <3>2, <3>3, <2>1, <1>2, MinusPlus
  <2> QED
    BY <2>2, <2>3
<1>7. \A side \in {"prod", "cons"} \ {s} : head'[side] = head[side]
  BY <1>1 DEF TypeOK
<1> QED
  BY <1>2, <1>5, <1>6, <1>7

(* Such a move keeps the invariant.                                         *)
LEMMA MoveInv ==
  ASSUME IndInv, NEW t \in Threads, MoveHead(t), ~CmpsetFails(t)
  PROVE  IndInv'
<1> USE SideInSides DEF IndInv, loc
<1> DEFINE s == SideOf(t)
           span == Minus(head[s], tail[s])
<1>1. /\ pc[t] = "move"
      /\ NoFullTurn(t)
      /\ head' = [head EXCEPT ![s] = Plus(old[t], n[t])]
      /\ pc' = [pc EXCEPT ![t] = "copy"]
      /\ lag' = [u \in Threads |->
                   IF u # t /\ SideOf(u) = SideOf(t) /\ Loaded(u)
                     THEN lag[u] + n[t] ELSE IF u = t THEN 0 ELSE lag[u]]
      /\ UNCHANGED <<tail, ring, loc, n, old, tbl, copied, offered>>
  BY DEF MoveHead
<1>2. n[t] \in Nat \ {0} /\ old[t] \in Index /\ s \in {"prod", "cons"}
  BY MoveFacts
<1>5. head[s] = old[t] /\ n[t] <= Room(t)
  BY MoveFacts
<1>6. head'[s] = Plus(head[s], n[t]) /\ head'[s] \in Index
      /\ Minus(head'[s], tail["cons"]) = Minus(head[s], tail["cons"]) + n[t]
      /\ Minus(head'[s], tail[s]) = span + n[t]
      /\ span \in Nat
  BY MoveFacts
<1>7. \A side \in {"prod", "cons"} \ {s} : head'[side] = head[side]
  BY MoveFacts
<1>8. TypeOK'
  <2>1. head' \in [{"prod", "cons"} -> Index]
    BY <1>1, <1>2, <1>6 DEF TypeOK
  <2>2. lag' \in [Threads -> Nat]
    BY <1>1, <1>2 DEF TypeOK
  <2> QED
    BY <2>1, <2>2, <1>1 DEF TypeOK
<1>9. TableBound'
  BY <1>1, <1>2, SMTT(20) DEF TypeOK, TableBound
<1>10. RingOrder'
  <2>1. CASE t \in Producers
    <3>1. s = "prod" /\ n[t] <= Capacity - Minus(head["prod"], tail["cons"])
      BY <2>1, <1>5 DEF Room, SideOf
    <3> QED
      BY <3>1, <1>1, <1>2, <1>6, <1>7, Spans DEF RingOrder
  <2>2. CASE t \notin Producers
    <3>1. s = "cons" /\ n[t] <= Minus(tail["prod"], head["cons"])
      BY <2>2, <1>5 DEF Room, SideOf
    <3> QED
      BY <3>1, <1>1, <1>2, <1>6, <1>7, Spans DEF RingOrder
  <2> QED
    BY <2>1, <2>2
<1>11. ClaimsExclusive'
  <2>1. \A u \in Threads : Offset(u)' = Offset(u) /\ n'[u] = n[u] /\ n[u] \in Nat
    BY <1>1 DEF Offset, TypeOK
  <2>2. \A u \in Threads : Claims(u)' <=> (u = t \/ Claims(u))
    BY <1>1 DEF Claims, TypeOK
  <2>3. \A u \in Threads : Offset(u) \in Nat
    <3>1. \A a, b \in Index : Minus(a, b) \in Nat
      BY SizeAssumption DEF Minus, Index
    <3> QED
      BY <3>1 DEF TypeOK, Offset
  <2>4. Offset(t) = span
    BY <1>5 DEF Offset
  <2>5. \A u \in Threads : Claims(u) /\ SideOf(u) = s => Offset(u) + n[u] <= span
    BY DEF ClaimsExclusive
  <2>6. \A u \in Threads : Claims(u)' =>
          n'[u] > 0 /\ Offset(u)' + n'[u] <= Minus(head[SideOf(u)], tail[SideOf(u)])'
    <3> SUFFICES ASSUME NEW u \in Threads, Claims(u)'
                 PROVE  n'[u] > 0 /\ Offset(u)' + n'[u] <= Minus(head'[SideOf(u)], tail[SideOf(u)])
      BY <1>1
    <3>1. CASE u = t
      BY <3>1, <2>1, <2>4, <1>2, <1>6
    <3>2. CASE u # t /\ SideOf(u) = s
      BY <3>2, <2>1, <2>2, <2>3, <2>5, <1>2, <1>6 DEF ClaimsExclusive
    <3>3. CASE u # t /\ SideOf(u) # s
      <4>1. head'[SideOf(u)] = head[SideOf(u)]
        BY <3>3, <1>7
      <4> QED
        BY <4>1, <3>3, <2>1, <2>2 DEF ClaimsExclusive
    <3> QED
      BY <3>1, <3>2, <3>3
  <2>7. ASSUME NEW u \in Threads, NEW v \in Threads,
               Claims(u)', Claims(v)', u # v, SideOf(u) = SideOf(v)
        PROVE  (Offset(u) + n[u] <= Offset(v) \/ Offset(v) + n[v] <= Offset(u))'
    <3>1. CASE u # t /\ v # t
      BY <3>1, <2>7, <2>1, <2>2 DEF ClaimsExclusive
    <3>2. CASE u = t
      BY <3>2, <2>7, <2>1, <2>2, <2>4, <2>5
    <3>3. CASE v = t
      BY <3>3, <2>7, <2>1, <2>2, <2>4, <2>5
    <3> QED
      BY <3>1, <3>2, <3>3
  <2> QED
    BY <2>6, <2>7 DEF ClaimsExclusive
<1>12. Snapshot'
  <2> SUFFICES ASSUME NEW u \in Threads, Loaded(u)'
               PROVE  /\ lag'[u] < IndexMod
                      /\ head'[SideOf(u)] = Plus(old'[u], lag'[u])
                      /\ (pc'[u] = "move" /\ lag'[u] = 0 => n'[u] <= Room(u)')
    BY DEF Snapshot
  <2>1. u # t /\ Loaded(u) /\ pc'[u] = pc[u] /\ old'[u] = old[u] /\ n'[u] = n[u]
    BY <1>1 DEF Loaded, TypeOK
  <2>2. lag[u] < IndexMod /\ head[SideOf(u)] = Plus(old[u], lag[u])
        /\ (pc[u] = "move" /\ lag[u] = 0 => n[u] <= Room(u))
        /\ lag[u] \in Nat /\ old[u] \in Index
    BY <2>1 DEF Snapshot, TypeOK
  <2>3. CASE SideOf(u) = s
    <3>1. lag'[u] = lag[u] + n[t]
      BY <2>1, <2>3, <1>1
    <3>2. lag[u] + n[t] < IndexMod
      BY <2>1, <2>3, <1>1 DEF NoFullTurn
    <3>3. head'[s] = Plus(Plus(old[u], lag[u]), n[t])
      BY <2>2, <2>3, <1>6
    <3> QED
      BY <3>1, <3>2, <3>3, <2>1, <2>2, <2>3, <1>2, PlusPlus
  <2>4. CASE SideOf(u) # s
    <3>1. lag'[u] = lag[u] /\ head'[SideOf(u)] = head[SideOf(u)]
      BY <2>1, <2>4, <1>1, <1>7
    <3>2. Room(u)' = Room(u)
      BY <2>4, <3>1, <1>1 DEF Room, SideOf
    <3> QED
      BY <3>1, <3>2, <2>1, <2>2
  <2> QED
    BY <2>3, <2>4
<1>13. LoneSide'
  <2> SUFFICES ASSUME NEW u \in Threads
               PROVE  /\ how[u] # "multi" => Alone(u)
                      /\ how[u] = "peek" => u \in Consumers
                      /\ Alone(u) /\ Claims(u)' =>
                           old[u] = tail[SideOf(u)] /\ head'[SideOf(u)] = Plus(old[u], n[u])
                      /\ Alone(u) /\ ~Claims(u)' => head'[SideOf(u)] = tail[SideOf(u)]
                      /\ Alone(u) /\ Loaded(u)' => lag'[u] = 0
    BY <1>1 DEF LoneSide, Alone
  <2>1. CASE u = t
    BY <2>1, <1>1, <1>5, <1>6 DEF LoneSide, Claims, Loaded, TypeOK
  <2>2. CASE u # t /\ SideOf(u) = s
    BY <2>2, <1>1 DEF LoneSide, CallersAreUsers, Alone
  <2>3. CASE u # t /\ SideOf(u) # s
    BY <2>3, <1>1, <1>7 DEF LoneSide, Claims, Loaded, TypeOK
  <2> QED
    BY <2>1, <2>2, <2>3
<1>14. CallersAreUsers'
  BY <1>1 DEF TypeOK, CallersAreUsers
<1> QED
  BY <1>8, <1>9, <1>10, <1>11, <1>12, <1>13, <1>14

(* Publishing (or releasing) the earliest claim of a side moves its tail    *)
(* over exactly that claim.                                                 *)
LEMMA TailFacts ==
  ASSUME IndInv, NEW t \in Threads,
         update_tail(t) \/ update_sc_tail(t)
  PROVE  /\ pc[t] = "tail" /\ Return(t) /\ UNCHANGED <<head, ring, offered>>
         /\ tail' = [tail EXCEPT ![SideOf(t)] = Plus(old[t], n[t])]
         /\ old[t] = tail[SideOf(t)] /\ Offset(t) = 0
         /\ n[t] \in Nat \ {0} /\ n[t] <= Minus(head[SideOf(t)], tail[SideOf(t)])
         /\ tail'[SideOf(t)] = Plus(tail[SideOf(t)], n[t]) /\ tail'[SideOf(t)] \in Index
         /\ Minus(head[SideOf(t)], tail'[SideOf(t)]) = Minus(head[SideOf(t)], tail[SideOf(t)]) - n[t]
         /\ \A side \in {"prod", "cons"} \ {SideOf(t)} : tail'[side] = tail[side]
<1> USE SideInSides DEF IndInv
<1> DEFINE s == SideOf(t)
           span == Minus(head[s], tail[s])
<1>1. /\ pc[t] = "tail"
      /\ Return(t)
      /\ UNCHANGED <<head, ring, offered>>
  BY DEF update_tail, update_sc_tail
<1>2. tail' = [tail EXCEPT ![s] = Plus(old[t], n[t])]
  <2>1. CASE update_tail(t)
    BY <2>1 DEF update_tail
  <2>2. CASE update_sc_tail(t)
    <3>1. s = "cons"
      BY <2>2, SidesAssumption DEF update_sc_tail, LoneSide, SideOf
    <3> QED
      BY <3>1, <2>2 DEF update_sc_tail
  <2> QED
    BY <2>1, <2>2
<1>3. old[t] = tail[s]
  <2>1. CASE update_tail(t) /\ how[t] = "multi"
    BY <2>1 DEF update_tail, MustWait
  <2>2. CASE how[t] # "multi"
    BY <2>2, <1>1 DEF LoneSide, Claims
  <2> QED
    BY <2>1, <2>2 DEF update_tail, update_sc_tail
<1>4. n[t] \in Nat \ {0} /\ s \in {"prod", "cons"}
  BY <1>1 DEF TypeOK, TableBound
<1>5. \A a, b \in Index : Minus(a, b) \in Nat
  BY SizeAssumption DEF Minus, Index
<1>6. head[s] \in Index /\ tail[s] \in Index /\ span \in Nat
  BY <1>4, <1>5, Spans
<1>7. Offset(t) = 0 /\ n[t] <= span
  <2>1. Offset(t) = 0
    BY <1>3, <1>6 DEF Offset, Minus, Index
  <2>2. Offset(t) + n[t] <= span
    BY <1>1 DEF ClaimsExclusive, Claims
  <2> QED
    BY <2>1, <2>2, <1>4
<1>8. tail'[s] = Plus(tail[s], n[t]) /\ tail'[s] \in Index
      /\ Minus(head[s], tail'[s]) = span - n[t]
  <2>1. tail'[s] = Plus(tail[s], n[t])
    BY <1>2, <1>3, <1>4 DEF TypeOK
  <2> QED
    BY <2>1, <1>4, <1>6, <1>7, MinusShift
<1>9. \A side \in {"prod", "cons"} \ {s} : tail'[side] = tail[side]
  BY <1>2 DEF TypeOK
<1> QED
  BY <1>1, <1>2, <1>3, <1>4, <1>7, <1>8, <1>9

(* Moving the tail keeps the invariant.                                     *)
LEMMA TailInv ==
  ASSUME IndInv, NEW t \in Threads,
         update_tail(t) \/ update_sc_tail(t)
  PROVE  IndInv'
<1> USE SideInSides DEF IndInv
<1> DEFINE s == SideOf(t)
           span == Minus(head[s], tail[s])
<1>1. /\ pc[t] = "tail"
      /\ Return(t)
      /\ UNCHANGED <<head, ring, offered>>
  BY TailFacts
<1>2. tail' = [tail EXCEPT ![s] = Plus(old[t], n[t])]
  BY TailFacts
<1>3. old[t] = tail[s]
  BY TailFacts
<1>4. n[t] \in Nat \ {0} /\ s \in {"prod", "cons"}
  BY TailFacts
<1>5. \A a, b \in Index : Minus(a, b) \in Nat
  BY SizeAssumption DEF Minus, Index
<1>6. head[s] \in Index /\ tail[s] \in Index /\ span \in Nat
  BY <1>4, <1>5, Spans
<1>7. Offset(t) = 0 /\ n[t] <= span
  BY TailFacts
<1>8. tail'[s] = Plus(tail[s], n[t]) /\ tail'[s] \in Index
      /\ Minus(head[s], tail'[s]) = span - n[t]
  BY TailFacts
<1>9. \A side \in {"prod", "cons"} \ {s} : tail'[side] = tail[side]
  BY TailFacts
<1>10. TypeOK'
  <2>1. tail' \in [{"prod", "cons"} -> Index]
    BY <1>2, <1>3, <1>4, <1>8 DEF TypeOK
  <2>2. tbl' \in [Threads -> Seq(Nat)]
    BY <1>1 DEF Return, TypeOK
  <2>3. old' \in [Threads -> Index]
    BY <1>1, SizeAssumption DEF Return, TypeOK, Index
  <2> QED
    BY <2>1, <2>2, <2>3, <1>1 DEF Return, TypeOK
<1>11. TableBound'
  BY <1>1 DEF Return, TypeOK, TableBound
<1>12. ASSUME s = "prod"
       PROVE  RingOrder' /\ \A u \in Threads : Room(u) <= Room(u)' /\ Room(u) \in Int /\ Room(u)' \in Int
  <2>1. tail'["cons"] = tail["cons"] /\ tail'["prod"] = Plus(tail["prod"], n[t])
    BY <1>12, <1>8, <1>9
  <2>2. Minus(tail'["prod"], tail["cons"]) = Minus(tail["prod"], tail["cons"]) + n[t]
    <3>1. Minus(tail["prod"], tail["cons"]) + n[t] < IndexMod
      BY <1>4, <1>7, <1>12, Spans, SizeAssumption
    <3> QED
      BY <3>1, <2>1, <1>4, Spans, MinusPlus
  <2>3. RingOrder'
    BY <2>1, <2>2, <1>1, <1>4, <1>7, <1>12, Spans DEF RingOrder
  <2>4. Minus(tail'["prod"], head["cons"]) >= Minus(tail["prod"], head["cons"])
    <3>1. Minus(tail'["prod"], head["cons"])
            = Minus(tail'["prod"], tail["cons"]) - Minus(head["cons"], tail["cons"])
      <4>1. Minus(head["cons"], tail["cons"]) <= Minus(tail'["prod"], tail["cons"])
        BY <2>2, <1>4, Spans
      <4> QED
        BY <4>1, <1>8, <1>12, Spans, MinusOrigin
    <3> QED
      BY <3>1, <2>2, <1>4, Spans
  <2>5. \A u \in Threads : Room(u) <= Room(u)' /\ Room(u) \in Int /\ Room(u)' \in Int
    <3>1. Minus(tail'["prod"], head["cons"]) \in Nat
      BY <1>5, <1>8, <1>12, Spans
    <3> QED
      BY <3>1, <2>1, <2>4, <1>1, Spans DEF Room
  <2> QED
    BY <2>3, <2>5
<1>13. ASSUME s = "cons"
       PROVE  RingOrder' /\ \A u \in Threads : Room(u) <= Room(u)' /\ Room(u) \in Int /\ Room(u)' \in Int
  <2>1. tail'["prod"] = tail["prod"] /\ tail'["cons"] = Plus(tail["cons"], n[t])
    BY <1>13, <1>8, <1>9
  <2>2. ASSUME NEW x \in Index, span <= Minus(x, tail["cons"])
        PROVE  Minus(x, tail'["cons"]) = Minus(x, tail["cons"]) - n[t]
    <3>1. n[t] <= Minus(x, tail["cons"])
      BY <2>2, <1>4, <1>5, <1>6, <1>7, <1>13
    <3> QED
      BY <3>1, <2>1, <1>4, <1>6, <1>13, MinusShift
  <2>3. /\ Minus(head["cons"], tail'["cons"]) = Minus(head["cons"], tail["cons"]) - n[t]
        /\ Minus(tail["prod"], tail'["cons"]) = Minus(tail["prod"], tail["cons"]) - n[t]
        /\ Minus(head["prod"], tail'["cons"]) = Minus(head["prod"], tail["cons"]) - n[t]
    BY <2>2, <1>13, Spans
  <2>4. RingOrder'
    BY <2>1, <2>3, <1>1, <1>4, Spans DEF RingOrder
  <2>5. \A u \in Threads : Room(u) <= Room(u)' /\ Room(u) \in Int /\ Room(u)' \in Int
    BY <2>1, <2>3, <1>1, <1>4, Spans DEF Room
  <2> QED
    BY <2>4, <2>5
<1>14. RingOrder' /\ \A u \in Threads : Room(u) <= Room(u)' /\ Room(u) \in Int /\ Room(u)' \in Int
  BY <1>4, <1>12, <1>13
<1>15. ClaimsExclusive'
  <2>1. \A u \in Threads : Claims(u)' =>
          u # t /\ Claims(u) /\ n'[u] = n[u] /\ n[u] \in Nat \ {0} /\ old'[u] = old[u]
          /\ old[u] \in Index /\ Offset(u) \in Nat
    <3> SUFFICES ASSUME NEW u \in Threads, Claims(u)'
                 PROVE  u # t /\ Claims(u) /\ n'[u] = n[u] /\ n[u] \in Nat \ {0}
                        /\ old'[u] = old[u] /\ old[u] \in Index /\ Offset(u) \in Nat
      OBVIOUS
    <3>1. u # t /\ Claims(u) /\ n'[u] = n[u] /\ old'[u] = old[u] /\ old[u] \in Index
          /\ n[u] \in Nat
      BY <1>1 DEF Claims, Return, TypeOK
    <3>2. n[u] > 0
      BY <3>1 DEF ClaimsExclusive
    <3>3. Offset(u) \in Nat
      BY <3>1, <1>5 DEF Offset, TypeOK
    <3> QED
      BY <3>1, <3>2, <3>3
  <2>2. ASSUME NEW u \in Threads, Claims(u)', SideOf(u) = s
        PROVE  /\ n[t] <= Offset(u)
               /\ Offset(u)' = Offset(u) - n[t]
    <3>1. Offset(t) + n[t] <= Offset(u) \/ Offset(u) + n[u] <= Offset(t)
      BY <2>1, <2>2, <1>1 DEF ClaimsExclusive, Claims
    <3>2. n[t] <= Offset(u)
      BY <3>1, <2>1, <2>2, <1>4, <1>7
    <3>3. Offset(u)' = Minus(old[u], Plus(tail[s], n[t]))
      BY <2>1, <2>2, <1>8 DEF Offset
    <3>4. Minus(old[u], Plus(tail[s], n[t])) = Minus(old[u], tail[s]) - n[t]
      <4>1. old[u] \in Index /\ n[t] <= Minus(old[u], tail[s])
        BY <2>1, <2>2, <3>2 DEF Offset
      <4> QED
        BY <4>1, <1>4, <1>6, MinusShift
    <3> QED
      BY <3>2, <3>3, <3>4, <2>2 DEF Offset
  <2>3. ASSUME NEW u \in Threads, Claims(u)', SideOf(u) # s
        PROVE  Offset(u)' = Offset(u) /\ tail'[SideOf(u)] = tail[SideOf(u)]
    BY <2>1, <2>3, <1>9 DEF Offset
  <2>4. ASSUME NEW u \in Threads, Claims(u)'
        PROVE  n'[u] > 0 /\ Offset(u)' + n'[u] <= Minus(head[SideOf(u)], tail[SideOf(u)])'
    <3>1. Offset(u) + n[u] <= Minus(head[SideOf(u)], tail[SideOf(u)])
      BY <2>1, <2>4 DEF ClaimsExclusive
    <3>2. CASE SideOf(u) = s
      <4>1. Minus(head[SideOf(u)], tail[SideOf(u)])' = span - n[t]
        BY <3>2, <1>1, <1>8
      <4>2. Offset(u)' = Offset(u) - n[t] /\ Offset(u) + n[u] <= span
        BY <3>1, <3>2, <2>2, <2>4
      <4> QED
        BY <4>1, <4>2, <2>1, <2>4, <1>4, <1>6
    <3>3. CASE SideOf(u) # s
      BY <3>1, <3>3, <2>1, <2>3, <2>4, <1>1
    <3> QED
      BY <3>2, <3>3
  <2>5. ASSUME NEW u \in Threads, NEW v \in Threads,
               Claims(u)', Claims(v)', u # v, SideOf(u) = SideOf(v)
        PROVE  (Offset(u) + n[u] <= Offset(v) \/ Offset(v) + n[v] <= Offset(u))'
    <3>1. Offset(u) + n[u] <= Offset(v) \/ Offset(v) + n[v] <= Offset(u)
      BY <2>1, <2>5 DEF ClaimsExclusive
    <3>2. CASE SideOf(u) = s
      <4>1. Offset(u)' = Offset(u) - n[t] /\ Offset(v)' = Offset(v) - n[t]
        BY <3>2, <2>2, <2>5
      <4> QED
        BY <4>1, <3>1, <2>1, <2>5, <1>4
    <3>3. CASE SideOf(u) # s
      BY <3>1, <3>3, <2>1, <2>3, <2>5
    <3> QED
      BY <3>2, <3>3
  <2> QED
    BY <2>4, <2>5 DEF ClaimsExclusive
<1>16. Snapshot'
  <2> SUFFICES ASSUME NEW u \in Threads, Loaded(u)'
               PROVE  /\ lag'[u] < IndexMod
                      /\ head'[SideOf(u)] = Plus(old'[u], lag'[u])
                      /\ (pc'[u] = "move" /\ lag'[u] = 0 => n'[u] <= Room(u)')
    BY DEF Snapshot
  <2>1. u # t /\ Loaded(u) /\ pc'[u] = pc[u] /\ old'[u] = old[u] /\ n'[u] = n[u]
        /\ lag'[u] = lag[u] /\ n[u] \in Nat
    BY <1>1 DEF Loaded, TypeOK, Return
  <2> QED
    BY <2>1, <1>1, <1>14 DEF Snapshot
<1>17. LoneSide'
  <2> SUFFICES ASSUME NEW u \in Threads
               PROVE  /\ how'[u] # "multi" => Alone(u)
                      /\ how'[u] = "peek" => u \in Consumers
                      /\ Alone(u) /\ Claims(u)' =>
                           old'[u] = tail'[SideOf(u)] /\ head[SideOf(u)] = Plus(old'[u], n'[u])
                      /\ Alone(u) /\ ~Claims(u)' => head[SideOf(u)] = tail'[SideOf(u)]
                      /\ Alone(u) /\ Loaded(u)' => lag'[u] = 0
    <3>1. \A v : Alone(v)' <=> Alone(v)
      BY <1>1 DEF Alone, Return
    <3> QED
      BY <3>1, <1>1 DEF LoneSide
  <2>1. CASE u = t
    BY <2>1, <1>1, <1>3, <1>8 DEF LoneSide, Claims, Loaded, Return, TypeOK
  <2>2. CASE u # t /\ SideOf(u) = s
    BY <2>2, <1>1 DEF LoneSide, CallersAreUsers, Alone, Return, TypeOK
  <2>3. CASE u # t /\ SideOf(u) # s
    BY <2>3, <1>1, <1>9 DEF LoneSide, Claims, Loaded, Return, TypeOK
  <2> QED
    BY <2>1, <2>2, <2>3
<1>18. CallersAreUsers'
  BY <1>1 DEF CallersAreUsers, Return, TypeOK
<1> QED
  BY <1>10, <1>11, <1>14, <1>15, <1>16, <1>17, <1>18

(* Every enqueue function is __rte_ring_do_enqueue with some arguments.     *)
LEMMA EnqueueKinds ==
  ASSUME NEW p, Enqueue(p)
  PROVE  \E m \in Nat \ {0}, f \in BOOLEAN, sp \in BOOLEAN : DoEnqueue(p, m, f, sp)
<1>1. 1 \in Nat \ {0} /\ (1 .. MaxBurst) \subseteq Nat \ {0} /\ ProdSingle \in BOOLEAN
  BY FlagAssumption, BoundAssumption
<1> QED
  BY <1>1, Zenon DEF Enqueue, rte_ring_mp_enqueue_bulk, rte_ring_sp_enqueue_bulk,
    rte_ring_enqueue_bulk, rte_ring_mp_enqueue, rte_ring_sp_enqueue, rte_ring_enqueue,
    rte_ring_mp_enqueue_burst, rte_ring_sp_enqueue_burst, rte_ring_enqueue_burst

(* Every dequeue function is __rte_ring_do_dequeue, but for the peek.       *)
LEMMA DequeueKinds ==
  ASSUME NEW c, Dequeue(c)
  PROVE  \E m \in Nat, f \in BOOLEAN, sc \in BOOLEAN :
           DoDequeue(c, m, f, sc) \/ rte_ring_sc_dequeue_burst_peek(c, m)
<1>1. 1 \in Nat /\ (1 .. MaxBurst) \subseteq Nat /\ ConsSingle \in BOOLEAN
  BY FlagAssumption, BoundAssumption
<1> QED
  BY <1>1, Zenon DEF Dequeue, rte_ring_mc_dequeue_bulk, rte_ring_sc_dequeue_bulk,
    rte_ring_dequeue_bulk, rte_ring_mc_dequeue, rte_ring_sc_dequeue, rte_ring_dequeue,
    rte_ring_mc_dequeue_burst, rte_ring_sc_dequeue_burst, rte_ring_dequeue_burst

(* Every step of every lcore, and every stuttering step, keeps IndInv.      *)
LEMMA NextInv == IndInv /\ [Next]_vars => IndInv'
<1> SUFFICES ASSUME IndInv, [Next]_vars PROVE IndInv'
  OBVIOUS
<1>1. ASSUME NEW p \in Producers, Enqueue(p) PROVE IndInv'
  BY <1>1, EnqueueKinds, EnqueueInv
<1>2. ASSUME NEW c \in Consumers, Dequeue(c) PROVE IndInv'
  BY <1>2, DequeueKinds, DequeueInv
<1>3. ASSUME NEW t \in Threads, Step(t) PROVE IndInv'
  <2>1. CASE LoadHead(t)
    BY <2>1, LoadHeadInv
  <2>2. CASE LoadOppositeTail(t)
    BY <2>2, LoadOppositeTailInv
  <2>3. CASE MoveHead(t) /\ CmpsetFails(t)
    BY <2>3, MoveFailsInv DEF MoveHead
  <2>4. CASE MoveHead(t) /\ ~CmpsetFails(t)
    BY <2>4, MoveInv
  <2>5. CASE Copy(t)
    BY <2>5, CopyInv
  <2>6. CASE YieldBlock(t)
    BY <2>6, YieldBlockInv
  <2>7. CASE update_tail(t) \/ update_sc_tail(t)
    BY <2>7, TailInv
  <2> QED
    BY <1>3, <2>1, <2>2, <2>3, <2>4, <2>5, <2>6, <2>7 DEF Step
<1>4. CASE UNCHANGED vars
  BY <1>4 DEF vars, IndInv, TypeOK, TableBound, RingOrder, ClaimsExclusive, Snapshot, LoneSide,
     CallersAreUsers, Alone, Claims, Loaded, Offset, Room
<1> QED
  BY <1>1, <1>2, <1>3, <1>4 DEF Next

(* The index protocol of the ring, for any number of producers and          *)
(* consumers, any size and capacity and any index width: every reachable    *)
(* state satisfies the inductive invariant.                                 *)
THEOREM RingInvariant == Spec => []IndInv
<1>1. Init => IndInv
  BY InitInv
<1>2. IndInv /\ [Next]_vars => IndInv'
  BY NextInv
<1> QED
  BY <1>1, <1>2, PTL DEF Spec

(* Every variable of a call and of the ring keeps its type: in particular   *)
(* the copy loops of rte_ring.c never index outside the ring array or past  *)
(* the end of obj_table.                                                    *)
THEOREM RingTypeCorrect == Spec => []TypeOK
<1>1. IndInv => TypeOK
  BY DEF IndInv
<1> QED
  BY <1>1, RingInvariant, PTL

(* The four indices never get out of order and never spread over more than  *)
(* the capacity, across the wrap at 2^32 and under every interleaving.      *)
THEOREM RingOrdered == Spec => []RingOrder
<1>1. IndInv => RingOrder
  BY DEF IndInv
<1> QED
  BY <1>1, RingInvariant, PTL

(* No two calls of one side ever own a common position of the ring.         *)
THEOREM RingClaimsExclusive == Spec => []ClaimsExclusive
<1>1. IndInv => ClaimsExclusive
  BY DEF IndInv
<1> QED
  BY <1>1, RingInvariant, PTL

-----------------------------------------------------------------------------
(* Slots.  Size divides 2^32, so masking an index that wrapped gives the    *)
(* slot it would have without the wrap, and fewer than Size consecutive     *)
(* indices have different slots.                                            *)

LEMMA DivMod ==
  ASSUME NEW x \in Int
  PROVE  x % Size \in 0 .. Size - 1 /\ x \div Size \in Int /\ x = (x \div Size) * Size + (x % Size)
  BY SizeAssumption

LEMMA SmallMultiple ==
  ASSUME NEW q \in Int, NEW r \in Int, NEW s \in Int,
         q * Size = r * Size + s, -Size < s, s < Size
  PROVE  s = 0
<1>1. Size \in Nat \ {0}
  BY SizeAssumption
<1>2. s = (q - r) * Size
  BY <1>1
<1>3. CASE q - r = 0
  BY <1>1, <1>2, <1>3
<1>4. CASE q - r >= 1
  <2>1. (q - r) * Size >= Size
    BY <1>1, <1>4
  <2> QED
    BY <2>1, <1>1, <1>2
<1>5. CASE q - r <= -1
  <2>1. (q - r) * Size <= -Size
    BY <1>1, <1>5
  <2> QED
    BY <2>1, <1>1, <1>2
<1> QED
  BY <1>3, <1>4, <1>5

LEMMA ModWrap ==
  ASSUME NEW x \in Int
  PROVE  (x - IndexMod) % Size = x % Size
<1> DEFINE r == x % Size                 q == x \div Size
           r2 == (x - IndexMod) % Size   q2 == (x - IndexMod) \div Size
           m == IndexMod \div Size
<1>1. Size \in Nat \ {0} /\ IndexMod \in Int
  BY SizeAssumption
<1>2. r \in 0 .. Size - 1 /\ q \in Int /\ x = q * Size + r
  BY DivMod
<1>3. r2 \in 0 .. Size - 1 /\ q2 \in Int /\ x - IndexMod = q2 * Size + r2
  BY <1>1, DivMod
<1>4. m \in Int /\ IndexMod = m * Size
  BY <1>1, DivMod, SizeAssumption
<1> HIDE DEF r, q, r2, q2, m
<1>5. q * Size = (q2 + m) * Size + (r2 - r)
  BY <1>1, <1>2, <1>3, <1>4
<1>6. r2 - r = 0
  BY <1>1, <1>2, <1>3, <1>4, <1>5, SmallMultiple
<1> QED
  BY <1>1, <1>2, <1>3, <1>6 DEF r, r2

LEMMA ModInjective ==
  ASSUME NEW x \in Int, NEW y \in Int, x % Size = y % Size, x - y < Size, y - x < Size
  PROVE  x = y
<1> DEFINE q == x \div Size   r == x % Size   q2 == y \div Size
<1>1. Size \in Nat \ {0}
  BY SizeAssumption
<1>2. r \in 0 .. Size - 1 /\ q \in Int /\ x = q * Size + r
  BY DivMod
<1>3. q2 \in Int /\ y = q2 * Size + r
  BY DivMod
<1> HIDE DEF q, r, q2
<1>4. q * Size = q2 * Size + (x - y)
  BY <1>1, <1>2, <1>3
<1>5. x - y = 0
  BY <1>1, <1>2, <1>3, <1>4, SmallMultiple
<1> QED
  BY <1>5

LEMMA SlotsDistinct ==
  ASSUME NEW a \in Index, NEW j \in 0 .. Size - 1, NEW k \in 0 .. Size - 1,
         Slot(Plus(a, j)) = Slot(Plus(a, k))
  PROVE  j = k
<1>1. a \in Int /\ j \in Int /\ k \in Int /\ Size \in Nat /\ IndexMod \in Nat
  BY SizeAssumption DEF Index
<1>2. ASSUME NEW i \in Int
      PROVE  Slot(Plus(a, i)) = (a + i) % Size
  <2>1. a + i \in Int
    BY <1>1
  <2>2. ((a + i) - IndexMod) % Size = (a + i) % Size
    BY <2>1, ModWrap, Zenon
  <2>3. Plus(a, i) = a + i \/ Plus(a, i) = (a + i) - IndexMod
    BY <1>1, <2>1 DEF Plus
  <2>4. Slot(Plus(a, i)) = Plus(a, i) % Size
    BY DEF Slot
  <2> QED
    BY <2>2, <2>3, <2>4, Zenon
<1>3. (a + j) % Size = (a + k) % Size
  BY <1>1, <1>2
<1>4. ASSUME NEW x \in Int, NEW y \in Int, x % Size = y % Size, x - y = j - k
      PROVE  x = y
  <2>1. j - k < Size /\ k - j < Size
    BY <1>1
  <2>2. x - y < Size /\ y - x < Size
    BY <2>1, <1>1, <1>4
  <2> QED
    BY <2>2, <1>4, ModInjective
<1>5. a + j \in Int /\ a + k \in Int /\ (a + j) - (a + k) = j - k
  BY <1>1
<1>6. a + j = a + k
  BY <1>3, <1>4, <1>5
<1> QED
  BY <1>1, <1>6

-----------------------------------------------------------------------------
(* The position of the k-th slot that a call claims, counted from           *)
(* cons.tail.                                                               *)
Pos(t, k) ==
  (IF t \in Producers THEN Minus(tail["prod"], tail["cons"]) ELSE 0) + Offset(t) + k

(* A claim lies within the capacity, a consumer's below cons.head and a     *)
(* producer's from prod.tail on.                                            *)
LEMMA ClaimPlace ==
  ASSUME IndInv, NEW t \in Threads, Claims(t), NEW k \in 0 .. n[t] - 1
  PROVE  /\ Pos(t, k) \in 0 .. Capacity - 1
         /\ Plus(old[t], k) = Plus(tail["cons"], Pos(t, k))
         /\ t \in Producers => Pos(t, k) >= Minus(tail["prod"], tail["cons"])
         /\ t \notin Producers => Pos(t, k) < Minus(head["cons"], tail["cons"])
         /\ Offset(t) \in Nat /\ n[t] \in Nat \ {0}
<1> DEFINE s == SideOf(t)
<1>1. /\ n[t] \in Nat \ {0} /\ k \in Nat /\ old[t] \in Index
      /\ s \in {"prod", "cons"} /\ tail[s] \in Index /\ tail["cons"] \in Index /\ tail["prod"] \in Index
  BY SideInSides DEF IndInv, TypeOK, ClaimsExclusive
<1>2. \A a, b \in Index : Minus(a, b) \in Nat
  BY SizeAssumption DEF Minus, Index
<1>3. Offset(t) \in Nat /\ Offset(t) + n[t] <= Minus(head[s], tail[s])
  BY <1>1, <1>2 DEF IndInv, ClaimsExclusive, Offset
<1>4. old[t] = Plus(tail[s], Offset(t))
  BY <1>1, IndexArith DEF Offset
<1>5. CASE t \in Producers
  <2>1. s = "prod" /\ Pos(t, k) = Minus(tail["prod"], tail["cons"]) + Offset(t) + k
    BY <1>5 DEF SideOf, Pos
  <2>2. Pos(t, k) \in 0 .. Capacity - 1 /\ Pos(t, k) >= Minus(tail["prod"], tail["cons"])
    BY <2>1, <1>1, <1>3, Spans
  <2>3. tail["prod"] = Plus(tail["cons"], Minus(tail["prod"], tail["cons"]))
    BY <1>1, IndexArith
  <2>4. Minus(tail["prod"], tail["cons"]) \in Nat /\ Capacity < IndexMod /\ Capacity \in Nat
        /\ IndexMod \in Nat
    BY Spans, SizeAssumption
  <2>5. old[t] = Plus(tail["cons"], Minus(tail["prod"], tail["cons"]) + Offset(t))
    BY <2>1, <2>2, <2>3, <2>4, <1>1, <1>3, <1>4, PlusPlus
  <2>6. Plus(old[t], k) = Plus(tail["cons"], Minus(tail["prod"], tail["cons"]) + Offset(t) + k)
    BY <2>1, <2>2, <2>4, <2>5, <1>1, <1>3, PlusPlus
  <2> QED
    BY <2>1, <2>2, <2>6, <1>1, <1>3, <1>5
<1>6. CASE t \notin Producers
  <2>1. s = "cons" /\ Pos(t, k) = Offset(t) + k
    BY <1>1, <1>3, <1>6 DEF SideOf, Pos
  <2>2. Pos(t, k) \in 0 .. Capacity - 1 /\ Pos(t, k) < Minus(head["cons"], tail["cons"])
    BY <2>1, <1>1, <1>3, Spans
  <2>3. Plus(old[t], k) = Plus(tail["cons"], Offset(t) + k)
    BY <2>1, <2>2, <1>1, <1>3, <1>4, SizeAssumption, PlusPlus
  <2> QED
    BY <2>1, <2>2, <2>3, <1>1, <1>3, <1>6
<1> QED
  BY <1>5, <1>6

(* The same of the published objects nobody has claimed.                    *)
LEMMA RingPlace ==
  ASSUME IndInv, NEW k \in 0 .. Minus(tail["prod"], head["cons"]) - 1
  PROVE  /\ Minus(head["cons"], tail["cons"]) + k \in 0 .. Minus(tail["prod"], tail["cons"]) - 1
         /\ Minus(tail["prod"], tail["cons"]) <= Capacity
         /\ Plus(head["cons"], k) = Plus(tail["cons"], Minus(head["cons"], tail["cons"]) + k)
<1>1. Minus(head["cons"], tail["cons"]) + k \in 0 .. Minus(tail["prod"], tail["cons"]) - 1
      /\ Minus(tail["prod"], tail["cons"]) <= Capacity
  BY Spans
<1>2. head["cons"] = Plus(tail["cons"], Minus(head["cons"], tail["cons"]))
  BY Spans, IndexArith
<1>3. k \in Nat /\ Minus(head["cons"], tail["cons"]) \in Nat
      /\ Minus(head["cons"], tail["cons"]) + k < IndexMod /\ tail["cons"] \in Index
  BY <1>1, Spans, SizeAssumption
<1> QED
  BY <1>1, <1>2, <1>3, PlusPlus

(* Two calls never touch the same slot.                                     *)
LEMMA ClaimsApart ==
  ASSUME IndInv, NEW t \in Threads, NEW u \in Threads, Claims(t), Claims(u),
         NEW j \in 0 .. n[t] - 1, NEW k \in 0 .. n[u] - 1,
         Slot(Plus(old[t], j)) = Slot(Plus(old[u], k))
  PROVE  t = u /\ j = k
<1>1. /\ Pos(t, j) \in 0 .. Capacity - 1 /\ Pos(u, k) \in 0 .. Capacity - 1
      /\ Plus(old[t], j) = Plus(tail["cons"], Pos(t, j))
      /\ Plus(old[u], k) = Plus(tail["cons"], Pos(u, k))
      /\ Offset(t) \in Nat /\ n[t] \in Nat /\ Offset(u) \in Nat /\ n[u] \in Nat
  BY ClaimPlace
<1>2. tail["cons"] \in Index /\ Capacity \in 0 .. Size - 1 /\ Size \in Nat
      /\ Minus(tail["prod"], tail["cons"]) \in Nat
  BY Spans, SizeAssumption
<1>3. Pos(t, j) = Pos(u, k)
  BY <1>1, <1>2, SlotsDistinct
<1>4. t \in Producers <=> u \in Producers
  <2>1. Minus(head["cons"], tail["cons"]) <= Minus(tail["prod"], tail["cons"])
        /\ Minus(head["cons"], tail["cons"]) \in Nat
    BY Spans
  <2>2. /\ t \in Producers => Pos(t, j) >= Minus(tail["prod"], tail["cons"])
        /\ t \notin Producers => Pos(t, j) < Minus(head["cons"], tail["cons"])
        /\ u \in Producers => Pos(u, k) >= Minus(tail["prod"], tail["cons"])
        /\ u \notin Producers => Pos(u, k) < Minus(head["cons"], tail["cons"])
    BY ClaimPlace
  <2> QED
    BY <2>1, <2>2, <1>1, <1>2, <1>3
<1>5. SideOf(t) = SideOf(u) /\ Offset(t) + j = Offset(u) + k
  BY <1>1, <1>2, <1>3, <1>4 DEF Pos, SideOf
<1>6. t # u => Offset(t) + n[t] <= Offset(u) \/ Offset(u) + n[u] <= Offset(t)
  BY <1>5 DEF IndInv, ClaimsExclusive
<1> QED
  BY <1>1, <1>5, <1>6

(* A producer writes no slot that holds a published object.                 *)
LEMMA RingApart ==
  ASSUME IndInv, NEW p \in Threads, p \in Producers, Claims(p), NEW j \in 0 .. n[p] - 1,
         NEW k \in 0 .. Minus(tail["prod"], head["cons"]) - 1
  PROVE  Slot(Plus(old[p], j)) # Slot(Plus(head["cons"], k))
<1> DEFINE x == Minus(head["cons"], tail["cons"]) + k
<1>1. /\ Pos(p, j) \in 0 .. Capacity - 1
      /\ Plus(old[p], j) = Plus(tail["cons"], Pos(p, j))
      /\ Pos(p, j) >= Minus(tail["prod"], tail["cons"])
  BY ClaimPlace
<1>2. /\ x \in 0 .. Minus(tail["prod"], tail["cons"]) - 1
      /\ Plus(head["cons"], k) = Plus(tail["cons"], x)
      /\ Minus(tail["prod"], tail["cons"]) <= Capacity
  BY RingPlace
<1>3. tail["cons"] \in Index /\ Capacity \in 0 .. Size - 1 /\ Size \in Nat
      /\ Minus(tail["prod"], tail["cons"]) \in Nat
  BY Spans, SizeAssumption
<1> HIDE DEF x
<1>4. x \in 0 .. Size - 1 /\ Pos(p, j) \in 0 .. Size - 1 /\ x # Pos(p, j)
  BY <1>1, <1>2, <1>3
<1> QED
  BY <1>1, <1>2, <1>3, <1>4, SlotsDistinct

-----------------------------------------------------------------------------
(* FifoInv is kept.                                                         *)

LEMMA InitFifo == Init => FifoInv
<1> SUFFICES ASSUME Init PROVE FifoInv
  OBVIOUS
<1>1. PICK s \in Starts : head = [side \in {"prod", "cons"} |-> s]
                        /\ tail = [side \in {"prod", "cons"} |-> s]
  BY DEF Init
<1>2. s \in Index /\ Minus(s, s) = 0
  BY <1>1, BoundAssumption DEF Minus, Index
<1>3. ClaimsCover
  BY <1>1, <1>2 DEF ClaimsCover
<1>4. /\ \A t \in Threads : pc[t] = "idle" /\ tbl[t] = <<>> /\ copied[t] = 0
      /\ Consumers \subseteq Threads /\ Producers \subseteq Threads
  BY DEF Init, Threads
<1>5. TablesCopied
  BY <1>4 DEF TablesCopied, Claims
<1> QED
  BY <1>3, <1>5 DEF FifoInv

(* A step of a call that neither has a claim nor gets one.                  *)
LEMMA QuietFifo ==
  ASSUME IndInv, FifoInv, NEW t \in Threads, ~Claims(t), ~Claims(t)',
         UNCHANGED <<head, tail, ring>>,
         \A u \in Threads \ {t} : /\ pc'[u] = pc[u] /\ n'[u] = n[u] /\ old'[u] = old[u]
                                  /\ tbl'[u] = tbl[u] /\ copied'[u] = copied[u],
         pc'[t] = "idle" => tbl'[t] = <<>>,
         t \in Consumers => Len(tbl'[t]) = copied'[t]
  PROVE  FifoInv'
<1>1. ClaimsCover'
  <2> SUFFICES ASSUME NEW side \in {"prod", "cons"},
                      NEW k \in 0 .. Minus(head[side], tail[side]) - 1
               PROVE  \E u \in Threads : /\ SideOf(u) = side /\ Claims(u)'
                                         /\ k \in (Offset(u) .. Offset(u) + n[u] - 1)'
    BY DEF ClaimsCover
  <2>1. PICK u \in Threads : SideOf(u) = side /\ Claims(u) /\ k \in Offset(u) .. Offset(u) + n[u] - 1
    BY DEF FifoInv, ClaimsCover
  <2>2. u # t /\ Claims(u)' /\ Offset(u)' = Offset(u) /\ n'[u] = n[u]
    BY <2>1 DEF Claims, Offset
  <2> QED
    BY <2>1, <2>2
<1>2. TablesCopied'
  <2>1. \A u \in Threads : pc'[u] = "idle" => tbl'[u] = <<>>
    BY DEF FifoInv, TablesCopied
  <2>2. \A u \in Threads : pc'[u] \in {"block", "tail"} => copied'[u] = n'[u]
    BY DEF FifoInv, TablesCopied, Claims
  <2>3. \A p \in Producers : Claims(p)' =>
          \A i \in 1 .. copied'[p] : ring'[Slot(Plus(old'[p], i - 1))] = tbl'[p][i]
    <3>1. \A p \in Producers : Claims(p)' => p # t /\ Claims(p) /\ p \in Threads \ {t}
      BY DEF Claims, Threads
    <3> QED
      BY <3>1 DEF FifoInv, TablesCopied
  <2>4. \A c \in Consumers : Len(tbl'[c]) = copied'[c]
    BY DEF FifoInv, TablesCopied, Threads
  <2> QED
    BY <2>1, <2>2, <2>3, <2>4 DEF TablesCopied
<1> QED
  BY <1>1, <1>2 DEF FifoInv

LEMMA EnterFifo ==
  ASSUME IndInv, FifoInv, NEW t \in Threads, NEW m, NEW f, NEW mode, Enter(t, m, f, mode),
         \A u \in Threads \ {t} : tbl'[u] = tbl[u],
         t \in Consumers => tbl'[t] = tbl[t]
  PROVE  FifoInv'
<1>1. ~Claims(t) /\ ~Claims(t)' /\ pc'[t] = "head" /\ UNCHANGED <<head, tail, ring, copied>>
  BY DEF Enter, Claims, idx, IndInv, TypeOK
<1>2. \A u \in Threads \ {t} : /\ pc'[u] = pc[u] /\ n'[u] = n[u] /\ old'[u] = old[u]
                               /\ tbl'[u] = tbl[u] /\ copied'[u] = copied[u]
  BY DEF Enter, IndInv, TypeOK
<1>3. t \in Consumers => Len(tbl'[t]) = copied'[t]
  BY <1>1 DEF FifoInv, TablesCopied
<1> QED
  BY <1>1, <1>2, <1>3, QuietFifo

LEMMA EnqueueFifo ==
  ASSUME IndInv, FifoInv, NEW p \in Producers, NEW m \in Nat,
         NEW f \in BOOLEAN, NEW sp \in BOOLEAN, DoEnqueue(p, m, f, sp)
  PROVE  FifoInv'
<1>1. p \in Threads /\ p \notin Consumers
  BY SidesAssumption DEF Threads
<1>2. \A u \in Threads \ {p} : tbl'[u] = tbl[u]
  BY DEF DoEnqueue, IndInv, TypeOK
<1> QED
  BY <1>1, <1>2, EnterFifo DEF DoEnqueue

LEMMA DequeueFifo ==
  ASSUME IndInv, FifoInv, NEW c \in Consumers, NEW m \in Nat,
         NEW f \in BOOLEAN, NEW sc \in BOOLEAN,
         DoDequeue(c, m, f, sc) \/ rte_ring_sc_dequeue_burst_peek(c, m)
  PROVE  FifoInv'
<1>1. c \in Threads
  BY DEF Threads
<1>2. tbl' = tbl
  BY DEF DoDequeue, rte_ring_sc_dequeue_burst_peek
<1>3. CASE DoDequeue(c, m, f, sc)
  BY <1>1, <1>2, <1>3, EnterFifo DEF DoDequeue
<1>4. CASE rte_ring_sc_dequeue_burst_peek(c, m)
  BY <1>1, <1>2, <1>4, EnterFifo DEF rte_ring_sc_dequeue_burst_peek
<1> QED
  BY <1>3, <1>4

LEMMA LoadHeadFifo ==
  ASSUME IndInv, FifoInv, NEW t \in Threads, LoadHead(t)
  PROVE  FifoInv'
<1>1. ~Claims(t) /\ ~Claims(t)' /\ pc'[t] = "opposite" /\ UNCHANGED <<head, tail, ring, copied, tbl, n>>
  BY DEF LoadHead, Claims, idx, IndInv, TypeOK
<1>2. \A u \in Threads \ {t} : /\ pc'[u] = pc[u] /\ n'[u] = n[u] /\ old'[u] = old[u]
                               /\ tbl'[u] = tbl[u] /\ copied'[u] = copied[u]
  BY <1>1 DEF LoadHead, IndInv, TypeOK
<1>3. t \in Consumers => Len(tbl'[t]) = copied'[t]
  BY <1>1 DEF FifoInv, TablesCopied
<1> QED
  BY <1>1, <1>2, <1>3, QuietFifo

(* A call that returns without having moved anything had copied nothing.    *)
LEMMA LoadOppositeTailFifo ==
  ASSUME IndInv, FifoInv, NEW t \in Threads, LoadOppositeTail(t)
  PROVE  FifoInv'
<1> DEFINE fit == Fit(max[t], Available(t), fixed[t])
<1>1. ~Claims(t) /\ UNCHANGED <<head, tail, ring>> /\ pc[t] = "opposite"
  BY DEF LoadOppositeTail, Claims, idx
<1>2. CASE fit = 0 /\ Return(t)
  <2>1. pc'[t] = "idle" /\ ~Claims(t)' /\ tbl'[t] = <<>> /\ copied'[t] = 0
    BY <1>2 DEF Return, Claims, IndInv, TypeOK
  <2>2. \A u \in Threads \ {t} : /\ pc'[u] = pc[u] /\ n'[u] = n[u] /\ old'[u] = old[u]
                                 /\ tbl'[u] = tbl[u] /\ copied'[u] = copied[u]
    BY <1>2 DEF Return, IndInv, TypeOK
  <2>3. Len(tbl'[t]) = copied'[t]
    BY <2>1
  <2> QED
    BY <1>1, <2>1, <2>2, <2>3, QuietFifo
<1>3. CASE /\ fit > 0
           /\ n' = [n EXCEPT ![t] = fit]
           /\ pc' = [pc EXCEPT ![t] = "move"]
           /\ UNCHANGED <<loc, old, tbl, copied, lag>>
  <2>1. pc'[t] = "move" /\ ~Claims(t)'
    BY <1>3 DEF Claims, IndInv, TypeOK
  <2>2. \A u \in Threads \ {t} : /\ pc'[u] = pc[u] /\ n'[u] = n[u] /\ old'[u] = old[u]
                                 /\ tbl'[u] = tbl[u] /\ copied'[u] = copied[u]
    BY <1>3 DEF IndInv, TypeOK
  <2>3. t \in Consumers => Len(tbl'[t]) = copied'[t]
    BY <1>3 DEF FifoInv, TablesCopied
  <2> QED
    BY <1>1, <2>1, <2>2, <2>3, QuietFifo
<1> QED
  BY <1>2, <1>3 DEF LoadOppositeTail

(* A new claim begins where the side's claims ended.                        *)
LEMMA MoveFifo ==
  ASSUME IndInv, FifoInv, NEW t \in Threads, MoveHead(t)
  PROVE  FifoInv'
<1>1. CASE CmpsetFails(t)
  <2>1. /\ ~Claims(t) /\ ~Claims(t)' /\ pc'[t] = "head"
        /\ UNCHANGED <<head, tail, ring, copied, tbl, n, old>>
    BY <1>1 DEF MoveHead, Claims, IndInv, TypeOK
  <2>2. \A u \in Threads \ {t} : /\ pc'[u] = pc[u] /\ n'[u] = n[u] /\ old'[u] = old[u]
                                 /\ tbl'[u] = tbl[u] /\ copied'[u] = copied[u]
    BY <1>1, <2>1 DEF MoveHead, IndInv, TypeOK
  <2>3. t \in Consumers => Len(tbl'[t]) = copied'[t]
    BY <2>1 DEF FifoInv, TablesCopied
  <2> QED
    BY <2>1, <2>2, <2>3, QuietFifo
<1>2. CASE ~CmpsetFails(t)
  <2> DEFINE s == SideOf(t)
             span == Minus(head[s], tail[s])
  <2>1. pc[t] = "move" /\ UNCHANGED <<tail, ring, n, old, tbl, copied>>
        /\ pc' = [pc EXCEPT ![t] = "copy"]
    BY <1>2 DEF MoveHead
  <2>2. \A u \in Threads : /\ Claims(u)' <=> (u = t \/ Claims(u))
                           /\ Offset(u)' = Offset(u) /\ n'[u] = n[u]
                           /\ u # t => pc'[u] = pc[u]
    BY <2>1 DEF Claims, Offset, IndInv, TypeOK
  <2>3. /\ n[t] \in Nat \ {0} /\ head[s] = old[t] /\ span \in Nat
        /\ Minus(head'[s], tail[s]) = span + n[t]
        /\ \A side \in {"prod", "cons"} \ {s} : head'[side] = head[side]
    BY <1>2, MoveFacts
  <2>4. ClaimsCover'
    <3> SUFFICES ASSUME NEW side \in {"prod", "cons"},
                        NEW k \in 0 .. Minus(head'[side], tail[side]) - 1
                 PROVE  \E u \in Threads : /\ SideOf(u) = side /\ Claims(u)'
                                           /\ k \in (Offset(u) .. Offset(u) + n[u] - 1)'
      BY <2>1 DEF ClaimsCover
    <3>1. CASE k \in 0 .. Minus(head[side], tail[side]) - 1
      <4>1. PICK u \in Threads : SideOf(u) = side /\ Claims(u) /\ k \in Offset(u) .. Offset(u) + n[u] - 1
        BY <3>1 DEF FifoInv, ClaimsCover
      <4> QED
        BY <4>1, <2>2
    <3>2. CASE k \notin 0 .. Minus(head[side], tail[side]) - 1
      <4>1. side = s
        BY <3>2, <2>3
      <4>2. Offset(t) = span
        BY <2>3 DEF Offset
      <4>3. k \in Offset(t) .. Offset(t) + n[t] - 1
        BY <3>2, <4>1, <4>2, <2>3
      <4> QED
        BY <4>1, <4>3, <2>2
    <3> QED
      BY <3>1, <3>2
  <2>5. copied[t] = 0
    BY <2>1 DEF IndInv, TableBound
  <2>6. TablesCopied'
    <3>1. \A u \in Threads : pc'[u] = "idle" => tbl'[u] = <<>>
      BY <2>1, <2>2 DEF FifoInv, TablesCopied, Claims
    <3>2. \A u \in Threads : pc'[u] \in {"block", "tail"} => copied'[u] = n'[u]
      BY <2>1 DEF FifoInv, TablesCopied, IndInv, TypeOK
    <3>3. \A p \in Producers : Claims(p)' =>
            \A i \in 1 .. copied[p] : ring[Slot(Plus(old[p], i - 1))] = tbl[p][i]
      BY <2>2, <2>5 DEF FifoInv, TablesCopied, Threads
    <3>4. \A c \in Consumers : Len(tbl[c]) = copied[c]
      BY DEF FifoInv, TablesCopied
    <3> QED
      BY <3>1, <3>2, <3>3, <3>4, <2>1 DEF TablesCopied
  <2> QED
    BY <2>4, <2>6 DEF FifoInv
<1> QED
  BY <1>1, <1>2

(* A step between a claim and its end.                                      *)
LEMMA CoverKept ==
  ASSUME ClaimsCover, UNCHANGED <<head, tail, n, old>>,
         \A u \in Threads : Claims(u) => Claims(u)'
  PROVE  ClaimsCover'
<1> SUFFICES ASSUME NEW side \in {"prod", "cons"},
                    NEW k \in 0 .. Minus(head[side], tail[side]) - 1
             PROVE  \E u \in Threads : /\ SideOf(u) = side /\ Claims(u)'
                                       /\ k \in (Offset(u) .. Offset(u) + n[u] - 1)'
  BY DEF ClaimsCover
<1>1. PICK u \in Threads : SideOf(u) = side /\ Claims(u) /\ k \in Offset(u) .. Offset(u) + n[u] - 1
  BY DEF ClaimsCover
<1> QED
  BY <1>1 DEF Offset

(* What a copy writes and reads: one more slot of the call's own claim.     *)
LEMMA CopyFifo ==
  ASSUME IndInv, FifoInv, NEW t \in Threads, Copy(t)
  PROVE  FifoInv'
<1>1. /\ pc[t] = "copy" /\ Claims(t) /\ UNCHANGED <<head, tail, n, old>>
      /\ copied[t] \in Nat /\ n[t] \in Nat /\ copied[t] < n[t]
      /\ copied' = [copied EXCEPT ![t] = @ + 1]
      /\ pc'[t] \in {"copy", "block", "tail"} /\ \A u \in Threads \ {t} : pc'[u] = pc[u]
      /\ pc'[t] \in {"block", "tail"} => ~(copied[t] + 1 < n[t])
  BY DEF Copy, Claims, idx, IndInv, TypeOK, TableBound
<1>2. \A u \in Threads : Claims(u)' <=> Claims(u)
  BY <1>1 DEF Claims
<1>3. ClaimsCover'
  BY <1>1, <1>2, CoverKept DEF FifoInv
<1>4. copied'[t] = copied[t] + 1 /\ \A u \in Threads \ {t} : copied'[u] = copied[u]
  BY <1>1 DEF IndInv, TypeOK
<1>5. \A u \in Threads : pc'[u] \in {"block", "tail"} => copied'[u] = n'[u]
  BY <1>1, <1>4 DEF FifoInv, TablesCopied
<1>6. CASE t \in Producers
  <2> DEFINE slot == Slot(Plus(old[t], copied[t]))
  <2>1. t \notin Consumers /\ UNCHANGED tbl
        /\ ring' = [ring EXCEPT ![slot] = tbl[t][copied[t] + 1]]
    BY <1>6, SidesAssumption DEF Copy, ENQUEUE_PTR
  <2>2. slot \in 0 .. Size - 1
    <3>1. Plus(old[t], copied[t]) = Plus(tail["cons"], Pos(t, copied[t]))
          /\ Pos(t, copied[t]) \in 0 .. Capacity - 1 /\ tail["cons"] \in Index
      BY <1>1, ClaimPlace, Spans
    <3>2. Pos(t, copied[t]) \in Index
      BY <3>1, SizeAssumption DEF Index
    <3> QED
      BY <3>1, <3>2, IndexArith, SlotInRing
  <2>3. ring'[slot] = tbl[t][copied[t] + 1] /\ \A i \in 0 .. Size - 1 : i # slot => ring'[i] = ring[i]
    BY <2>1, <2>2 DEF IndInv, TypeOK
  <2>4. ASSUME NEW p \in Producers, Claims(p), NEW i \in 1 .. copied'[p]
        PROVE  ring'[Slot(Plus(old[p], i - 1))] = tbl[p][i]
    <3>1. p \in Threads /\ copied[p] \in Nat /\ n[p] \in Nat /\ copied[p] <= n[p]
      BY <2>4 DEF Threads, Claims, IndInv, TypeOK, TableBound, FifoInv, TablesCopied
    <3>2. i - 1 \in 0 .. n[p] - 1 /\ i \in Nat
      BY <3>1, <1>1, <1>4, <2>4
    <3>3. CASE p = t /\ i = copied[t] + 1
      <4>1. i - 1 = copied[t]
        BY <3>3, <1>1
      <4> QED
        BY <4>1, <3>3, <2>3
    <3>4. CASE ~(p = t /\ i = copied[t] + 1)
      <4>1. i \in 1 .. copied[p]
        BY <3>1, <3>2, <3>4, <1>1, <1>4, <2>4
      <4>2. Slot(Plus(old[p], i - 1)) # slot
        BY <1>1, <2>4, <3>1, <3>2, <3>4, ClaimsApart
      <4>3. Slot(Plus(old[p], i - 1)) \in 0 .. Size - 1
        <5>1. Plus(old[p], i - 1) = Plus(tail["cons"], Pos(p, i - 1))
              /\ Pos(p, i - 1) \in 0 .. Capacity - 1 /\ tail["cons"] \in Index
          BY <2>4, <3>1, <3>2, ClaimPlace, Spans
        <5>2. Pos(p, i - 1) \in Index
          BY <5>1, SizeAssumption DEF Index
        <5> QED
          BY <5>1, <5>2, IndexArith, SlotInRing
      <4>4. ring[Slot(Plus(old[p], i - 1))] = tbl[p][i]
        BY <4>1, <2>4 DEF FifoInv, TablesCopied
      <4> QED
        BY <4>2, <4>3, <4>4, <2>3
    <3> QED
      BY <3>3, <3>4
  <2>5. \A c \in Consumers : Len(tbl'[c]) = copied'[c]
    BY <2>1, <1>4 DEF FifoInv, TablesCopied, Threads
  <2>6. \A u \in Threads : pc'[u] = "idle" => tbl'[u] = <<>>
    BY <2>1, <1>1 DEF FifoInv, TablesCopied
  <2> QED
    BY <1>1, <1>2, <1>3, <1>5, <2>1, <2>4, <2>5, <2>6 DEF FifoInv, TablesCopied, Threads
<1>7. CASE t \in Consumers
  <2>1. t \notin Producers /\ UNCHANGED ring
        /\ tbl' = [tbl EXCEPT ![t] = Append(@, ring[Slot(Plus(old[t], copied[t]))])]
    BY <1>7, SidesAssumption DEF Copy, DEQUEUE_PTR
  <2>2. \A u \in Threads \ {t} : tbl'[u] = tbl[u]
    BY <2>1 DEF IndInv, TypeOK
  <2>3. Len(tbl'[t]) = copied'[t]
    <3>1. tbl[t] \in Seq(Nat) /\ Len(tbl[t]) = copied[t]
      BY <1>7 DEF IndInv, TypeOK, FifoInv, TablesCopied
    <3>2. tbl'[t] = Append(tbl[t], ring[Slot(Plus(old[t], copied[t]))])
      BY <2>1 DEF IndInv, TypeOK
    <3> QED
      BY <3>1, <3>2, <1>4
  <2>4. \A c \in Consumers : Len(tbl'[c]) = copied'[c]
    BY <2>2, <2>3, <1>4 DEF FifoInv, TablesCopied, Threads
  <2>5. \A u \in Threads : pc'[u] = "idle" => tbl'[u] = <<>>
    BY <2>2, <1>1 DEF FifoInv, TablesCopied
  <2>6. \A p \in Producers : Claims(p)' =>
          \A i \in 1 .. copied'[p] : ring'[Slot(Plus(old'[p], i - 1))] = tbl'[p][i]
    <3>1. \A p \in Producers : p \in Threads \ {t}
      BY <2>1 DEF Threads
    <3> QED
      BY <3>1, <2>1, <2>2, <1>1, <1>2, <1>4 DEF FifoInv, TablesCopied
  <2> QED
    BY <1>3, <1>5, <2>4, <2>5, <2>6 DEF FifoInv, TablesCopied
<1> QED
  BY <1>6, <1>7 DEF Threads

LEMMA YieldBlockFifo ==
  ASSUME IndInv, FifoInv, NEW t \in Threads, YieldBlock(t)
  PROVE  FifoInv'
<1>1. /\ pc[t] = "block" /\ pc' = [pc EXCEPT ![t] = "tail"]
      /\ UNCHANGED <<head, tail, ring, n, old, tbl, copied>>
  BY DEF YieldBlock, idx
<1>2. \A u \in Threads : /\ Claims(u)' <=> Claims(u)
                         /\ pc'[u] = "idle" => pc[u] = "idle"
                         /\ pc'[u] \in {"block", "tail"} => pc[u] \in {"block", "tail"}
  BY <1>1 DEF Claims, IndInv, TypeOK
<1>3. ClaimsCover'
  BY <1>1, <1>2, CoverKept DEF FifoInv
<1>4. TablesCopied'
  BY <1>1, <1>2 DEF FifoInv, TablesCopied, Threads
<1> QED
  BY <1>3, <1>4 DEF FifoInv

(* The earliest claim of a side ends.                                       *)
LEMMA TailFifo ==
  ASSUME IndInv, FifoInv, NEW t \in Threads,
         update_tail(t) \/ update_sc_tail(t)
  PROVE  FifoInv'
<1> DEFINE s == SideOf(t)
<1>1. /\ pc[t] = "tail" /\ Return(t) /\ UNCHANGED <<head, ring, offered>>
      /\ old[t] = tail[s] /\ Offset(t) = 0
      /\ n[t] \in Nat \ {0} /\ n[t] <= Minus(head[s], tail[s])
      /\ tail'[s] = Plus(tail[s], n[t]) /\ tail'[s] \in Index
      /\ Minus(head[s], tail'[s]) = Minus(head[s], tail[s]) - n[t]
      /\ \A side \in {"prod", "cons"} \ {s} : tail'[side] = tail[side]
  BY TailFacts
<1>2. \A u \in Threads \ {t} : /\ pc'[u] = pc[u] /\ n'[u] = n[u] /\ old'[u] = old[u]
                               /\ tbl'[u] = tbl[u] /\ copied'[u] = copied[u]
                               /\ (Claims(u)' <=> Claims(u))
  BY <1>1 DEF Return, IndInv, TypeOK, Claims
<1>3. pc'[t] = "idle" /\ tbl'[t] = <<>> /\ copied'[t] = 0 /\ ~Claims(t)'
  BY <1>1 DEF Return, IndInv, TypeOK, Claims
<1>4. ClaimsCover'
  <2> SUFFICES ASSUME NEW side \in {"prod", "cons"},
                      NEW k \in 0 .. Minus(head[side], tail'[side]) - 1
               PROVE  \E u \in Threads : /\ SideOf(u) = side /\ Claims(u)'
                                         /\ k \in (Offset(u) .. Offset(u) + n[u] - 1)'
    BY <1>1 DEF ClaimsCover
  <2>1. CASE side # s
    <3>1. tail'[side] = tail[side]
      BY <2>1, <1>1
    <3>2. PICK u \in Threads : SideOf(u) = side /\ Claims(u) /\ k \in Offset(u) .. Offset(u) + n[u] - 1
      BY <3>1 DEF FifoInv, ClaimsCover
    <3>3. u # t /\ Offset(u)' = Offset(u)
      BY <2>1, <3>1, <3>2, <1>2 DEF Offset
    <3> QED
      BY <3>2, <3>3, <1>2
  <2>2. CASE side = s
    <3>1. s \in {"prod", "cons"} /\ Minus(head[s], tail[s]) \in Nat /\ tail[s] \in Index
      BY SideInSides, Spans
    <3>2. k + n[t] \in 0 .. Minus(head[side], tail[side]) - 1
      BY <2>2, <3>1, <1>1
    <3>3. PICK u \in Threads : SideOf(u) = side /\ Claims(u)
                              /\ k + n[t] \in Offset(u) .. Offset(u) + n[u] - 1
      BY <3>2 DEF FifoInv, ClaimsCover
    <3>4. n[u] \in Nat /\ old[u] \in Index /\ Offset(u) \in Nat
      <4>1. \A a, b \in Index : Minus(a, b) \in Nat
        BY SizeAssumption DEF Minus, Index
      <4> QED
        BY <4>1, <3>1, <3>3, <2>2 DEF IndInv, TypeOK, Offset
    <3>5. u # t
      BY <3>3, <1>1
    <3>6. Offset(t) + n[t] <= Offset(u)
      <4>1. Claims(t)
        BY <1>1 DEF Claims
      <4>2. Offset(t) + n[t] <= Offset(u) \/ Offset(u) + n[u] <= Offset(t)
        BY <4>1, <3>3, <3>5, <2>2 DEF IndInv, ClaimsExclusive
      <4> QED
        BY <4>2, <3>3, <3>4, <1>1
    <3>7. Offset(u)' = Offset(u) - n[t]
      <4>1. Offset(u)' = Minus(old[u], Plus(tail[s], n[t]))
        BY <3>3, <3>5, <2>2, <1>1, <1>2 DEF Offset
      <4>2. n[t] <= Minus(old[u], tail[s]) /\ Offset(u) = Minus(old[u], tail[s])
        BY <3>3, <3>4, <3>6, <2>2, <1>1 DEF Offset
      <4> QED
        BY <4>1, <4>2, <3>1, <3>4, <1>1, MinusShift
    <3>8. k \in (Offset(u) .. Offset(u) + n[u] - 1)'
      BY <3>3, <3>4, <3>5, <3>7, <1>1, <1>2
    <3> QED
      BY <3>3, <3>5, <3>8, <1>2
  <2> QED
    BY <2>1, <2>2
<1>5. TablesCopied'
  <2>1. \A u \in Threads : pc'[u] = "idle" => tbl'[u] = <<>>
    BY <1>2, <1>3 DEF FifoInv, TablesCopied
  <2>2. \A u \in Threads : pc'[u] \in {"block", "tail"} => copied'[u] = n'[u]
    BY <1>2, <1>3 DEF FifoInv, TablesCopied
  <2>3. \A p \in Producers : Claims(p)' =>
          \A i \in 1 .. copied'[p] : ring'[Slot(Plus(old'[p], i - 1))] = tbl'[p][i]
    <3>1. \A p \in Producers : Claims(p)' => p \in Threads \ {t}
      BY <1>3 DEF Threads
    <3> QED
      BY <3>1, <1>1, <1>2 DEF FifoInv, TablesCopied
  <2>4. \A c \in Consumers : Len(tbl'[c]) = copied'[c]
    <3>1. \A c \in Consumers \ {t} : c \in Threads \ {t}
      BY DEF Threads
    <3> QED
      BY <3>1, <1>2, <1>3 DEF FifoInv, TablesCopied
  <2> QED
    BY <2>1, <2>2, <2>3, <2>4 DEF TablesCopied
<1> QED
  BY <1>4, <1>5 DEF FifoInv

(* Every step of every lcore, and every stuttering step, keeps FifoInv.     *)
LEMMA NextFifo == IndInv /\ FifoInv /\ [Next]_vars => FifoInv'
<1> SUFFICES ASSUME IndInv, FifoInv, [Next]_vars PROVE FifoInv'
  OBVIOUS
<1>1. ASSUME NEW p \in Producers, Enqueue(p) PROVE FifoInv'
  BY <1>1, EnqueueKinds, EnqueueFifo
<1>2. ASSUME NEW c \in Consumers, Dequeue(c) PROVE FifoInv'
  BY <1>2, DequeueKinds, DequeueFifo
<1>3. ASSUME NEW t \in Threads, Step(t) PROVE FifoInv'
  BY <1>3, LoadHeadFifo, LoadOppositeTailFifo, MoveFifo, CopyFifo, YieldBlockFifo, TailFifo DEF Step
<1>4. CASE UNCHANGED vars
  BY <1>4 DEF vars, FifoInv, ClaimsCover, TablesCopied, Claims, Offset
<1> QED
  BY <1>1, <1>2, <1>3, <1>4 DEF Next

(* For any number of producers and consumers, any size, capacity and index  *)
(* width: every position between a tail and its head belongs to a call, and *)
(* the copy loops keep the table and the slots of a call the same.          *)
THEOREM RingFifoInvariant == Spec => []FifoInv
<1>1. Init => FifoInv
  BY InitFifo
<1>2. IndInv /\ FifoInv /\ [Next]_vars => FifoInv'
  BY NextFifo
<1> QED
  BY <1>1, <1>2, RingInvariant, PTL DEF Spec

(* When no call is between its head move and its tail update, the two sides *)
(* have published all they claimed, and the mask of rte_ring_count changes  *)
(* nothing.                                                                 *)
LEMMA QuietCount ==
  ASSUME IndInv, FifoInv, \A t \in Threads : ~Claims(t)
  PROVE  FreeCountIsRoom
<1> DEFINE d == Minus(tail["prod"], tail["cons"])
<1>1. \A side \in {"prod", "cons"} : Minus(head[side], tail[side]) = 0
  <2> SUFFICES ASSUME NEW side \in {"prod", "cons"} PROVE Minus(head[side], tail[side]) = 0
    OBVIOUS
  <2>1. Minus(head[side], tail[side]) \in Nat
    BY Spans
  <2>2. Minus(head[side], tail[side]) > 0 => 0 \in 0 .. Minus(head[side], tail[side]) - 1
    BY <2>1
  <2> QED
    BY <2>1, <2>2 DEF FifoInv, ClaimsCover
<1>2. /\ head["prod"] \in Index /\ tail["prod"] \in Index /\ tail["cons"] \in Index
      /\ d \in Nat /\ d <= Capacity /\ Capacity \in 1 .. Size - 1 /\ Size \in Nat /\ Size < IndexMod
      /\ IndexMod \in Nat
  BY Spans, SizeAssumption
<1>3. head["prod"] = tail["prod"]
  BY <1>1, <1>2 DEF Minus, Index
<1>4. Minus(Plus(Capacity, tail["cons"]), tail["prod"]) = Capacity - d
  BY <1>2 DEF Minus, Plus, Index
<1> HIDE DEF d
<1>5. d % Size = d
  BY <1>2
<1>6. rte_ring_count = d
  BY <1>2, <1>5 DEF rte_ring_count, d
<1> QED
  BY <1>2, <1>3, <1>4, <1>6 DEF FreeCountIsRoom, rte_ring_free_count, rte_ring_full, rte_ring_empty,
     rte_ring_get_capacity, rte_ring_get_size, d

(* Between calls rte_ring_free_count is what the next enqueue computes as   *)
(* its free_entries, and full and empty are never confused.                 *)
THEOREM RingFreeCount == Spec => []FreeCountIsRoom
<1>1. IndInv /\ FifoInv => FreeCountIsRoom
  <2>1. CASE \A t \in Threads : ~Claims(t)
    BY <2>1, QuietCount
  <2>2. CASE ~ \A t \in Threads : ~Claims(t)
    BY <2>2 DEF FreeCountIsRoom
  <2> QED
    BY <2>1, <2>2
<1> QED
  BY <1>1, RingInvariant, RingFifoInvariant, PTL

-----------------------------------------------------------------------------
(* The refinement.                                                          *)

(* The published objects and a consumer's objects are sequences.            *)
LEMMA InRingSeq ==
  ASSUME IndInv
  PROVE  /\ InRing \in Seq(Nat)
         /\ Len(InRing) = Minus(tail["prod"], head["cons"])
         /\ Minus(tail["prod"], head["cons"]) \in Nat
<1> DEFINE L == Minus(tail["prod"], head["cons"])
<1>1. L \in Nat /\ head["cons"] \in Index
  BY Spans
<1>2. ASSUME NEW i \in 1 .. L
      PROVE  ring[Slot(Plus(head["cons"], i - 1))] \in Nat
  <2>1. i - 1 \in 0 .. L - 1
    BY <1>1
  <2>2. Plus(head["cons"], i - 1) \in Index
    <3>1. Minus(head["cons"], tail["cons"]) + (i - 1) \in Index
          /\ Plus(head["cons"], i - 1) = Plus(tail["cons"], Minus(head["cons"], tail["cons"]) + (i - 1))
      BY <2>1, RingPlace, Spans, SizeAssumption DEF Index
    <3> QED
      BY <3>1, Spans, IndexArith
  <2> QED
    BY <2>2, SlotInRing DEF IndInv, TypeOK
<1> HIDE DEF L
<1>3. [i \in 1 .. L |-> ring[Slot(Plus(head["cons"], i - 1))]] \in Seq(Nat)
      /\ Len([i \in 1 .. L |-> ring[Slot(Plus(head["cons"], i - 1))]]) = L
  BY <1>1, <1>2
<1> QED
  BY <1>1, <1>3 DEF InRing, L

(* A consumer's objects change only by its own steps and by writes to the   *)
(* slots it has yet to read.                                                *)
LEMMA HandKept ==
  ASSUME NEW c, Claims(c)' <=> Claims(c),
         n'[c] = n[c], old'[c] = old[c], copied'[c] = copied[c], tbl'[c] = tbl[c],
         Claims(c) => \A i \in 1 .. n[c] :
           ring'[Slot(Plus(old[c], i - 1))] = ring[Slot(Plus(old[c], i - 1))]
  PROVE  InHand(c)' = InHand(c)
<1>1. CASE ~Claims(c)
  BY <1>1 DEF InHand
<1>2. CASE Claims(c)
  BY <1>2 DEF InHand
<1> QED
  BY <1>1, <1>2

LEMMA InRingKept ==
  ASSUME head'["cons"] = head["cons"], tail'["prod"] = tail["prod"],
         \A i \in 1 .. Minus(tail["prod"], head["cons"]) :
           ring'[Slot(Plus(head["cons"], i - 1))] = ring[Slot(Plus(head["cons"], i - 1))]
  PROVE  InRing' = InRing
  BY DEF InRing

(* A step of a call without a claim moves no object.                        *)
LEMMA QuietMaps ==
  ASSUME NEW t \in Threads, ~Claims(t), ~Claims(t)',
         UNCHANGED <<head, tail, ring>>,
         \A u \in Threads \ {t} : /\ pc'[u] = pc[u] /\ n'[u] = n[u] /\ old'[u] = old[u]
                                  /\ tbl'[u] = tbl[u] /\ copied'[u] = copied[u]
  PROVE  InRing' = InRing /\ Taken' = Taken
<1>1. InRing' = InRing
  BY InRingKept
<1>2. ASSUME NEW c \in Consumers PROVE InHand(c)' = InHand(c)
  <2>1. CASE c = t
    BY <2>1 DEF InHand
  <2>2. CASE c # t
    <3>1. c \in Threads \ {t}
      BY <2>2 DEF Threads
    <3>2. Claims(c)' <=> Claims(c)
      BY <3>1 DEF Claims
    <3> QED
      BY <3>1, <3>2, HandKept
  <2> QED
    BY <2>1, <2>2
<1> QED
  BY <1>1, <1>2 DEF Taken

(* An enqueue call offers its table.                                        *)
LEMMA EnqueueMaps ==
  ASSUME IndInv, FifoInv, NEW p \in Producers, NEW m \in Nat \ {0},
         NEW f \in BOOLEAN, NEW sp \in BOOLEAN, DoEnqueue(p, m, f, sp)
  PROVE  Fifo!Offer(p)
<1>1. p \in Threads /\ pc[p] = "idle" /\ offered \in Nat
  BY DEF Threads, DoEnqueue, Enter, IndInv, TypeOK
<1>2. /\ ~Claims(p) /\ ~Claims(p)' /\ UNCHANGED <<head, tail, ring>>
      /\ \A u \in Threads \ {p} : /\ pc'[u] = pc[u] /\ n'[u] = n[u] /\ old'[u] = old[u]
                                  /\ tbl'[u] = tbl[u] /\ copied'[u] = copied[u]
  BY <1>1 DEF DoEnqueue, Enter, idx, Claims, IndInv, TypeOK
<1>3. InRing' = InRing /\ Taken' = Taken
  BY <1>1, <1>2, QuietMaps
<1>4. tbl[p] = <<>> /\ tbl' = [tbl EXCEPT ![p] = [i \in 1 .. m |-> offered + i]]
  BY <1>1 DEF DoEnqueue, FifoInv, TablesCopied
<1>5. tbl'[p] = [i \in 1 .. m |-> offered + i]
  BY <1>1, <1>4 DEF IndInv, TypeOK
<1>6. Len(tbl'[p]) = m /\ tbl'[p] # <<>>
  BY <1>1, <1>5
<1>7. Offering[p] = <<>> /\ Offering'[p] = tbl'[p]
      /\ Offering' = [Offering EXCEPT ![p] = Offering'[p]]
  <2>1. \A q \in Producers : q # p => tbl'[q] = tbl[q]
    BY <1>2 DEF Threads
  <2>2. Offering' = [q \in Producers |-> tbl'[q]] /\ Offering = [q \in Producers |-> tbl[q]]
    BY DEF Offering
  <2>3. Offering'[p] = tbl'[p] /\ Offering[p] = <<>>
    BY <2>2, <1>4
  <2> QED
    BY <2>1, <2>2, <2>3
<1> QED
  BY <1>3, <1>6, <1>7 DEF Fifo!Offer

(* The table of every producer but t is untouched.                          *)
LEMMA OfferingKept ==
  ASSUME NEW t, \A u \in Threads \ {t} : tbl'[u] = tbl[u],
         t \in Producers => tbl'[t] = tbl[t]
  PROVE  Offering' = Offering
  BY DEF Offering, Threads

(* A dequeue call that begins changes nothing its callers can see.          *)
LEMMA DequeueMaps ==
  ASSUME IndInv, NEW c \in Consumers, NEW m, NEW f, NEW sc,
         DoDequeue(c, m, f, sc) \/ rte_ring_sc_dequeue_burst_peek(c, m)
  PROVE  UNCHANGED Fifo!fifoVars
<1>1. c \in Threads /\ UNCHANGED tbl /\ \E mode : Enter(c, m, f, mode) \/ Enter(c, m, FALSE, mode)
  BY DEF Threads, DoDequeue, rte_ring_sc_dequeue_burst_peek
<1>2. /\ ~Claims(c) /\ ~Claims(c)' /\ UNCHANGED <<head, tail, ring>>
      /\ \A u \in Threads \ {c} : /\ pc'[u] = pc[u] /\ n'[u] = n[u] /\ old'[u] = old[u]
                                  /\ tbl'[u] = tbl[u] /\ copied'[u] = copied[u]
  BY <1>1 DEF Enter, idx, Claims, IndInv, TypeOK
<1>3. InRing' = InRing /\ Taken' = Taken
  BY <1>1, <1>2, QuietMaps
<1> QED
  BY <1>1, <1>3 DEF Fifo!fifoVars, Offering

(* So does a first load, and a compare-and-set that fails.                  *)
LEMMA ReloadMaps ==
  ASSUME IndInv, NEW t \in Threads, LoadHead(t) \/ (MoveHead(t) /\ CmpsetFails(t))
  PROVE  UNCHANGED Fifo!fifoVars
<1>1. /\ ~Claims(t) /\ ~Claims(t)' /\ UNCHANGED <<head, tail, ring, tbl>>
      /\ \A u \in Threads \ {t} : /\ pc'[u] = pc[u] /\ n'[u] = n[u] /\ old'[u] = old[u]
                                  /\ tbl'[u] = tbl[u] /\ copied'[u] = copied[u]
  BY DEF LoadHead, MoveHead, idx, Claims, IndInv, TypeOK
<1>2. InRing' = InRing /\ Taken' = Taken
  BY <1>1, QuietMaps
<1> QED
  BY <1>1, <1>2 DEF Fifo!fifoVars, Offering

(* A call that finds no room returns its table to the caller.               *)
LEMMA LoadOppositeTailMaps ==
  ASSUME IndInv, FifoInv, NEW t \in Threads, LoadOppositeTail(t)
  PROVE  (t \in Producers /\ Fifo!Refuse(t)) \/ UNCHANGED Fifo!fifoVars
<1>1. /\ ~Claims(t) /\ ~Claims(t)' /\ UNCHANGED <<head, tail, ring>>
      /\ \A u \in Threads \ {t} : /\ pc'[u] = pc[u] /\ n'[u] = n[u] /\ old'[u] = old[u]
                                  /\ tbl'[u] = tbl[u] /\ copied'[u] = copied[u]
      /\ tbl'[t] = tbl[t] \/ tbl'[t] = <<>>
  BY DEF LoadOppositeTail, Return, loc, idx, Claims, IndInv, TypeOK
<1>2. InRing' = InRing /\ Taken' = Taken
  BY <1>1, QuietMaps
<1>3. CASE t \notin Producers \/ tbl'[t] = tbl[t]
  BY <1>1, <1>2, <1>3, OfferingKept DEF Fifo!fifoVars
<1>4. CASE t \in Producers /\ tbl'[t] # tbl[t]
  <2>1. Offering[t] # <<>> /\ Offering' = [Offering EXCEPT ![t] = <<>>]
    <3>1. \A q \in Producers : q # t => tbl'[q] = tbl[q]
      BY <1>1 DEF Threads
    <3>2. Offering' = [q \in Producers |-> tbl'[q]] /\ Offering = [q \in Producers |-> tbl[q]]
      BY DEF Offering
    <3> QED
      BY <1>1, <1>4, <3>1, <3>2
  <2> QED
    BY <2>1, <1>2, <1>4 DEF Fifo!Refuse
<1> QED
  BY <1>3, <1>4

(* A producer's head move is not seen; a consumer's takes the front of the  *)
(* queue.                                                                   *)
LEMMA MoveMaps ==
  ASSUME IndInv, NEW t \in Threads, MoveHead(t), ~CmpsetFails(t)
  PROVE  (t \in Consumers /\ Fifo!Take(t)) \/ UNCHANGED Fifo!fifoVars
<1>1. /\ pc[t] = "move" /\ pc' = [pc EXCEPT ![t] = "copy"]
      /\ UNCHANGED <<tail, ring, n, old, tbl, copied>>
  BY DEF MoveHead
<1>2. /\ n[t] \in Nat \ {0} /\ head[SideOf(t)] = old[t] /\ n[t] <= Room(t)
      /\ head'[SideOf(t)] = Plus(head[SideOf(t)], n[t]) /\ head'[SideOf(t)] \in Index
      /\ \A side \in {"prod", "cons"} \ {SideOf(t)} : head'[side] = head[side]
  BY MoveFacts
<1>3. Offering' = Offering
  BY <1>1 DEF Offering
<1>4. \A u \in Threads \ {t} : Claims(u)' <=> Claims(u)
  BY <1>1 DEF Claims, IndInv, TypeOK
<1>5. \A c \in Consumers \ {t} : InHand(c)' = InHand(c)
  BY <1>1, <1>4 DEF InHand, Threads
<1>6. CASE t \in Producers
  <2>1. SideOf(t) = "prod" /\ t \notin Consumers
    BY <1>6, SidesAssumption DEF SideOf
  <2>2. head'["cons"] = head["cons"] /\ tail'["prod"] = tail["prod"]
    BY <2>1, <1>1, <1>2
  <2>3. InRing' = InRing
    BY <2>2, <1>1, InRingKept
  <2>4. Taken' = Taken
    BY <2>1, <1>5 DEF Taken
  <2> QED
    BY <2>3, <2>4, <1>3 DEF Fifo!fifoVars
<1>7. CASE t \in Consumers
  <2> DEFINE L == Minus(tail["prod"], head["cons"])
             k == n[t]
             h == head["cons"]
  <2>1. SideOf(t) = "cons" /\ t \notin Producers
    BY <1>7, SidesAssumption DEF SideOf
  <2>2. InRing \in Seq(Nat) /\ Len(InRing) = L /\ L \in Nat /\ h \in Index /\ tail["prod"] \in Index
    BY InRingSeq, Spans
  <2>3. k \in 1 .. L
    BY <2>1, <2>2, <1>2 DEF Room
  <2>4. old[t] = h /\ head'["cons"] = Plus(h, k) /\ L < IndexMod
    <3>1. L <= Capacity
      BY Spans
    <3> QED
      BY <2>1, <1>2, <3>1, Spans, SizeAssumption
  <2>5. Minus(tail["prod"], Plus(h, k)) = L - k
    BY <2>2, <2>3, MinusShift
  <2>6. ~Claims(t) /\ Claims(t)' /\ copied[t] = 0
    BY <1>1 DEF Claims, IndInv, TypeOK, TableBound
  <2>7. InHand(t) = <<>>
    BY <2>6 DEF InHand
  <2>8. InHand(t)' = SubSeq(InRing, 1, k)
    <3>1. InHand(t)' = [i \in 1 .. k |-> ring[Slot(Plus(h, i - 1))]]
      <4>1. InHand(t)' = [i \in 1 .. k |->
                            IF i <= copied[t] THEN tbl[t][i] ELSE ring[Slot(Plus(old[t], i - 1))]]
        BY <2>6, <1>1 DEF InHand
      <4>2. \A i \in 1 .. k : ~(i <= copied[t])
        BY <2>6
      <4> QED
        BY <4>1, <4>2, <2>4
    <3>2. SubSeq(InRing, 1, k) = [i \in 1 .. k |-> InRing[i]]
      BY <2>2, <2>3
    <3>3. \A i \in 1 .. k : InRing[i] = ring[Slot(Plus(h, i - 1))]
      BY <2>2, <2>3 DEF InRing
    <3> QED
      BY <3>1, <3>2, <3>3
  <2>9. InRing' = SubSeq(InRing, k + 1, Len(InRing))
    <3>1. InRing' = [i \in 1 .. L - k |-> ring[Slot(Plus(Plus(h, k), i - 1))]]
      BY <2>4, <2>5, <1>1 DEF InRing
    <3>2. SubSeq(InRing, k + 1, Len(InRing)) = [i \in 1 .. L - k |-> InRing[i + k]]
      BY <2>2, <2>3, SMTT(20)
    <3>3. ASSUME NEW i \in 1 .. L - k
          PROVE  InRing[i + k] = ring[Slot(Plus(Plus(h, k), i - 1))]
      <4>1. i + k \in 1 .. L /\ i - 1 \in Nat /\ k \in Nat /\ k + (i - 1) = (i + k) - 1 /\ k + (i - 1) < IndexMod
        BY <2>2, <2>3, <2>4, SizeAssumption
      <4>2. InRing[i + k] = ring[Slot(Plus(h, (i + k) - 1))]
        BY <4>1 DEF InRing
      <4>3. Plus(Plus(h, k), i - 1) = Plus(h, k + (i - 1))
        BY <4>1, <2>2, PlusPlus
      <4> QED
        BY <4>1, <4>2, <4>3
    <3> QED
      BY <3>1, <3>2, <3>3
  <2>10. Taken[t] = <<>> /\ Taken' = [Taken EXCEPT ![t] = SubSeq(InRing, 1, k)]
    <3>1. Taken = [c \in Consumers |-> InHand(c)] /\ Taken' = [c \in Consumers |-> InHand(c)']
      BY DEF Taken
    <3> HIDE DEF k
    <3> QED
      BY <3>1, <2>7, <2>8, <1>5, <1>7
  <2> QED
    BY <2>2, <2>3, <2>9, <2>10, <1>3, <1>7 DEF Fifo!Take
<1> QED
  BY <1>6, <1>7 DEF Threads

(* Copying a pointer, and running the block of a peek, are not seen.        *)
LEMMA CopyMaps ==
  ASSUME IndInv, FifoInv, NEW t \in Threads, Copy(t)
  PROVE  UNCHANGED Fifo!fifoVars
<1>1. /\ pc[t] = "copy" /\ Claims(t) /\ UNCHANGED <<head, tail, n, old>>
      /\ copied[t] \in Nat /\ n[t] \in Nat /\ copied[t] < n[t]
      /\ copied'[t] = copied[t] + 1
      /\ pc'[t] \in {"copy", "block", "tail"}
      /\ \A u \in Threads \ {t} : pc'[u] = pc[u] /\ copied'[u] = copied[u]
  BY DEF Copy, Claims, idx, IndInv, TypeOK, TableBound
<1>2. \A u \in Threads : Claims(u)' <=> Claims(u)
  BY <1>1 DEF Claims
<1>3. CASE t \in Producers
  <2> DEFINE slot == Slot(Plus(old[t], copied[t]))
  <2>1. t \notin Consumers /\ UNCHANGED tbl
        /\ ring' = [ring EXCEPT ![slot] = tbl[t][copied[t] + 1]]
    BY <1>3, SidesAssumption DEF Copy, ENQUEUE_PTR
  <2>2. \A i : i # slot => ring'[i] = ring[i]
    BY <2>1 DEF IndInv, TypeOK
  <2>3. InRing' = InRing
    <3>1. ASSUME NEW i \in 1 .. Minus(tail["prod"], head["cons"])
          PROVE  ring'[Slot(Plus(head["cons"], i - 1))] = ring[Slot(Plus(head["cons"], i - 1))]
      <4>1. i - 1 \in 0 .. Minus(tail["prod"], head["cons"]) - 1 /\ copied[t] \in 0 .. n[t] - 1
        BY InRingSeq, <1>1
      <4> QED
        BY <4>1, <1>1, <1>3, <2>2, RingApart
    <3> QED
      BY <3>1, <1>1, InRingKept
  <2>4. ASSUME NEW c \in Consumers PROVE InHand(c)' = InHand(c)
    <3>1. c \in Threads \ {t} /\ n[c] \in Nat
      BY <2>1 DEF Threads, IndInv, TypeOK
    <3>2. ASSUME Claims(c), NEW i \in 1 .. n[c]
          PROVE  ring'[Slot(Plus(old[c], i - 1))] = ring[Slot(Plus(old[c], i - 1))]
      <4>1. i - 1 \in 0 .. n[c] - 1 /\ copied[t] \in 0 .. n[t] - 1
        BY <3>1, <1>1
      <4>2. Slot(Plus(old[c], i - 1)) # slot
        BY <4>1, <3>1, <3>2, <1>1, ClaimsApart
      <4> QED
        BY <4>2, <2>2
    <3> QED
      BY <3>1, <3>2, <2>1, <1>1, <1>2, HandKept
  <2> QED
    BY <2>1, <2>3, <2>4 DEF Fifo!fifoVars, Offering, Taken
<1>4. CASE t \in Consumers
  <2> DEFINE obj == ring[Slot(Plus(old[t], copied[t]))]
  <2>1. t \notin Producers /\ UNCHANGED ring
        /\ tbl' = [tbl EXCEPT ![t] = Append(@, obj)]
    BY <1>4, SidesAssumption DEF Copy, DEQUEUE_PTR
  <2>2. \A u \in Threads \ {t} : tbl'[u] = tbl[u]
    BY <2>1 DEF IndInv, TypeOK
  <2>3. Offering' = Offering
    BY <2>1, <2>2, OfferingKept
  <2>4. InRing' = InRing
    BY <2>1, <1>1, InRingKept
  <2>5. \A c \in Consumers \ {t} : InHand(c)' = InHand(c)
    <3> SUFFICES ASSUME NEW c \in Consumers \ {t} PROVE InHand(c)' = InHand(c)
      OBVIOUS
    <3>1. c \in Threads \ {t}
      BY DEF Threads
    <3> QED
      BY <3>1, <2>1, <2>2, <1>1, <1>2, HandKept
  <2>6. InHand(t)' = InHand(t)
    <3>1. tbl[t] \in Seq(Nat) /\ Len(tbl[t]) = copied[t] /\ tbl'[t] = Append(tbl[t], obj)
      BY <1>4, <2>1 DEF IndInv, TypeOK, FifoInv, TablesCopied
    <3> HIDE DEF obj
    <3>2. tbl'[t][copied[t] + 1] = obj /\ \A i \in 1 .. copied[t] : tbl'[t][i] = tbl[t][i]
      BY <3>1
    <3>3. ASSUME NEW i \in 1 .. n[t]
          PROVE  (IF i <= copied[t] + 1 THEN tbl'[t][i] ELSE ring[Slot(Plus(old[t], i - 1))])
                 = (IF i <= copied[t] THEN tbl[t][i] ELSE ring[Slot(Plus(old[t], i - 1))])
      <4>1. CASE i <= copied[t]
        BY <4>1, <3>2, <1>1
      <4>2. CASE i = copied[t] + 1
        <5>1. i - 1 = copied[t] /\ ~(i <= copied[t])
          BY <4>2, <1>1
        <5> QED
          BY <5>1, <4>2, <3>2 DEF obj
      <4>3. CASE i > copied[t] + 1
        BY <4>3, <1>1
      <4> QED
        BY <4>1, <4>2, <4>3, <1>1
    <3>4. InHand(t) = [i \in 1 .. n[t] |->
                         IF i <= copied[t] THEN tbl[t][i] ELSE ring[Slot(Plus(old[t], i - 1))]]
      BY <1>1 DEF InHand
    <3>5. InHand(t)' = [i \in 1 .. n[t] |->
                         IF i <= copied[t] + 1 THEN tbl'[t][i] ELSE ring[Slot(Plus(old[t], i - 1))]]
      <4>1. Claims(t)' /\ n'[t] = n[t] /\ old'[t] = old[t] /\ ring' = ring
        BY <1>1, <1>2, <2>1
      <4>2. InHand(t)' = [i \in 1 .. n'[t] |->
                           IF i <= copied'[t] THEN tbl'[t][i] ELSE ring'[Slot(Plus(old'[t], i - 1))]]
        BY <4>1, Zenon DEF InHand
      <4> QED
        BY <4>1, <4>2, <1>1, Zenon
    <3> QED
      BY <3>3, <3>4, <3>5
  <2> QED
    BY <2>3, <2>4, <2>5, <2>6 DEF Fifo!fifoVars, Taken
<1> QED
  BY <1>3, <1>4 DEF Threads

LEMMA YieldBlockMaps ==
  ASSUME IndInv, NEW t \in Threads, YieldBlock(t)
  PROVE  UNCHANGED Fifo!fifoVars
<1>1. pc[t] = "block" /\ pc' = [pc EXCEPT ![t] = "tail"] /\ UNCHANGED <<head, tail, ring, n, old, tbl, copied>>
  BY DEF YieldBlock, idx
<1>2. \A u \in Threads : Claims(u)' <=> Claims(u)
  BY <1>1 DEF Claims, IndInv, TypeOK
<1>3. InRing' = InRing
  BY <1>1, InRingKept
<1>4. \A c \in Consumers : InHand(c)' = InHand(c)
  BY <1>1, <1>2 DEF InHand, Threads
<1> QED
  BY <1>1, <1>3, <1>4 DEF Fifo!fifoVars, Offering, Taken

(* FiniteSets as the abstract module has it and as the theorems have it.    *)
LEMMA SameCardinality ==
  ASSUME NEW S
  PROVE  Fifo!Cardinality(S) = Cardinality(S)
  BY DEF Fifo!Cardinality, Cardinality

(* What the consumers hold fits between cons.tail and cons.head: the slots  *)
(* of different objects are different positions of that window.             *)
LEMMA InHandsFit ==
  ASSUME IndInv
  PROVE  Fifo!InHands \in Nat /\ Fifo!InHands <= Minus(head["cons"], tail["cons"])
<1> DEFINE S == UNION {{c} \X DOMAIN Taken[c] : c \in Consumers}
           M == Minus(head["cons"], tail["cons"])
           T == 0 .. M - 1
           f == [x \in S |-> Offset(x[1]) + (x[2] - 1)]
<1>1. M \in Nat
  BY Spans
<1>2. ASSUME NEW c \in Consumers, NEW i \in DOMAIN Taken[c]
      PROVE  c \in Threads /\ SideOf(c) = "cons" /\ Claims(c) /\ n[c] \in Nat /\ i \in 1 .. n[c]
  <2>1. c \in Threads /\ SideOf(c) = "cons" /\ n[c] \in Nat /\ Taken[c] = InHand(c)
    BY SidesAssumption DEF Threads, SideOf, IndInv, TypeOK, Taken
  <2>2. CASE Claims(c)
    BY <2>1, <2>2 DEF InHand
  <2>3. CASE ~Claims(c)
    BY <2>1, <2>3 DEF InHand
  <2> QED
    BY <2>2, <2>3
<1>3. ASSUME NEW c \in Threads, SideOf(c) = "cons", Claims(c), NEW i \in 1 .. n[c], n[c] \in Nat
      PROVE  Offset(c) \in Nat /\ Offset(c) + (i - 1) \in T
  <2>1. Offset(c) \in Nat
    <3>1. \A a, b \in Index : Minus(a, b) \in Nat
      BY SizeAssumption DEF Minus, Index
    <3> QED
      BY <3>1, <1>3 DEF Offset, IndInv, TypeOK
  <2>2. Offset(c) + n[c] <= M
    BY <1>3 DEF IndInv, ClaimsExclusive
  <2> QED
    BY <2>1, <2>2, <1>1, <1>3
<1>4. \A x \in S : x = <<x[1], x[2]>> /\ x[1] \in Consumers /\ x[2] \in DOMAIN Taken[x[1]]
  OBVIOUS
<1>5. \A x \in S : f[x] \in T
  BY <1>2, <1>3, <1>4
<1>6. ASSUME NEW x \in S, NEW y \in S, f[x] = f[y] PROVE x = y
  <2>1. /\ x[1] \in Threads /\ SideOf(x[1]) = "cons" /\ Claims(x[1]) /\ n[x[1]] \in Nat
        /\ y[1] \in Threads /\ SideOf(y[1]) = "cons" /\ Claims(y[1]) /\ n[y[1]] \in Nat
        /\ x[2] \in 1 .. n[x[1]] /\ y[2] \in 1 .. n[y[1]]
    BY <1>2, <1>4
  <2>2. Offset(x[1]) \in Nat /\ Offset(y[1]) \in Nat
    BY <2>1, <1>3
  <2>3. Offset(x[1]) + (x[2] - 1) = Offset(y[1]) + (y[2] - 1)
    BY <1>6
  <2>4. x[1] # y[1] => Offset(x[1]) + n[x[1]] <= Offset(y[1]) \/ Offset(y[1]) + n[y[1]] <= Offset(x[1])
    BY <2>1 DEF IndInv, ClaimsExclusive
  <2>5. x[1] = y[1]
    BY <2>1, <2>2, <2>3, <2>4
  <2>6. x[2] = y[2]
    BY <2>1, <2>2, <2>3, <2>5
  <2> QED
    BY <2>5, <2>6, <1>4
<1> HIDE DEF S, M
<1>7. f \in Injection(S, T)
  BY <1>5, <1>6 DEF Injection, IsInjective
<1>8. IsFiniteSet(T) /\ Cardinality(T) = M
  BY <1>1, FS_Interval
<1> HIDE DEF T, f
<1>9. IsFiniteSet(S) /\ Cardinality(S) <= Cardinality(T)
  BY <1>7, <1>8, FS_Injection
<1>10. Cardinality(S) \in Nat
  BY <1>9, FS_CardinalityType
<1>11. Fifo!InHands = Cardinality(S)
  BY SameCardinality, Zenon DEF Fifo!InHands, S
<1> QED
  BY <1>8, <1>9, <1>10, <1>11 DEF M

(* A producer's tail update puts the objects of its call into the queue, a  *)
(* consumer's gives its slots back.                                         *)
LEMMA TailMaps ==
  ASSUME IndInv, FifoInv, NEW t \in Threads,
         update_tail(t) \/ update_sc_tail(t)
  PROVE  (t \in Producers /\ Fifo!Put(t)) \/ (t \in Consumers /\ Fifo!Release(t))
<1> DEFINE s == SideOf(t)
<1>1. /\ pc[t] = "tail" /\ Return(t) /\ UNCHANGED <<head, ring>>
      /\ old[t] = tail[s] /\ n[t] \in Nat \ {0} /\ n[t] <= Minus(head[s], tail[s])
      /\ tail'[s] = Plus(tail[s], n[t]) /\ tail'[s] \in Index
      /\ \A side \in {"prod", "cons"} \ {s} : tail'[side] = tail[side]
  BY TailFacts
<1>2. \A u \in Threads \ {t} : /\ pc'[u] = pc[u] /\ n'[u] = n[u] /\ old'[u] = old[u]
                               /\ tbl'[u] = tbl[u] /\ copied'[u] = copied[u]
                               /\ (Claims(u)' <=> Claims(u))
  BY <1>1 DEF Return, IndInv, TypeOK, Claims
<1>3. pc'[t] = "idle" /\ tbl'[t] = <<>> /\ ~Claims(t)' /\ Claims(t) /\ copied[t] = n[t]
  BY <1>1 DEF Return, IndInv, TypeOK, Claims, FifoInv, TablesCopied
<1>4. \A c \in Consumers \ {t} : InHand(c)' = InHand(c)
  <2> SUFFICES ASSUME NEW c \in Consumers \ {t} PROVE InHand(c)' = InHand(c)
    OBVIOUS
  <2>1. c \in Threads \ {t}
    BY DEF Threads
  <2> QED
    BY <2>1, <1>1, <1>2, HandKept
<1>5. \A p \in Producers \ {t} : tbl'[p] = tbl[p]
  BY <1>2 DEF Threads
<1>6. CASE t \in Producers
  <2> DEFINE L == Minus(tail["prod"], head["cons"])
             k == n[t]
             h == head["cons"]
  <2>1. s = "prod" /\ t \notin Consumers
    BY <1>6, SidesAssumption DEF SideOf
  <2>2. InRing \in Seq(Nat) /\ Len(InRing) = L /\ L \in Nat /\ h \in Index /\ tail["prod"] \in Index
    BY InRingSeq, Spans
  <2>3. tbl[t] \in Seq(Nat) /\ k \in 1 .. Len(tbl[t])
    BY <1>1, <1>6 DEF IndInv, TypeOK, TableBound
  <2>4. tail["prod"] = Plus(h, L)
    BY <2>2, IndexArith
  <2>5. L + k <= Capacity /\ Capacity < IndexMod /\ Capacity \in Nat /\ IndexMod \in Nat
    BY <1>1, <2>1, Spans, SizeAssumption
  <2>6. Minus(tail'["prod"], h) = L + k
    BY <1>1, <2>1, <2>2, <2>5, MinusPlus
  <2>7. Len(InRing) + Fifo!InHands + k <= Capacity
    BY <1>1, <2>1, <2>2, Spans, InHandsFit
  <2>8. InRing' = InRing \o SubSeq(tbl[t], 1, k)
    <3>1. InRing' = [i \in 1 .. L + k |-> ring[Slot(Plus(h, i - 1))]]
      BY <2>6, <1>1 DEF InRing
    <3>2. SubSeq(tbl[t], 1, k) \in Seq(Nat) /\ Len(SubSeq(tbl[t], 1, k)) = k
          /\ \A i \in 1 .. k : SubSeq(tbl[t], 1, k)[i] = tbl[t][i]
      BY <2>3
    <3>3. ASSUME NEW i \in 1 .. k
          PROVE  ring[Slot(Plus(h, (L + i) - 1))] = tbl[t][i]
      <4>1. i - 1 \in Nat /\ L + (i - 1) < IndexMod /\ L + (i - 1) = (L + i) - 1
        BY <2>2, <2>5, <1>1
      <4>2. Plus(old[t], i - 1) = Plus(h, L + (i - 1))
        BY <4>1, <2>1, <2>2, <2>4, <1>1, PlusPlus
      <4>3. ring[Slot(Plus(old[t], i - 1))] = tbl[t][i]
        BY <1>3, <1>6 DEF FifoInv, TablesCopied
      <4> QED
        BY <4>1, <4>2, <4>3
    <3>4. \A i \in 1 .. L : InRing[i] = ring[Slot(Plus(h, i - 1))]
      BY DEF InRing
    <3> DEFINE R == InRing
               Q == SubSeq(tbl[t], 1, k)
    <3>5. R \o Q = [i \in 1 .. L + k |-> IF i <= L THEN R[i] ELSE Q[i - L]]
      <4> HIDE DEF R, Q, L, k
      <4> QED
        BY <3>2, <2>2 DEF R, Q
    <3>6. ASSUME NEW i \in 1 .. L + k
          PROVE  ring[Slot(Plus(h, i - 1))] = IF i <= L THEN R[i] ELSE Q[i - L]
      <4>1. CASE i <= L
        <5>1. i \in 1 .. L
          BY <4>1, <2>2
        <5> QED
          BY <5>1, <4>1, <3>4
      <4>2. CASE i > L
        <5>1. i - L \in 1 .. k /\ (L + (i - L)) - 1 = i - 1 /\ ~(i <= L)
          BY <4>2, <2>2, <1>1
        <5>2. ring[Slot(Plus(h, (L + (i - L)) - 1))] = tbl[t][i - L]
          BY <5>1, <3>3
        <5> QED
          BY <5>1, <5>2, <3>2
      <4> QED
        <5>1. i <= L \/ i > L
          BY <2>2, <1>1
        <5> QED
          BY <5>1, <4>1, <4>2
    <3> QED
      BY <3>1, <3>5, <3>6
  <2>9. Offering[t] = tbl[t] /\ Offering' = [Offering EXCEPT ![t] = <<>>]
    <3>1. Offering' = [q \in Producers |-> tbl'[q]] /\ Offering = [q \in Producers |-> tbl[q]]
      BY DEF Offering
    <3> QED
      BY <3>1, <1>3, <1>5, <1>6
  <2>10. Taken' = Taken
    BY <1>4, <2>1 DEF Taken
  <2> QED
    BY <2>3, <2>7, <2>8, <2>9, <2>10, <1>6 DEF Fifo!Put
<1>7. CASE t \in Consumers
  <2>1. s = "cons" /\ t \notin Producers
    BY <1>7, SidesAssumption DEF SideOf
  <2>2. InRing' = InRing
    BY <2>1, <1>1, InRingKept
  <2>3. Offering' = Offering
    BY <2>1, <1>2, OfferingKept
  <2>4. InHand(t)' = <<>>
    BY <1>3 DEF InHand
  <2>5. InHand(t) # <<>>
    <3>1. DOMAIN InHand(t) = 1 .. n[t] /\ 1 \in 1 .. n[t]
      BY <1>1, <1>3 DEF InHand
    <3>2. 1 \notin DOMAIN <<>>
      OBVIOUS
    <3> QED
      BY <3>1, <3>2
  <2>6. Taken[t] # <<>> /\ Taken' = [Taken EXCEPT ![t] = <<>>]
    <3>1. Taken = [c \in Consumers |-> InHand(c)] /\ Taken' = [c \in Consumers |-> InHand(c)']
      BY DEF Taken
    <3> QED
      BY <3>1, <2>4, <2>5, <1>4, <1>7
  <2> QED
    BY <2>2, <2>3, <2>6, <1>7 DEF Fifo!Release
<1> QED
  BY <1>6, <1>7 DEF Threads

(* The ring starts empty.                                                   *)
LEMMA InitMaps == Init => Fifo!FifoInit
<1> SUFFICES ASSUME Init PROVE Fifo!FifoInit
  OBVIOUS
<1>1. PICK s \in Starts : head = [side \in {"prod", "cons"} |-> s]
                        /\ tail = [side \in {"prod", "cons"} |-> s]
  BY DEF Init
<1>2. Minus(tail["prod"], head["cons"]) = 0
  BY <1>1, BoundAssumption DEF Minus, Index
<1>3. InRing = <<>>
  BY <1>2 DEF InRing
<1>4. \A t \in Threads : tbl[t] = <<>> /\ ~Claims(t)
  BY DEF Init, Claims
<1>5. Offering = [p \in Producers |-> <<>>]
  BY <1>4 DEF Offering, Threads
<1>6. Taken = [c \in Consumers |-> <<>>]
  BY <1>4 DEF Taken, InHand, Threads
<1> QED
  BY <1>3, <1>5, <1>6 DEF Fifo!FifoInit

LEMMA NextMaps == IndInv /\ FifoInv /\ [Next]_vars => [Fifo!FifoNext]_Fifo!fifoVars
<1> SUFFICES ASSUME IndInv, FifoInv, [Next]_vars PROVE Fifo!FifoNext \/ UNCHANGED Fifo!fifoVars
  OBVIOUS
<1>1. ASSUME NEW p \in Producers, Enqueue(p) PROVE Fifo!FifoNext
  BY <1>1, EnqueueKinds, EnqueueMaps DEF Fifo!FifoNext
<1>2. ASSUME NEW c \in Consumers, Dequeue(c) PROVE UNCHANGED Fifo!fifoVars
  BY <1>2, DequeueKinds, DequeueMaps
<1>3. ASSUME NEW t \in Threads, Step(t) PROVE Fifo!FifoNext \/ UNCHANGED Fifo!fifoVars
  <2>1. CASE LoadHead(t) \/ (MoveHead(t) /\ CmpsetFails(t))
    BY <2>1, ReloadMaps
  <2>2. CASE LoadOppositeTail(t)
    BY <2>2, LoadOppositeTailMaps DEF Fifo!FifoNext
  <2>3. CASE MoveHead(t) /\ ~CmpsetFails(t)
    BY <2>3, MoveMaps DEF Fifo!FifoNext
  <2>4. CASE Copy(t)
    BY <2>4, CopyMaps
  <2>5. CASE YieldBlock(t)
    BY <2>5, YieldBlockMaps
  <2>6. CASE update_tail(t) \/ update_sc_tail(t)
    BY <2>6, TailMaps DEF Fifo!FifoNext
  <2> QED
    BY <1>3, <2>1, <2>2, <2>3, <2>4, <2>5, <2>6 DEF Step
<1>4. CASE UNCHANGED vars
  <2>1. UNCHANGED <<head, tail, ring, pc, n, old, tbl, copied>>
    BY <1>4 DEF vars
  <2> QED
    BY <2>1 DEF Fifo!fifoVars, InRing, Offering, Taken, InHand, Claims
<1> QED
  BY <1>1, <1>2, <1>3, <1>4 DEF Next

(* For any number of producers and consumers, any size, capacity and index  *)
(* width, every behaviour of the ring is a behaviour of the bounded FIFO    *)
(* queue: rte_ring.c loses, duplicates, reorders and corrupts nothing.      *)
THEOREM RingImplementsFifo == Spec => ImplementsFifo
<1>1. Init => Fifo!FifoInit
  BY InitMaps
<1>2. IndInv /\ FifoInv /\ [Next]_vars => [Fifo!FifoNext]_Fifo!fifoVars
  BY NextMaps
<1> QED
  BY <1>1, <1>2, RingInvariant, RingFifoInvariant, PTL DEF Spec, ImplementsFifo, Fifo!FifoSpec

=============================================================================

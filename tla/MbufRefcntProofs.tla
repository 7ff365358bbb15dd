-------------------------- MODULE MbufRefcntProofs --------------------------
(***************************************************************************)
(* Proofs about MbufRefcnt for every number of lcores and mbufs: while no  *)
(* lcore shares an indirect mbuf, the reference counts of                  *)
(* src/src/ext/rte_mbuf.c count the holders of each mbuf exactly at every  *)
(* step, so the stores without an atomic operation are never raced and the *)
(* last reference, and only the last, puts an mbuf back into its pool.     *)
(***************************************************************************)
EXTENDS MbufRefcnt, FiniteSetTheorems, TLAPS

-----------------------------------------------------------------------------
(* Finite sets.                                                             *)

LEMMA AddOne ==
  ASSUME NEW S, IsFiniteSet(S), NEW a, a \notin S
  PROVE  IsFiniteSet(S \cup {a}) /\ Cardinality(S \cup {a}) = Cardinality(S) + 1
  BY FS_AddElement

LEMMA DropOne ==
  ASSUME NEW S, IsFiniteSet(S), NEW a \in S
  PROVE  IsFiniteSet(S \ {a}) /\ Cardinality(S \ {a}) = Cardinality(S) - 1
  BY FS_RemoveElement

LEMMA SwapOne ==
  ASSUME NEW S, IsFiniteSet(S), NEW a \in S, NEW b, b \notin S
  PROVE  IsFiniteSet((S \ {a}) \cup {b}) /\ Cardinality((S \ {a}) \cup {b}) = Cardinality(S)
<1>1. IsFiniteSet(S \ {a}) /\ Cardinality(S \ {a}) = Cardinality(S) - 1
  BY DropOne
<1>2. IsFiniteSet((S \ {a}) \cup {b}) /\ Cardinality((S \ {a}) \cup {b}) = Cardinality(S \ {a}) + 1
  BY <1>1, AddOne
<1>3. Cardinality(S) \in Nat
  BY FS_CardinalityType
<1> QED
  BY <1>1, <1>2, <1>3

LEMMA NoElement ==
  ASSUME NEW S, IsFiniteSet(S), Cardinality(S) = 0
  PROVE  S = {}
  BY FS_EmptySet

LEMMA OneElement ==
  ASSUME NEW S, IsFiniteSet(S), Cardinality(S) = 1, NEW a \in S, NEW b \in S
  PROVE  a = b
<1>1. IsFiniteSet(S \ {a}) /\ Cardinality(S \ {a}) = 0
  BY DropOne
<1>2. S \ {a} = {}
  BY <1>1, NoElement
<1> QED
  BY <1>2

-----------------------------------------------------------------------------
(* Holders.                                                                 *)

(* The holders of one kind are told from the others by their tag.           *)
LEMMA HolderKinds ==
  ASSUME NEW m, NEW h
  PROVE  /\ h \in Refs(m) <=> \E l \in Lcores : \E j \in 1 .. refs[l][m] : h = <<"ref", l, j>>
         /\ h \in Clones(m) <=> \E i \in Mbufs : i # m /\ buf[i] = m /\ h = <<"mbuf", i, 0>>
         /\ h \in Calls(m) <=> \E l \in Lcores : CallHolds(l, m) /\ h = <<"call", l, 0>>
         /\ h \in InPool(m) <=> \E j \in 1 .. pool[m] : h = <<"pool", m, j>>
<1>1. h \in Refs(m) <=> \E l \in Lcores : \E j \in 1 .. refs[l][m] : h = <<"ref", l, j>>
  BY DEF Refs
<1>2. h \in Clones(m) <=> \E i \in Mbufs : i # m /\ buf[i] = m /\ h = <<"mbuf", i, 0>>
  BY Zenon DEF Clones, Attached
<1>3. h \in Calls(m) <=> \E l \in Lcores : CallHolds(l, m) /\ h = <<"call", l, 0>>
  BY Zenon DEF Calls
<1>4. h \in InPool(m) <=> \E j \in 1 .. pool[m] : h = <<"pool", m, j>>
  BY Zenon DEF InPool
<1> QED
  BY <1>1, <1>2, <1>3, <1>4

(* What makes a holder.                                                     *)
LEMMA HolderFacts ==
  ASSUME TypeOK, NEW m \in Mbufs
  PROVE  /\ \A l \in Lcores : refs[l][m] > 0 => <<"ref", l, 1>> \in Holders(m)
         /\ \A i \in Mbufs : i # m /\ buf[i] = m => <<"mbuf", i, 0>> \in Holders(m)
         /\ \A l \in Lcores : CallHolds(l, m) => <<"call", l, 0>> \in Holders(m)
         /\ pool[m] > 0 => <<"pool", m, 1>> \in Holders(m)
<1>1. \A l \in Lcores : refs[l][m] > 0 => <<"ref", l, 1>> \in Refs(m)
  <2> SUFFICES ASSUME NEW l \in Lcores, refs[l][m] > 0 PROVE <<"ref", l, 1>> \in Refs(m)
    OBVIOUS
  <2>1. 1 \in 1 .. refs[l][m]
    BY DEF TypeOK
  <2> QED
    BY <2>1, HolderKinds, Zenon
<1>2. \A i \in Mbufs : i # m /\ buf[i] = m => <<"mbuf", i, 0>> \in Clones(m)
  BY HolderKinds, Zenon
<1>3. \A l \in Lcores : CallHolds(l, m) => <<"call", l, 0>> \in Calls(m)
  BY HolderKinds, Zenon
<1>4. pool[m] > 0 => <<"pool", m, 1>> \in InPool(m)
  <2> SUFFICES ASSUME pool[m] > 0 PROVE <<"pool", m, 1>> \in InPool(m)
    OBVIOUS
  <2>1. 1 \in 1 .. pool[m]
    BY DEF TypeOK
  <2> QED
    BY <2>1, HolderKinds, Zenon
<1> QED
  BY <1>1, <1>2, <1>3, <1>4 DEF Holders

(* An mbuf whose count is 1 has one holder; a holder is counted.            *)
LEMMA Counted ==
  ASSUME RefInv, NEW m \in Mbufs
  PROVE  /\ \A a \in Holders(m) : refcnt[m] # 0
         /\ refcnt[m] = 1 => \A a, b \in Holders(m) : a = b
<1>1. IsFiniteSet(Holders(m)) /\ refcnt[m] = Cardinality(Holders(m))
  BY DEF RefInv
<1>2. \A a \in Holders(m) : refcnt[m] # 0
  BY <1>1, NoElement
<1>3. refcnt[m] = 1 => \A a, b \in Holders(m) : a = b
  BY <1>1, OneElement
<1> QED
  BY <1>2, <1>3

(* The mbufs that a call of l relies on.                                    *)
Uses(l, x) ==
  \/ CallHolds(l, x)
  \/ op[l].pc \in Attaching /\ x \in {op[l].m, op[l].md}
  \/ op[l].pc \in Sharing /\ x = op[l].m

(* The holder through which it does.                                        *)
LEMMA UsesHolder ==
  ASSUME RefInv, NEW l \in Lcores, NEW x \in Mbufs, Uses(l, x)
  PROVE  \/ <<"call", l, 0>> \in Holders(x)
         \/ <<"ref", l, 1>> \in Holders(x)
         \/ /\ op[l].m \in Mbufs /\ op[l].m # x /\ buf[op[l].m] = x /\ refs[l][op[l].m] > 0
            /\ <<"mbuf", op[l].m, 0>> \in Holders(x)
<1>1. Locals(l) /\ TypeOK
  BY DEF RefInv
<1>2. CASE CallHolds(l, x)
  BY <1>1, <1>2, HolderFacts
<1>3. CASE op[l].pc \in Attaching /\ x \in {op[l].m, op[l].md}
  <2>1. op[l].m \in Mbufs /\ refs[l][op[l].m] > 0 /\ op[l].md = buf[op[l].m]
    BY <1>1, <1>3 DEF Locals
  <2> QED
    BY <1>1, <1>3, <2>1, HolderFacts
<1>4. CASE op[l].pc \in Sharing /\ x = op[l].m
  <2>1. refs[l][op[l].m] > 0
    BY <1>1, <1>4 DEF Locals
  <2> QED
    BY <1>1, <1>4, <2>1, HolderFacts
<1> QED
  BY <1>2, <1>3, <1>4 DEF Uses

(* What a call uses has a count, is not in the pool and, when its count is  *)
(* 1, is used by no other call.                                             *)
LEMMA UsesExclusive ==
  ASSUME RefInv, NEW l \in Lcores, NEW x \in Mbufs, Uses(l, x)
  PROVE  /\ refcnt[x] # 0
         /\ pool[x] = 0
         /\ \A k \in Lcores : ~Kills(k, x)
         /\ refcnt[x] = 1 => \A k \in Lcores \ {l} : ~Uses(k, x)
<1>1. TypeOK /\ \A k \in Lcores : Locals(k)
  BY DEF RefInv
<1>2. PICK a \in Holders(x) : \/ a = <<"call", l, 0>>
                              \/ a = <<"ref", l, 1>>
                              \/ /\ a = <<"mbuf", op[l].m, 0>> /\ op[l].m \in Mbufs /\ op[l].m # x
                                 /\ buf[op[l].m] = x /\ refs[l][op[l].m] > 0
  BY UsesHolder
<1>3. refcnt[x] # 0
  BY <1>2, Counted
<1>4. pool[x] = 0
  <2> SUFFICES ASSUME pool[x] # 0 PROVE FALSE
    OBVIOUS
  <2>1. pool[x] > 0
    BY <1>1 DEF TypeOK
  <2>2. <<"pool", x, 1>> \in Holders(x) /\ refcnt[x] = 1
    BY <1>1, <2>1, HolderFacts DEF RefInv
  <2>3. a = <<"pool", x, 1>>
    BY <1>2, <2>2, Counted
  <2> QED
    BY <1>2, <2>3
<1>5. \A k \in Lcores : ~Kills(k, x)
  <2> SUFFICES ASSUME NEW k \in Lcores, Kills(k, x) PROVE FALSE
    OBVIOUS
  <2>1. refcnt[x] = 0
    BY <1>1 DEF Kills, Locals
  <2> QED
    BY <2>1, <1>3
<1>6. ASSUME refcnt[x] = 1, NEW k \in Lcores, k # l, Uses(k, x)
      PROVE  FALSE
  <2>1. PICK b \in Holders(x) : \/ b = <<"call", k, 0>>
                                \/ b = <<"ref", k, 1>>
                                \/ /\ b = <<"mbuf", op[k].m, 0>> /\ op[k].m \in Mbufs /\ op[k].m # x
                                   /\ buf[op[k].m] = x /\ refs[k][op[k].m] > 0
    BY <1>6, UsesHolder
  <2>2. a = b
    BY <1>2, <1>6, <2>1, Counted
  <2>3. /\ op[k].m = op[l].m /\ op[l].m \in Mbufs /\ buf[op[l].m] # op[l].m
        /\ refs[l][op[l].m] > 0 /\ refs[k][op[l].m] > 0
    BY <1>2, <1>6, <2>1, <2>2
  <2>4. refcnt[op[l].m] = 1
    BY <2>3 DEF RefInv
  <2>5. <<"ref", l, 1>> \in Holders(op[l].m) /\ <<"ref", k, 1>> \in Holders(op[l].m)
    BY <1>1, <2>3, HolderFacts
  <2>6. <<"ref", l, 1>> = <<"ref", k, 1>>
    BY <2>3, <2>4, <2>5, Counted
  <2> QED
    BY <2>6, <1>6
<1> QED
  BY <1>3, <1>4, <1>5, <1>6

-----------------------------------------------------------------------------
(* How the holders change.                                                  *)

LEMMA RefsGrow ==
  ASSUME TypeOK, NEW l \in Lcores, NEW m \in Mbufs,
         refs' = [refs EXCEPT ![l][m] = @ + 1]
  PROVE  /\ Refs(m)' = Refs(m) \cup {<<"ref", l, refs[l][m] + 1>>}
         /\ <<"ref", l, refs[l][m] + 1>> \notin Holders(m)
         /\ \A x \in Mbufs \ {m} : Refs(x)' = Refs(x)
         /\ \A k \in Lcores, x \in Mbufs : refs'[k][x] \in Nat /\ refs'[k][x] >= refs[k][x]
         /\ refs' \in [Lcores -> [Mbufs -> Nat]]
<1> DEFINE h == <<"ref", l, refs[l][m] + 1>>
<1>1. /\ \A k \in Lcores, x \in Mbufs : refs[k][x] \in Nat
      /\ refs'[l][m] = refs[l][m] + 1
      /\ \A k \in Lcores, x \in Mbufs : k # l \/ x # m => refs'[k][x] = refs[k][x]
  BY DEF TypeOK
<1>2. 1 .. (refs[l][m] + 1) = (1 .. refs[l][m]) \cup {refs[l][m] + 1}
      /\ refs[l][m] + 1 \notin 1 .. refs[l][m]
  BY <1>1
<1>3. Refs(m)' = Refs(m) \cup {h}
  <2>1. ASSUME NEW k \in Lcores \ {l}
        PROVE  {<<"ref", k, j>> : j \in 1 .. refs'[k][m]} = {<<"ref", k, j>> : j \in 1 .. refs[k][m]}
    BY <1>1
  <2>2. {<<"ref", l, j>> : j \in 1 .. refs'[l][m]} = {<<"ref", l, j>> : j \in 1 .. refs[l][m]} \cup {h}
    BY <1>1, <1>2
  <2> HIDE DEF h
  <2> QED
    BY <2>1, <2>2 DEF Refs
<1>4. \A x \in Mbufs \ {m} : Refs(x)' = Refs(x)
  BY <1>1 DEF Refs
<1>5. h \notin Holders(m)
  <2>1. h \notin Refs(m)
    BY <1>2, HolderKinds
  <2>2. h \notin Clones(m) /\ h \notin Calls(m) /\ h \notin InPool(m)
    BY HolderKinds
  <2> QED
    BY <2>1, <2>2 DEF Holders
<1>6. \A k \in Lcores, x \in Mbufs : refs'[k][x] \in Nat /\ refs'[k][x] >= refs[k][x]
  BY <1>1
<1>7. refs' \in [Lcores -> [Mbufs -> Nat]]
  BY DEF TypeOK
<1> QED
  BY <1>3, <1>4, <1>5, <1>6, <1>7

LEMMA RefsShrink ==
  ASSUME TypeOK, NEW l \in Lcores, NEW m \in Mbufs, refs[l][m] > 0,
         refs' = [refs EXCEPT ![l][m] = @ - 1]
  PROVE  /\ Refs(m)' = Refs(m) \ {<<"ref", l, refs[l][m]>>}
         /\ <<"ref", l, refs[l][m]>> \in Refs(m)
         /\ \A x \in Mbufs \ {m} : Refs(x)' = Refs(x)
         /\ \A k \in Lcores \ {l}, x \in Mbufs : refs'[k][x] = refs[k][x]
         /\ refs' \in [Lcores -> [Mbufs -> Nat]]
<1> DEFINE h == <<"ref", l, refs[l][m]>>
<1>1. /\ \A k \in Lcores, x \in Mbufs : refs[k][x] \in Nat
      /\ refs'[l][m] = refs[l][m] - 1
      /\ \A k \in Lcores, x \in Mbufs : k # l \/ x # m => refs'[k][x] = refs[k][x]
  BY DEF TypeOK
<1>2. 1 .. (refs[l][m] - 1) = (1 .. refs[l][m]) \ {refs[l][m]}
      /\ refs[l][m] \in 1 .. refs[l][m] /\ refs[l][m] - 1 \in Nat
  BY <1>1
<1>3. Refs(m)' = Refs(m) \ {h}
  <2>1. ASSUME NEW k \in Lcores \ {l}
        PROVE  /\ {<<"ref", k, j>> : j \in 1 .. refs'[k][m]} = {<<"ref", k, j>> : j \in 1 .. refs[k][m]}
               /\ h \notin {<<"ref", k, j>> : j \in 1 .. refs[k][m]}
    BY <1>1
  <2>2. {<<"ref", l, j>> : j \in 1 .. refs'[l][m]} = {<<"ref", l, j>> : j \in 1 .. refs[l][m]} \ {h}
    BY <1>1, <1>2
  <2> HIDE DEF h
  <2> QED
    BY <2>1, <2>2 DEF Refs
<1>4. \A x \in Mbufs \ {m} : Refs(x)' = Refs(x)
  BY <1>1 DEF Refs
<1>5. h \in Refs(m)
  BY <1>2, HolderKinds
<1>6. refs' \in [Lcores -> [Mbufs -> Nat]] /\ \A k \in Lcores \ {l}, x \in Mbufs : refs'[k][x] = refs[k][x]
  BY <1>1, <1>2 DEF TypeOK
<1> QED
  BY <1>3, <1>4, <1>5, <1>6

LEMMA PoolGrows ==
  ASSUME TypeOK, NEW m \in Mbufs, rte_mempool_put(m)
  PROVE  /\ InPool(m)' = InPool(m) \cup {<<"pool", m, pool[m] + 1>>}
         /\ <<"pool", m, pool[m] + 1>> \notin Holders(m)
         /\ \A x \in Mbufs \ {m} : InPool(x)' = InPool(x) /\ pool'[x] = pool[x]
         /\ pool' \in [Mbufs -> Nat]
<1> DEFINE h == <<"pool", m, pool[m] + 1>>
<1>1. pool[m] \in Nat /\ pool'[m] = pool[m] + 1 /\ \A x \in Mbufs \ {m} : pool'[x] = pool[x]
  BY DEF TypeOK, rte_mempool_put
<1>2. 1 .. (pool[m] + 1) = (1 .. pool[m]) \cup {pool[m] + 1} /\ pool[m] + 1 \notin 1 .. pool[m]
  BY <1>1
<1>3. InPool(m)' = InPool(m) \cup {h}
  BY <1>1, <1>2 DEF InPool
<1>4. \A x \in Mbufs \ {m} : InPool(x)' = InPool(x) /\ pool'[x] = pool[x]
  BY <1>1 DEF InPool
<1>5. h \notin Holders(m)
  <2>1. h \notin InPool(m)
    BY <1>2, HolderKinds
  <2>2. h \notin Clones(m) /\ h \notin Calls(m) /\ h \notin Refs(m)
    BY HolderKinds
  <2> QED
    BY <2>1, <2>2 DEF Holders
<1>6. pool' \in [Mbufs -> Nat]
  BY <1>1 DEF TypeOK, rte_mempool_put
<1> QED
  BY <1>3, <1>4, <1>5, <1>6

LEMMA PoolShrinks ==
  ASSUME TypeOK, NEW m \in Mbufs, rte_mempool_get(m)
  PROVE  /\ InPool(m)' = InPool(m) \ {<<"pool", m, pool[m]>>}
         /\ <<"pool", m, pool[m]>> \in InPool(m)
         /\ \A x \in Mbufs \ {m} : InPool(x)' = InPool(x)
         /\ \A x \in Mbufs : pool'[x] \in Nat /\ pool'[x] <= pool[x]
         /\ pool' \in [Mbufs -> Nat]
<1> DEFINE h == <<"pool", m, pool[m]>>
<1>1. /\ pool[m] \in Nat /\ pool[m] > 0 /\ pool'[m] = pool[m] - 1
      /\ \A x \in Mbufs \ {m} : pool'[x] = pool[x]
  BY DEF TypeOK, rte_mempool_get
<1>2. 1 .. (pool[m] - 1) = (1 .. pool[m]) \ {pool[m]} /\ pool[m] \in 1 .. pool[m] /\ pool[m] - 1 \in Nat
  BY <1>1
<1>3. InPool(m)' = InPool(m) \ {h}
  BY <1>1, <1>2 DEF InPool
<1>4. \A x \in Mbufs \ {m} : InPool(x)' = InPool(x)
  BY <1>1 DEF InPool
<1>5. h \in InPool(m)
  BY <1>2, HolderKinds
<1>6. pool' \in [Mbufs -> Nat] /\ \A x \in Mbufs : pool'[x] \in Nat /\ pool'[x] <= pool[x]
  BY <1>1, <1>2 DEF TypeOK, rte_mempool_get
<1> QED
  BY <1>3, <1>4, <1>5, <1>6

(* A step of l changes no other lcore's call.                               *)
LEMMA CallsChange ==
  ASSUME NEW l \in Lcores, \A k \in Lcores \ {l} : op'[k] = op[k], NEW x
  PROVE  /\ \A k \in Lcores \ {l} : CallHolds(k, x)' <=> CallHolds(k, x)
         /\ CallHolds(l, x)' => Calls(x)' = Calls(x) \cup {<<"call", l, 0>>}
         /\ ~CallHolds(l, x)' => Calls(x)' = Calls(x) \ {<<"call", l, 0>>}
         /\ CallHolds(l, x) <=> <<"call", l, 0>> \in Calls(x)
         /\ (CallHolds(l, x)' <=> CallHolds(l, x)) => Calls(x)' = Calls(x)
         /\ ~CallHolds(l, x) => <<"call", l, 0>> \notin Holders(x)
<1>1. \A k \in Lcores \ {l} : CallHolds(k, x)' <=> CallHolds(k, x)
  BY DEF CallHolds
<1>2. CallHolds(l, x) <=> <<"call", l, 0>> \in Calls(x)
  BY HolderKinds
<1>3. Calls(x)' = {<<"call", k, 0>> : k \in {j \in Lcores : CallHolds(j, x)'}}
  BY DEF Calls
<1>4. CallHolds(l, x)' => Calls(x)' = Calls(x) \cup {<<"call", l, 0>>}
  BY <1>1, <1>3 DEF Calls
<1>5. ~CallHolds(l, x)' => Calls(x)' = Calls(x) \ {<<"call", l, 0>>}
  BY <1>1, <1>3 DEF Calls
<1>6. ~CallHolds(l, x) => <<"call", l, 0>> \notin Holders(x)
  BY HolderKinds DEF Holders
<1>7. (CallHolds(l, x)' <=> CallHolds(l, x)) => Calls(x)' = Calls(x)
  BY <1>2, <1>4, <1>5
<1> QED
  BY <1>1, <1>2, <1>4, <1>5, <1>6, <1>7

LEMMA ClonesGrow ==
  ASSUME TypeOK, NEW mi \in Mbufs, NEW md \in Mbufs, mi # md, buf[mi] = mi,
         buf' = [buf EXCEPT ![mi] = md]
  PROVE  /\ Clones(md)' = Clones(md) \cup {<<"mbuf", mi, 0>>}
         /\ <<"mbuf", mi, 0>> \notin Holders(md)
         /\ \A x \in Mbufs \ {md} : Clones(x)' = Clones(x)
         /\ buf'[mi] = md /\ \A x \in Mbufs \ {mi} : buf'[x] = buf[x]
<1> DEFINE h == <<"mbuf", mi, 0>>
<1>1. buf'[mi] = md /\ \A x \in Mbufs \ {mi} : buf'[x] = buf[x]
  BY DEF TypeOK
<1>2. Attached(md)' = Attached(md) \cup {mi}
  BY <1>1 DEF Attached
<1>3. \A x \in Mbufs \ {md} : Attached(x)' = Attached(x)
  BY <1>1 DEF Attached
<1>4. Clones(md)' = Clones(md) \cup {h}
  BY <1>2 DEF Clones
<1>5. \A x \in Mbufs \ {md} : Clones(x)' = Clones(x)
  BY <1>3 DEF Clones
<1>6. h \notin Holders(md)
  BY HolderKinds DEF Holders
<1> QED
  BY <1>1, <1>4, <1>5, <1>6

LEMMA ClonesShrink ==
  ASSUME TypeOK, NEW m \in Mbufs, NEW md \in Mbufs, m # md, buf[m] = md,
         buf' = [buf EXCEPT ![m] = m]
  PROVE  /\ Clones(md)' = Clones(md) \ {<<"mbuf", m, 0>>}
         /\ <<"mbuf", m, 0>> \in Clones(md)
         /\ \A x \in Mbufs \ {md} : Clones(x)' = Clones(x)
         /\ buf'[m] = m /\ \A x \in Mbufs \ {m} : buf'[x] = buf[x]
<1> DEFINE h == <<"mbuf", m, 0>>
<1>1. buf'[m] = m /\ \A x \in Mbufs \ {m} : buf'[x] = buf[x]
  BY DEF TypeOK
<1>2. Attached(md)' = Attached(md) \ {m} /\ m \in Attached(md)
  BY <1>1 DEF Attached
<1>3. \A x \in Mbufs \ {md} : Attached(x)' = Attached(x)
  BY <1>1 DEF Attached
<1>4. Clones(md)' = Clones(md) \ {h}
  BY <1>2 DEF Clones
<1>5. \A x \in Mbufs \ {md} : Clones(x)' = Clones(x)
  BY <1>3 DEF Clones
<1>6. h \in Clones(md)
  BY <1>2 DEF Clones
<1> QED
  BY <1>1, <1>4, <1>5, <1>6

-----------------------------------------------------------------------------
(* The call of an lcore.                                                    *)

LEMMA IdleCall == Idle \in Call
  BY DEF Idle, Call

(* The fields of a call, and that a step to another pc keeps the rest.      *)
LEMMA StepTo ==
  ASSUME TypeOK, NEW l \in Lcores, NEW v, op' = [op EXCEPT ![l].pc = v],
         v \in {"attach_set", "attach_add", "share_set", "share_add", "free_dec",
                "detach", "put_direct", "put"}
  PROVE  /\ op' \in [Lcores -> Call]
         /\ \A k \in Lcores \ {l} : op'[k] = op[k]
         /\ op'[l] = [op[l] EXCEPT !.pc = v]
         /\ op'[l].pc = v /\ op'[l].m = op[l].m /\ op'[l].md = op[l].md /\ op'[l].mi = op[l].mi
         /\ op'[l].to = op[l].to /\ op'[l].zero = op[l].zero
<1>1. op[l] \in Call
  BY DEF TypeOK
<1>2. op'[l] = [op[l] EXCEPT !.pc = v] /\ \A k \in Lcores \ {l} : op'[k] = op[k]
  BY DEF TypeOK
<1>3. [op[l] EXCEPT !.pc = v] \in Call
  BY <1>1 DEF Call
<1>4. op' \in [Lcores -> Call]
  BY <1>2, <1>3 DEF TypeOK
<1>5. /\ op'[l].pc = v /\ op'[l].m = op[l].m /\ op'[l].md = op[l].md /\ op'[l].mi = op[l].mi
      /\ op'[l].to = op[l].to /\ op'[l].zero = op[l].zero
  BY <1>1, <1>2 DEF Call
<1> QED
  BY <1>2, <1>4, <1>5

LEMMA CallExcept ==
  ASSUME NEW r \in Call, NEW v, v \in {"detach_set", "detach_add", "put"}
  PROVE  /\ [r EXCEPT !.pc = v] \in Call
         /\ [r EXCEPT !.pc = v].pc = v
         /\ [r EXCEPT !.pc = v].m = r.m
         /\ [r EXCEPT !.pc = v].md = r.md
         /\ [r EXCEPT !.pc = v].zero = r.zero
  BY DEF Call

LEMMA StepWith ==
  ASSUME TypeOK, NEW l \in Lcores, NEW v, NEW d \in Mbufs \cup {None},
         op' = [op EXCEPT ![l].md = d, ![l].pc = v],
         v \in {"detach_set", "detach_add", "put"}
  PROVE  /\ op' \in [Lcores -> Call]
         /\ \A k \in Lcores \ {l} : op'[k] = op[k]
         /\ op'[l].pc = v /\ op'[l].m = op[l].m /\ op'[l].md = d /\ op'[l].zero = op[l].zero
<1>1. op[l] \in Call
  BY DEF TypeOK
<1>2. PICK r : r = [op[l] EXCEPT !.md = d]
  OBVIOUS
<1>3. r \in Call /\ r.m = op[l].m /\ r.md = d /\ r.zero = op[l].zero
  BY <1>1, <1>2 DEF Call
<1>4. op'[l] = [r EXCEPT !.pc = v] /\ \A k \in Lcores \ {l} : op'[k] = op[k]
  BY <1>2 DEF TypeOK
<1>5. op'[l] \in Call /\ op'[l].pc = v /\ op'[l].m = r.m /\ op'[l].md = r.md /\ op'[l].zero = r.zero
  <2>1. PICK e : e = [r EXCEPT !.pc = v]
    OBVIOUS
  <2>2. e \in Call /\ e.pc = v /\ e.m = r.m /\ e.md = r.md /\ e.zero = r.zero
    BY <2>1, <1>3, CallExcept
  <2>3. op'[l] = e
    BY <2>1, <1>4
  <2> QED
    BY <2>2, <2>3, Zenon
<1>6. op' \in [Lcores -> Call]
  BY <1>4, <1>5 DEF TypeOK
<1> QED
  BY <1>3, <1>4, <1>5, <1>6

(* A call begins from Idle.                                                 *)
LEMMA FreshCalls ==
  ASSUME NEW m \in Mbufs, NEW md \in Mbufs, NEW mi \in Mbufs, NEW to \in Lcores
  PROVE  /\ [Idle EXCEPT !.pc = "attach", !.m = m, !.mi = mi, !.md = md] \in Call
         /\ [Idle EXCEPT !.pc = "share", !.m = m, !.to = to] \in Call
         /\ [Idle EXCEPT !.pc = "free", !.m = m] \in Call
<1>1. [Idle EXCEPT !.pc = "attach", !.m = m, !.mi = mi, !.md = md] \in Call
  BY IdleCall DEF Call
<1>2. [Idle EXCEPT !.pc = "share", !.m = m, !.to = to] \in Call
  BY IdleCall DEF Call
<1>3. [Idle EXCEPT !.pc = "free", !.m = m] \in Call
  BY IdleCall DEF Call
<1> QED
  BY <1>1, <1>2, <1>3

LEMMA BeginCall ==
  ASSUME TypeOK, NEW l \in Lcores, NEW r \in Call, op' = [op EXCEPT ![l] = r]
  PROVE  op' \in [Lcores -> Call] /\ op'[l] = r /\ \A k \in Lcores \ {l} : op'[k] = op[k]
  BY DEF TypeOK

-----------------------------------------------------------------------------
(* What a step of l has to respect so that the calls of the others still    *)
(* know what they know: it changes only counts of mbufs it uses or is       *)
(* putting back, and re-attaches only an mbuf whose one holder is its call. *)
LEMMA StepKeepsOthers ==
  ASSUME RefInv, NEW l \in Lcores, TypeOK',
         \A k \in Lcores \ {l} : op'[k] = op[k],
         \A x \in Mbufs : refcnt'[x] # refcnt[x] => Uses(l, x) \/ Kills(l, x),
         \A x \in Mbufs : buf'[x] # buf[x] => CallHolds(l, x) /\ refcnt[x] = 1,
         \A k \in Lcores \ {l}, x \in Mbufs : refs[k][x] > 0 => refs'[k][x] > 0,
         \A x \in Mbufs : Kills(l, x)' => Kills(l, x) \/ refcnt[x] # 0,
         \A x \in Mbufs : refcnt'[x] = 0 => Kills(l, x)' \/ (refcnt[x] = 0 /\ ~Kills(l, x)),
         \A m \in Mbufs : IsFiniteSet(Holders(m)') /\ refcnt'[m] = Cardinality(Holders(m)'),
         \A m \in Mbufs : buf'[buf'[m]] = buf'[m],
         \A m \in Mbufs : buf'[m] # m => refcnt'[m] = 1,
         \A m \in Mbufs : pool'[m] > 0 => refcnt'[m] = 1 /\ buf'[m] = m,
         Locals(l)'
  PROVE  RefInv'
<1>1. TypeOK /\ \A k \in Lcores : Locals(k)
  BY DEF RefInv
<1>2. ASSUME NEW k \in Lcores \ {l}, NEW x \in Mbufs, Uses(k, x)
      PROVE  /\ refcnt[x] = 1 => refcnt'[x] = 1
             /\ buf'[x] = buf[x]
  <2>1. ~Kills(l, x) /\ (refcnt[x] = 1 => ~Uses(l, x))
    BY <1>2, UsesExclusive
  <2> QED
    BY <2>1 DEF Uses
<1>3. ASSUME NEW k \in Lcores \ {l}, NEW x \in Mbufs, Kills(k, x), buf[x] = x
      PROVE  refcnt'[x] = 0 /\ buf'[x] = x
  <2>1. refcnt[x] = 0
    BY <1>1, <1>3 DEF Kills, Locals
  <2>2. ~Uses(l, x)
    BY <1>3, UsesExclusive
  <2>3. ~Kills(l, x)
    BY <1>3 DEF RefInv
  <2> QED
    BY <2>1, <2>2, <2>3
<1>4. ASSUME NEW k \in Lcores \ {l} PROVE Locals(k)'
  <2>1. op'[k] = op[k] /\ Locals(k)
    BY <1>1
  <2>2. CASE op[k].pc \in Attaching
    <3>1. /\ op[k].m \in Mbufs /\ op[k].mi \in Mbufs /\ refs[k][op[k].m] > 0 /\ op[k].md = buf[op[k].m]
          /\ buf[op[k].mi] = op[k].mi /\ refcnt[op[k].mi] = 1
          /\ op[k].pc = "attach_set" => refcnt[op[k].md] = 1
      BY <2>1, <2>2 DEF Locals
    <3>2. op[k].md \in Mbufs
      BY <3>1, <1>1 DEF TypeOK
    <3>3. Uses(k, op[k].m) /\ Uses(k, op[k].mi) /\ Uses(k, op[k].md)
      BY <2>2 DEF Uses, CallHolds
    <3>4. /\ refcnt'[op[k].mi] = 1 /\ buf'[op[k].mi] = buf[op[k].mi] /\ buf'[op[k].m] = buf[op[k].m]
          /\ op[k].pc = "attach_set" => refcnt'[op[k].md] = 1
      BY <3>1, <3>2, <3>3, <1>2
    <3> QED
      BY <2>1, <2>2, <3>1, <3>4 DEF Locals, Attaching, Sharing, Detaching
  <2>3. CASE op[k].pc \in Sharing
    <3>1. op[k].m \in Mbufs /\ Uses(k, op[k].m)
      BY <2>1, <2>3 DEF Uses, Locals
    <3> QED
      BY <2>1, <2>3, <3>1, <1>2 DEF Locals, Attaching, Sharing, Detaching
  <2>4. CASE op[k].pc \in {"free", "free_dec", "detach"}
    <3>1. op[k].m \in Mbufs /\ Uses(k, op[k].m)
      BY <2>1, <2>4 DEF Uses, Locals, CallHolds
    <3> QED
      BY <2>1, <2>4, <3>1, <1>2 DEF Locals, Attaching, Sharing, Detaching
  <2>5. CASE op[k].pc \in Detaching
    <3>1. op[k].m \in Mbufs /\ Uses(k, op[k].m) /\ op[k].md \in Mbufs /\ Uses(k, op[k].md)
      BY <2>1, <2>5 DEF Uses, Locals, CallHolds, Detaching
    <3>2. /\ refcnt'[op[k].m] = 1 /\ buf'[op[k].m] = buf[op[k].m] /\ buf'[op[k].md] = buf[op[k].md]
          /\ op[k].pc = "detach_set" => refcnt'[op[k].md] = 1
      BY <3>1, <1>2, <2>1, <2>5 DEF Locals, Detaching
    <3> QED
      BY <2>1, <2>5, <3>2 DEF Locals, Attaching, Sharing, Detaching
  <2>6. CASE op[k].pc = "put_direct"
    <3>1. op[k].m \in Mbufs /\ Uses(k, op[k].m) /\ op[k].md \in Mbufs /\ Kills(k, op[k].md)
      BY <2>1, <2>6 DEF Uses, Locals, CallHolds, Kills
    <3>2. /\ refcnt'[op[k].m] = 1 /\ buf'[op[k].m] = buf[op[k].m] /\ buf'[op[k].md] = buf[op[k].md]
          /\ refcnt'[op[k].md] = 0
      BY <3>1, <1>2, <1>3, <2>1, <2>6 DEF Locals
    <3> QED
      BY <2>1, <2>6, <3>2 DEF Locals, Attaching, Sharing, Detaching
  <2>7. CASE op[k].pc = "put"
    <3>1. CASE op[k].zero
      <4>1. op[k].m \in Mbufs /\ Kills(k, op[k].m) /\ buf[op[k].m] = op[k].m
        BY <2>1, <2>7, <3>1 DEF Locals, Kills
      <4> QED
        BY <2>1, <2>7, <3>1, <4>1, <1>3 DEF Locals, Attaching, Sharing, Detaching
    <3>2. CASE ~op[k].zero
      <4>1. op[k].m \in Mbufs /\ Uses(k, op[k].m)
        BY <2>1, <2>7, <3>2 DEF Locals, Uses, CallHolds
      <4> QED
        BY <2>1, <2>7, <3>2, <4>1, <1>2 DEF Locals, Attaching, Sharing, Detaching
    <3> QED
      BY <3>1, <3>2
  <2>8. CASE op[k].pc = "idle"
    BY <2>1, <2>8 DEF Locals, Attaching, Sharing, Detaching
  <2>9. op[k].pc \in Attaching \cup Sharing \cup {"free", "free_dec", "detach"} \cup Detaching
          \cup {"put_direct", "put", "idle"}
    BY <1>1 DEF TypeOK, Call, Attaching, Sharing, Detaching
  <2> QED
    BY <2>2, <2>3, <2>4, <2>5, <2>6, <2>7, <2>8, <2>9
<1>5. \A k \in Lcores \ {l}, x \in Mbufs : Kills(k, x)' <=> Kills(k, x)
  BY DEF Kills
<1>6. \A j, k \in Lcores, m \in Mbufs : Kills(j, m)' /\ Kills(k, m)' => j = k
  <2>1. \A k \in Lcores, m \in Mbufs : Kills(k, m) => refcnt[m] = 0
    BY <1>1 DEF Kills, Locals
  <2> QED
    BY <2>1, <1>5 DEF RefInv
<1>7. \A m \in Mbufs : refcnt'[m] = 0 => \E k \in Lcores : Kills(k, m)'
  BY <1>5 DEF RefInv
<1> QED
  BY <1>4, <1>6, <1>7 DEF RefInv

(* A step that only reads.                                                  *)
LEMMA ReadStep ==
  ASSUME RefInv, NEW l \in Lcores, TypeOK', UNCHANGED <<refcnt, buf, pool, refs>>,
         \A k \in Lcores \ {l} : op'[k] = op[k],
         \A x \in Mbufs : CallHolds(l, x)' <=> CallHolds(l, x),
         \A x \in Mbufs : ~Kills(l, x) /\ ~Kills(l, x)',
         Locals(l)'
  PROVE  RefInv'
<1>1. \A x \in Mbufs : Holders(x)' = Holders(x)
  <2> SUFFICES ASSUME NEW x \in Mbufs PROVE Holders(x)' = Holders(x)
    OBVIOUS
  <2>1. Calls(x)' = Calls(x)
    BY CallsChange
  <2>2. Refs(x)' = Refs(x) /\ Clones(x)' = Clones(x) /\ InPool(x)' = InPool(x)
    BY DEF Refs, Clones, Attached, InPool
  <2> QED
    BY <2>1, <2>2 DEF Holders
<1>2. \A m \in Mbufs : IsFiniteSet(Holders(m)') /\ refcnt'[m] = Cardinality(Holders(m)')
  BY <1>1 DEF RefInv
<1>3. /\ \A m \in Mbufs : buf'[buf'[m]] = buf'[m]
      /\ \A m \in Mbufs : buf'[m] # m => refcnt'[m] = 1
      /\ \A m \in Mbufs : pool'[m] > 0 => refcnt'[m] = 1 /\ buf'[m] = m
  BY DEF RefInv
<1> QED
  BY <1>2, <1>3, StepKeepsOthers

LEMMA InitRef == Init => RefInv
<1> SUFFICES ASSUME Init PROVE RefInv
  OBVIOUS
<1>1. TypeOK
  BY IdleCall DEF Init, TypeOK
<1>2. ASSUME NEW m \in Mbufs
      PROVE  IsFiniteSet(Holders(m)) /\ refcnt[m] = Cardinality(Holders(m))
  <2>1. refcnt[m] = 1 /\ buf = [x \in Mbufs |-> x] /\ pool[m] = 1
        /\ \A l \in Lcores : refs[l][m] = 0 /\ op[l] = Idle
    BY DEF Init
  <2>2. Refs(m) = {} /\ Clones(m) = {}
    BY <2>1 DEF Refs, Clones, Attached
  <2>3. Calls(m) = {}
    BY <2>1 DEF Calls, CallHolds, Idle, Attaching, Detaching
  <2>4. InPool(m) = {<<"pool", m, 1>>}
    <3>1. 1 .. 1 = {1}
      OBVIOUS
    <3> QED
      BY <2>1, <3>1 DEF InPool
  <2>5. Holders(m) = {<<"pool", m, 1>>}
    BY <2>2, <2>3, <2>4 DEF Holders
  <2> QED
    BY <2>1, <2>5, FS_Singleton
<1>3. \A l \in Lcores : Locals(l)
  BY DEF Init, Idle, Locals, Attaching, Sharing, Detaching
<1>4. \A l \in Lcores, m \in Mbufs : ~Kills(l, m)
  BY DEF Init, Idle, Kills
<1>5. \A m \in Mbufs : buf[m] = m /\ refcnt[m] = 1
  BY DEF Init
<1> QED
  BY <1>1, <1>2, <1>3, <1>4, <1>5 DEF RefInv

LEMMA AllocRef ==
  ASSUME RefInv, NEW l \in Lcores, rte_pktmbuf_alloc(l)
  PROVE  RefInv'
<1>1. TypeOK /\ UNCHANGED <<refcnt, buf, op>> /\ op[l].pc = "idle"
  BY DEF RefInv, rte_pktmbuf_alloc
<1>2. PICK m \in Mbufs : rte_mempool_get(m) /\ refs' = [refs EXCEPT ![l][m] = @ + 1]
  BY DEF rte_pktmbuf_alloc
<1> DEFINE a == <<"pool", m, pool[m]>>
           b == <<"ref", l, refs[l][m] + 1>>
<1>3. /\ Refs(m)' = Refs(m) \cup {b} /\ b \notin Holders(m)
      /\ \A x \in Mbufs \ {m} : Refs(x)' = Refs(x)
      /\ \A k \in Lcores, x \in Mbufs : refs'[k][x] \in Nat /\ refs'[k][x] >= refs[k][x]
      /\ refs' \in [Lcores -> [Mbufs -> Nat]]
  BY <1>1, <1>2, RefsGrow
<1>4. /\ InPool(m)' = InPool(m) \ {a} /\ a \in InPool(m)
      /\ \A x \in Mbufs \ {m} : InPool(x)' = InPool(x)
      /\ \A x \in Mbufs : pool'[x] \in Nat /\ pool'[x] <= pool[x]
      /\ pool' \in [Mbufs -> Nat]
  BY <1>1, <1>2, PoolShrinks
<1>5. \A x \in Mbufs : Clones(x)' = Clones(x) /\ Calls(x)' = Calls(x)
  BY <1>1 DEF Clones, Attached, Calls, CallHolds
<1>6. \A x \in Mbufs \ {m} : Holders(x)' = Holders(x)
  BY <1>3, <1>4, <1>5 DEF Holders
<1>7. Holders(m)' = (Holders(m) \ {a}) \cup {b} /\ a \in Holders(m)
  <2>1. a \notin Refs(m) /\ a \notin Clones(m) /\ a \notin Calls(m)
    BY HolderKinds
  <2> HIDE DEF a, b
  <2> QED
    BY <2>1, <1>3, <1>4, <1>5 DEF Holders
<1>8. \A x \in Mbufs : IsFiniteSet(Holders(x)') /\ refcnt'[x] = Cardinality(Holders(x)')
  <2>1. IsFiniteSet(Holders(m)') /\ Cardinality(Holders(m)') = Cardinality(Holders(m))
    <3> HIDE DEF a, b
    <3>1. IsFiniteSet(Holders(m))
      BY DEF RefInv
    <3> QED
      BY <3>1, <1>3, <1>7, SwapOne
  <2> QED
    BY <2>1, <1>1, <1>6 DEF RefInv
<1>9. TypeOK'
  BY <1>1, <1>3, <1>4 DEF TypeOK
<1>10. Locals(l)' /\ \A x \in Mbufs : ~Kills(l, x) /\ ~Kills(l, x)'
  BY <1>1 DEF RefInv, Locals, Kills, Attaching, Sharing, Detaching
<1>11. \A k \in Lcores \ {l}, x \in Mbufs : refs[k][x] > 0 => refs'[k][x] > 0
  BY <1>1, <1>3 DEF TypeOK
<1>12. /\ \A x \in Mbufs : buf'[buf'[x]] = buf'[x]
       /\ \A x \in Mbufs : buf'[x] # x => refcnt'[x] = 1
       /\ \A x \in Mbufs : pool'[x] > 0 => refcnt'[x] = 1 /\ buf'[x] = x
  BY <1>1, <1>4 DEF RefInv, TypeOK
<1> QED
  BY <1>1, <1>8, <1>9, <1>10, <1>11, <1>12, StepKeepsOthers

LEMMA CloneRef ==
  ASSUME RefInv, NEW l \in Lcores, rte_pktmbuf_clone(l)
  PROVE  RefInv'
<1>1. TypeOK /\ UNCHANGED <<refcnt, buf, refs>> /\ op[l].pc = "idle"
  BY DEF RefInv, rte_pktmbuf_clone
<1>2. PICK m \in Mbufs, mi \in Mbufs :
        /\ refs[l][m] > 0 /\ rte_mempool_get(mi)
        /\ op' = [op EXCEPT ![l] = [Idle EXCEPT !.pc = "attach", !.m = m, !.mi = mi, !.md = buf[m]]]
  BY DEF rte_pktmbuf_clone
<1>3. /\ op'[l] = [Idle EXCEPT !.pc = "attach", !.m = m, !.mi = mi, !.md = buf[m]]
      /\ \A k \in Lcores \ {l} : op'[k] = op[k]
  BY <1>1, <1>2 DEF TypeOK
<1>4. op'[l].pc = "attach" /\ op'[l].m = m /\ op'[l].mi = mi /\ op'[l].md = buf[m] /\ ~op'[l].zero
  BY <1>3 DEF Idle
<1> DEFINE a == <<"pool", mi, pool[mi]>>
           b == <<"call", l, 0>>
<1>5. /\ InPool(mi)' = InPool(mi) \ {a} /\ a \in InPool(mi)
      /\ \A x \in Mbufs \ {mi} : InPool(x)' = InPool(x)
      /\ \A x \in Mbufs : pool'[x] \in Nat /\ pool'[x] <= pool[x]
      /\ pool' \in [Mbufs -> Nat]
  BY <1>1, <1>2, PoolShrinks
<1>6. \A x \in Mbufs : ~CallHolds(l, x) /\ (CallHolds(l, x)' <=> x = mi)
  BY <1>1, <1>4 DEF CallHolds, Attaching, Detaching
<1>7. /\ Calls(mi)' = Calls(mi) \cup {b} /\ b \notin Holders(mi)
      /\ \A x \in Mbufs \ {mi} : Calls(x)' = Calls(x)
  BY <1>3, <1>6, CallsChange
<1>8. \A x \in Mbufs : Clones(x)' = Clones(x) /\ Refs(x)' = Refs(x)
  BY <1>1 DEF Clones, Attached, Refs
<1>9. \A x \in Mbufs \ {mi} : Holders(x)' = Holders(x)
  BY <1>5, <1>7, <1>8 DEF Holders
<1>10. Holders(mi)' = (Holders(mi) \ {a}) \cup {b} /\ a \in Holders(mi)
  <2>1. a \notin Refs(mi) /\ a \notin Clones(mi) /\ a \notin Calls(mi)
    BY HolderKinds
  <2> HIDE DEF a, b
  <2> QED
    BY <2>1, <1>5, <1>7, <1>8 DEF Holders
<1>11. \A x \in Mbufs : IsFiniteSet(Holders(x)') /\ refcnt'[x] = Cardinality(Holders(x)')
  <2>1. IsFiniteSet(Holders(mi)') /\ Cardinality(Holders(mi)') = Cardinality(Holders(mi))
    BY <1>7, <1>10, SwapOne DEF RefInv
  <2> QED
    BY <2>1, <1>1, <1>9 DEF RefInv
<1>12. TypeOK'
  <2>1. buf[m] \in Mbufs
    BY <1>1 DEF TypeOK
  <2>2. op' \in [Lcores -> Call]
    BY <2>1, <1>1, <1>2, FreshCalls, BeginCall
  <2> QED
    BY <2>2, <1>1, <1>5 DEF TypeOK
<1>13. pool[mi] > 0 /\ buf[mi] = mi /\ refcnt[mi] = 1
  BY <1>2 DEF RefInv, rte_mempool_get
<1>14. Locals(l)'
  BY <1>1, <1>2, <1>4, <1>13 DEF Locals, Attaching, Sharing, Detaching
<1>15. \A x \in Mbufs : ~Kills(l, x) /\ ~Kills(l, x)'
  BY <1>1, <1>4 DEF Kills
<1>16. /\ \A x \in Mbufs : buf'[buf'[x]] = buf'[x]
       /\ \A x \in Mbufs : buf'[x] # x => refcnt'[x] = 1
       /\ \A x \in Mbufs : pool'[x] > 0 => refcnt'[x] = 1 /\ buf'[x] = x
  BY <1>1, <1>5 DEF RefInv, TypeOK
<1> QED
  BY <1>1, <1>3, <1>11, <1>12, <1>14, <1>15, <1>16, StepKeepsOthers

LEMMA AttachReadRef ==
  ASSUME RefInv, NEW l \in Lcores, AttachRead(l)
  PROVE  RefInv'
<1>1. TypeOK /\ UNCHANGED <<refcnt, buf, pool, refs>> /\ op[l].pc = "attach" /\ Locals(l)
  BY DEF RefInv, AttachRead
<1>2. PICK v \in {"attach_set", "attach_add"} :
        op' = [op EXCEPT ![l].pc = v] /\ (v = "attach_set" => refcnt[op[l].md] = 1)
  BY DEF AttachRead, PathOf
<1>3. /\ op' \in [Lcores -> Call] /\ \A k \in Lcores \ {l} : op'[k] = op[k]
      /\ op'[l].pc = v /\ op'[l].m = op[l].m /\ op'[l].md = op[l].md /\ op'[l].mi = op[l].mi
      /\ op'[l].to = op[l].to /\ op'[l].zero = op[l].zero
  BY <1>1, <1>2, StepTo
<1>4. TypeOK'
  BY <1>1, <1>3 DEF TypeOK
<1>5. Locals(l)'
  BY <1>1, <1>2, <1>3 DEF Locals, Attaching, Sharing, Detaching
<1>6. \A x \in Mbufs : /\ CallHolds(l, x)' <=> CallHolds(l, x)
                       /\ ~Kills(l, x) /\ ~Kills(l, x)'
  BY <1>1, <1>2, <1>3 DEF CallHolds, Kills, Attaching, Detaching
<1> QED
  BY <1>1, <1>3, <1>4, <1>5, <1>6, ReadStep

(* The clone that is attached and the owner of the buffer are not the same. *)
LEMMA AttachUpdateRef ==
  ASSUME RefInv, NEW l \in Lcores, AttachUpdate(l)
  PROVE  RefInv'
<1>1. TypeOK /\ UNCHANGED pool /\ op[l].pc \in {"attach_set", "attach_add"} /\ Locals(l)
  BY DEF RefInv, AttachUpdate
<1>2. PICK m \in Mbufs, mi \in Mbufs, md \in Mbufs :
        /\ m = op[l].m /\ mi = op[l].mi /\ md = op[l].md
        /\ refs[l][m] > 0 /\ md = buf[m] /\ buf[mi] = mi /\ refcnt[mi] = 1 /\ refcnt[md] \in Nat
        /\ op[l].pc = "attach_set" => refcnt[md] = 1
  BY <1>1 DEF Locals, Attaching, TypeOK
<1> DEFINE a == <<"call", l, 0>>
           b == <<"ref", l, refs[l][mi] + 1>>
           c == <<"mbuf", mi, 0>>
<1>3. refcnt' = [refcnt EXCEPT ![md] = refcnt[md] + 1]
  BY <1>1, <1>2 DEF AttachUpdate
<1>4. /\ buf' = [buf EXCEPT ![mi] = md]
      /\ refs' = [refs EXCEPT ![l][mi] = @ + 1]
      /\ op' = [op EXCEPT ![l] = Idle]
  BY <1>2 DEF AttachUpdate
<1>5. op'[l] = Idle /\ \A k \in Lcores \ {l} : op'[k] = op[k]
  BY <1>1, <1>4 DEF TypeOK
<1>6. Uses(l, md) /\ CallHolds(l, mi) /\ Uses(l, mi)
  BY <1>1, <1>2 DEF Uses, CallHolds, Attaching
<1>7. mi # md /\ m # mi
  <2>1. a \in Holders(mi)
    BY <1>1, <1>2, <1>6, HolderFacts
  <2>2. m # mi
    <3> SUFFICES ASSUME m = mi PROVE FALSE
      OBVIOUS
    <3>1. <<"ref", l, 1>> \in Holders(mi)
      BY <1>1, <1>2, HolderFacts
    <3>2. <<"ref", l, 1>> = a
      BY <2>1, <3>1, <1>2, Counted
    <3> QED
      BY <3>2
  <2>3. mi # md
    <3> SUFFICES ASSUME mi = md PROVE FALSE
      OBVIOUS
    <3>1. <<"mbuf", m, 0>> \in Holders(mi)
      BY <1>1, <1>2, <2>2, HolderFacts
    <3>2. <<"mbuf", m, 0>> = a
      BY <2>1, <3>1, <1>2, Counted
    <3> QED
      BY <3>2
  <2> QED
    BY <2>2, <2>3
<1>8. /\ Refs(mi)' = Refs(mi) \cup {b} /\ b \notin Holders(mi)
      /\ \A x \in Mbufs \ {mi} : Refs(x)' = Refs(x)
      /\ \A k \in Lcores, x \in Mbufs : refs'[k][x] \in Nat /\ refs'[k][x] >= refs[k][x]
      /\ refs' \in [Lcores -> [Mbufs -> Nat]]
  BY <1>1, <1>2, <1>4, RefsGrow
<1>9. /\ Clones(md)' = Clones(md) \cup {c} /\ c \notin Holders(md)
      /\ \A x \in Mbufs \ {md} : Clones(x)' = Clones(x)
      /\ buf'[mi] = md /\ \A x \in Mbufs \ {mi} : buf'[x] = buf[x]
  BY <1>1, <1>2, <1>4, <1>7, ClonesGrow
<1>10. \A x \in Mbufs : ~CallHolds(l, x)' /\ (CallHolds(l, x) <=> x = mi)
  BY <1>1, <1>2, <1>5 DEF CallHolds, Attaching, Detaching, Idle
<1>11. /\ Calls(mi)' = Calls(mi) \ {a} /\ a \in Calls(mi)
       /\ \A x \in Mbufs \ {mi} : Calls(x)' = Calls(x)
  BY <1>2, <1>5, <1>10, CallsChange
<1>12. \A x \in Mbufs : InPool(x)' = InPool(x)
  BY <1>1 DEF InPool
<1>13. Holders(mi)' = (Holders(mi) \ {a}) \cup {b} /\ a \in Holders(mi)
  <2>1. a \notin Refs(mi) /\ a \notin Clones(mi) /\ a \notin InPool(mi)
    BY HolderKinds
  <2>2. Clones(mi)' = Clones(mi) /\ InPool(mi)' = InPool(mi)
    BY <1>2, <1>7, <1>9, <1>12
  <2> HIDE DEF a, b
  <2> QED
    BY <2>1, <2>2, <1>8, <1>11 DEF Holders
<1>14. Holders(md)' = Holders(md) \cup {c}
  <2>1. Refs(md)' = Refs(md) /\ Calls(md)' = Calls(md) /\ InPool(md)' = InPool(md)
    BY <1>2, <1>7, <1>8, <1>11, <1>12
  <2> HIDE DEF c
  <2> QED
    BY <2>1, <1>9 DEF Holders
<1>15. \A x \in Mbufs \ {mi, md} : Holders(x)' = Holders(x)
  BY <1>8, <1>9, <1>11, <1>12 DEF Holders
<1>16. refcnt'[md] = refcnt[md] + 1 /\ \A x \in Mbufs \ {md} : refcnt'[x] = refcnt[x]
  BY <1>1, <1>2, <1>3 DEF TypeOK
<1>17. \A x \in Mbufs : IsFiniteSet(Holders(x)') /\ refcnt'[x] = Cardinality(Holders(x)')
  <2> HIDE DEF a, b, c
  <2>1. IsFiniteSet(Holders(mi)') /\ Cardinality(Holders(mi)') = Cardinality(Holders(mi))
    BY <1>2, <1>8, <1>13, SwapOne DEF RefInv
  <2>2. IsFiniteSet(Holders(md)') /\ Cardinality(Holders(md)') = Cardinality(Holders(md)) + 1
    BY <1>2, <1>9, <1>14, AddOne DEF RefInv
  <2>3. \A x \in Mbufs : IsFiniteSet(Holders(x)) /\ refcnt[x] = Cardinality(Holders(x))
    BY DEF RefInv
  <2> SUFFICES ASSUME NEW x \in Mbufs
               PROVE  IsFiniteSet(Holders(x)') /\ refcnt'[x] = Cardinality(Holders(x)')
    OBVIOUS
  <2>4. CASE x = mi
    BY <2>1, <2>3, <2>4, <1>2, <1>7, <1>16
  <2>5. CASE x = md
    BY <2>2, <2>3, <2>5, <1>2, <1>16
  <2>6. CASE x \notin {mi, md}
    BY <2>3, <2>6, <1>15, <1>16
  <2> QED
    BY <2>4, <2>5, <2>6
<1>18. TypeOK'
  <2>1. refs' \in [Lcores -> [Mbufs -> Nat]]
    BY <1>8
  <2>2. refcnt' \in [Mbufs -> Nat] /\ buf' \in [Mbufs -> Mbufs]
    BY <1>1, <1>2, <1>3, <1>4 DEF TypeOK
  <2>3. op' \in [Lcores -> Call]
    BY <1>1, <1>4, IdleCall DEF TypeOK
  <2> QED
    BY <2>1, <2>2, <2>3, <1>1 DEF TypeOK
<1>19. Locals(l)'
  BY <1>5 DEF Locals, Idle, Attaching, Sharing, Detaching
<1>20. \A x \in Mbufs : ~Kills(l, x) /\ ~Kills(l, x)'
  BY <1>1, <1>5 DEF Kills, Idle
<1>21. \A k \in Lcores \ {l}, x \in Mbufs : refs[k][x] > 0 => refs'[k][x] > 0
  BY <1>1, <1>8 DEF TypeOK
<1>22. \A x \in Mbufs : buf'[buf'[x]] = buf'[x]
  <2>1. buf[md] = md
    BY <1>2 DEF RefInv
  <2>2. ASSUME NEW x \in Mbufs, x # mi PROVE buf[x] # mi
    <3> SUFFICES ASSUME buf[x] = mi PROVE FALSE
      OBVIOUS
    <3>1. <<"mbuf", x, 0>> \in Holders(mi) /\ a \in Holders(mi)
      BY <1>1, <1>2, <1>6, <2>2, HolderFacts
    <3>2. <<"mbuf", x, 0>> = a
      BY <3>1, <1>2, Counted
    <3> QED
      BY <3>2
  <2>3. \A x \in Mbufs : buf[buf[x]] = buf[x] /\ buf[x] \in Mbufs
    BY <1>1 DEF RefInv, TypeOK
  <2> SUFFICES ASSUME NEW x \in Mbufs PROVE buf'[buf'[x]] = buf'[x]
    OBVIOUS
  <2>4. CASE x = mi
    BY <2>1, <2>4, <1>2, <1>7, <1>9
  <2>5. CASE x # mi
    BY <2>2, <2>3, <2>5, <1>9
  <2> QED
    BY <2>4, <2>5
<1>23. \A x \in Mbufs : buf'[x] # x => refcnt'[x] = 1
  <2>1. buf[md] = md
    BY <1>2 DEF RefInv
  <2> QED
    BY <2>1, <1>2, <1>7, <1>9, <1>16 DEF RefInv
<1>24. \A x \in Mbufs : pool'[x] > 0 => refcnt'[x] = 1 /\ buf'[x] = x
  <2>1. pool[md] = 0 /\ pool[mi] = 0
    BY <1>2, <1>6, UsesExclusive
  <2> QED
    BY <2>1, <1>1, <1>2, <1>9, <1>16 DEF RefInv
<1>25. /\ \A x \in Mbufs : refcnt'[x] # refcnt[x] => Uses(l, x)
       /\ \A x \in Mbufs : buf'[x] # buf[x] => CallHolds(l, x) /\ refcnt[x] = 1
       /\ \A x \in Mbufs : refcnt'[x] = 0 => refcnt[x] = 0
  BY <1>2, <1>6, <1>9, <1>16
<1> QED
  BY <1>5, <1>17, <1>18, <1>19, <1>20, <1>21, <1>22, <1>23, <1>24, <1>25, StepKeepsOthers

LEMMA ShareBeginRef ==
  ASSUME RefInv, ~ShareIndirect, NEW l \in Lcores, rte_pktmbuf_refcnt_update(l)
  PROVE  RefInv'
<1>1. TypeOK /\ UNCHANGED <<refcnt, buf, pool, refs>> /\ op[l].pc = "idle"
  BY DEF RefInv, rte_pktmbuf_refcnt_update
<1>2. PICK m \in Mbufs, to \in Lcores :
        /\ refs[l][m] > 0 /\ buf[m] = m
        /\ op' = [op EXCEPT ![l] = [Idle EXCEPT !.pc = "share", !.m = m, !.to = to]]
  BY DEF rte_pktmbuf_refcnt_update, RTE_MBUF_INDIRECT
<1>3. /\ op' \in [Lcores -> Call] /\ \A k \in Lcores \ {l} : op'[k] = op[k]
      /\ op'[l].pc = "share" /\ op'[l].m = m /\ op'[l].to = to /\ op'[l].zero = FALSE
  <2>1. /\ op' \in [Lcores -> Call] /\ \A k \in Lcores \ {l} : op'[k] = op[k]
        /\ op'[l] = [Idle EXCEPT !.pc = "share", !.m = m, !.to = to]
    BY <1>1, <1>2, FreshCalls, BeginCall
  <2> QED
    BY <2>1 DEF Idle
<1>4. TypeOK'
  BY <1>1, <1>3 DEF TypeOK
<1>5. Locals(l)'
  BY <1>1, <1>2, <1>3 DEF Locals, Attaching, Sharing, Detaching
<1>6. \A x \in Mbufs : /\ CallHolds(l, x)' <=> CallHolds(l, x)
                       /\ ~Kills(l, x) /\ ~Kills(l, x)'
  BY <1>1, <1>3 DEF CallHolds, Kills, Attaching, Detaching
<1> QED
  BY <1>1, <1>3, <1>4, <1>5, <1>6, ReadStep

LEMMA ShareReadRef ==
  ASSUME RefInv, NEW l \in Lcores, ShareRead(l)
  PROVE  RefInv'
<1>1. TypeOK /\ UNCHANGED <<refcnt, buf, pool, refs>> /\ op[l].pc = "share" /\ Locals(l)
  BY DEF RefInv, ShareRead
<1>2. PICK v \in {"share_set", "share_add"} :
        op' = [op EXCEPT ![l].pc = v] /\ (v = "share_set" => refcnt[op[l].m] = 1)
  BY DEF ShareRead, PathOf
<1>3. /\ op' \in [Lcores -> Call] /\ \A k \in Lcores \ {l} : op'[k] = op[k]
      /\ op'[l].pc = v /\ op'[l].m = op[l].m /\ op'[l].to = op[l].to /\ op'[l].zero = op[l].zero
  BY <1>1, <1>2, StepTo
<1>4. TypeOK'
  BY <1>1, <1>3 DEF TypeOK
<1>5. Locals(l)'
  BY <1>1, <1>2, <1>3 DEF Locals, Attaching, Sharing, Detaching
<1>6. \A x \in Mbufs : /\ CallHolds(l, x)' <=> CallHolds(l, x)
                       /\ ~Kills(l, x) /\ ~Kills(l, x)'
  BY <1>1, <1>2, <1>3 DEF CallHolds, Kills, Attaching, Detaching
<1> QED
  BY <1>1, <1>3, <1>4, <1>5, <1>6, ReadStep

LEMMA ShareUpdateRef ==
  ASSUME RefInv, NEW l \in Lcores, ShareUpdate(l)
  PROVE  RefInv'
<1>1. TypeOK /\ UNCHANGED <<buf, pool>> /\ op[l].pc \in {"share_set", "share_add"} /\ Locals(l)
  BY DEF RefInv, ShareUpdate
<1>2. PICK m \in Mbufs, to \in Lcores :
        /\ m = op[l].m /\ to = op[l].to /\ refs[l][m] > 0 /\ buf[m] = m /\ refcnt[m] \in Nat
        /\ op[l].pc = "share_set" => refcnt[m] = 1
  BY <1>1 DEF Locals, Sharing, TypeOK
<1> DEFINE a == <<"ref", to, refs[to][m] + 1>>
<1>3. refcnt' = [refcnt EXCEPT ![m] = refcnt[m] + 1]
  BY <1>1, <1>2 DEF ShareUpdate
<1>4. refs' = [refs EXCEPT ![to][m] = @ + 1] /\ op' = [op EXCEPT ![l] = Idle]
  BY <1>2 DEF ShareUpdate
<1>5. op'[l] = Idle /\ \A k \in Lcores \ {l} : op'[k] = op[k]
  BY <1>1, <1>4 DEF TypeOK
<1>6. /\ Refs(m)' = Refs(m) \cup {a} /\ a \notin Holders(m)
      /\ \A x \in Mbufs \ {m} : Refs(x)' = Refs(x)
      /\ \A k \in Lcores, x \in Mbufs : refs'[k][x] \in Nat /\ refs'[k][x] >= refs[k][x]
      /\ refs' \in [Lcores -> [Mbufs -> Nat]]
  BY <1>1, <1>2, <1>4, RefsGrow
<1>7. \A x \in Mbufs : ~CallHolds(l, x)' /\ ~CallHolds(l, x)
  BY <1>1, <1>5 DEF CallHolds, Attaching, Detaching, Idle
<1>8. \A x \in Mbufs : Calls(x)' = Calls(x)
  BY <1>5, <1>7, CallsChange
<1>9. \A x \in Mbufs : Clones(x)' = Clones(x) /\ InPool(x)' = InPool(x)
  BY <1>1 DEF Clones, Attached, InPool
<1>10. Holders(m)' = Holders(m) \cup {a}
  <2> HIDE DEF a
  <2> QED
    BY <1>2, <1>6, <1>8, <1>9 DEF Holders
<1>11. \A x \in Mbufs \ {m} : Holders(x)' = Holders(x)
  BY <1>6, <1>8, <1>9 DEF Holders
<1>12. refcnt'[m] = refcnt[m] + 1 /\ \A x \in Mbufs \ {m} : refcnt'[x] = refcnt[x]
  BY <1>1, <1>2, <1>3 DEF TypeOK
<1>13. \A x \in Mbufs : IsFiniteSet(Holders(x)') /\ refcnt'[x] = Cardinality(Holders(x)')
  <2> HIDE DEF a
  <2>1. \A x \in Mbufs : IsFiniteSet(Holders(x)) /\ refcnt[x] = Cardinality(Holders(x))
    BY DEF RefInv
  <2>2. IsFiniteSet(Holders(m)') /\ Cardinality(Holders(m)') = Cardinality(Holders(m)) + 1
    BY <2>1, <1>6, <1>10, AddOne
  <2> QED
    BY <2>1, <2>2, <1>2, <1>11, <1>12
<1>14. TypeOK'
  BY <1>1, <1>2, <1>3, <1>4, <1>6, IdleCall DEF TypeOK
<1>15. Locals(l)'
  BY <1>5 DEF Locals, Idle, Attaching, Sharing, Detaching
<1>16. \A x \in Mbufs : ~Kills(l, x) /\ ~Kills(l, x)'
  BY <1>1, <1>5 DEF Kills, Idle
<1>17. \A k \in Lcores \ {l}, x \in Mbufs : refs[k][x] > 0 => refs'[k][x] > 0
  BY <1>1, <1>6 DEF TypeOK
<1>18. Uses(l, m) /\ pool[m] = 0
  <2>1. Uses(l, m)
    BY <1>1, <1>2 DEF Uses, Sharing
  <2> QED
    BY <2>1, <1>2, UsesExclusive
<1>19. /\ \A x \in Mbufs : buf'[buf'[x]] = buf'[x]
       /\ \A x \in Mbufs : buf'[x] # x => refcnt'[x] = 1
       /\ \A x \in Mbufs : pool'[x] > 0 => refcnt'[x] = 1 /\ buf'[x] = x
  BY <1>1, <1>2, <1>12, <1>18 DEF RefInv
<1>20. /\ \A x \in Mbufs : refcnt'[x] # refcnt[x] => Uses(l, x)
       /\ \A x \in Mbufs : refcnt'[x] = 0 => refcnt[x] = 0
  BY <1>2, <1>12, <1>18
<1> QED
  BY <1>1, <1>5, <1>13, <1>14, <1>15, <1>16, <1>17, <1>19, <1>20, StepKeepsOthers

(* The reference that is given up becomes the call's.                       *)
LEMMA FreeRef ==
  ASSUME RefInv, NEW l \in Lcores, rte_pktmbuf_free(l)
  PROVE  RefInv'
<1>1. TypeOK /\ UNCHANGED <<refcnt, buf, pool>> /\ op[l].pc = "idle"
  BY DEF RefInv, rte_pktmbuf_free
<1>2. PICK m \in Mbufs :
        /\ refs[l][m] > 0
        /\ refs' = [refs EXCEPT ![l][m] = @ - 1]
        /\ op' = [op EXCEPT ![l] = [Idle EXCEPT !.pc = "free", !.m = m]]
  BY DEF rte_pktmbuf_free
<1> DEFINE a == <<"ref", l, refs[l][m]>>
           b == <<"call", l, 0>>
<1>3. /\ op' \in [Lcores -> Call] /\ \A k \in Lcores \ {l} : op'[k] = op[k]
      /\ op'[l].pc = "free" /\ op'[l].m = m /\ op'[l].zero = FALSE
  <2>1. /\ op' \in [Lcores -> Call] /\ \A k \in Lcores \ {l} : op'[k] = op[k]
        /\ op'[l] = [Idle EXCEPT !.pc = "free", !.m = m]
    BY <1>1, <1>2, FreshCalls, BeginCall
  <2> QED
    BY <2>1 DEF Idle
<1>4. /\ Refs(m)' = Refs(m) \ {a} /\ a \in Refs(m)
      /\ \A x \in Mbufs \ {m} : Refs(x)' = Refs(x)
      /\ \A k \in Lcores \ {l}, x \in Mbufs : refs'[k][x] = refs[k][x]
      /\ refs' \in [Lcores -> [Mbufs -> Nat]]
  BY <1>1, <1>2, RefsShrink
<1>5. \A x \in Mbufs : ~CallHolds(l, x) /\ (CallHolds(l, x)' <=> x = m)
  BY <1>1, <1>3 DEF CallHolds, Attaching, Detaching
<1>6. /\ Calls(m)' = Calls(m) \cup {b} /\ b \notin Holders(m)
      /\ \A x \in Mbufs \ {m} : Calls(x)' = Calls(x)
  BY <1>3, <1>5, CallsChange
<1>7. \A x \in Mbufs : Clones(x)' = Clones(x) /\ InPool(x)' = InPool(x)
  BY <1>1 DEF Clones, Attached, InPool
<1>8. \A x \in Mbufs \ {m} : Holders(x)' = Holders(x)
  BY <1>4, <1>6, <1>7 DEF Holders
<1>9. Holders(m)' = (Holders(m) \ {a}) \cup {b} /\ a \in Holders(m)
  <2>1. a \notin InPool(m) /\ a \notin Clones(m) /\ a \notin Calls(m)
    BY HolderKinds
  <2> HIDE DEF a, b
  <2> QED
    BY <2>1, <1>4, <1>6, <1>7 DEF Holders
<1>10. \A x \in Mbufs : IsFiniteSet(Holders(x)') /\ refcnt'[x] = Cardinality(Holders(x)')
  <2> HIDE DEF a, b
  <2>1. \A x \in Mbufs : IsFiniteSet(Holders(x)) /\ refcnt[x] = Cardinality(Holders(x))
    BY DEF RefInv
  <2>2. IsFiniteSet(Holders(m)') /\ Cardinality(Holders(m)') = Cardinality(Holders(m))
    BY <2>1, <1>6, <1>9, SwapOne
  <2> QED
    BY <2>1, <2>2, <1>1, <1>8
<1>11. TypeOK'
  BY <1>1, <1>3, <1>4 DEF TypeOK
<1>12. Locals(l)'
  BY <1>2, <1>3 DEF Locals, Attaching, Sharing, Detaching
<1>13. \A x \in Mbufs : ~Kills(l, x) /\ ~Kills(l, x)'
  BY <1>1, <1>3 DEF Kills
<1>14. /\ \A x \in Mbufs : buf'[buf'[x]] = buf'[x]
       /\ \A x \in Mbufs : buf'[x] # x => refcnt'[x] = 1
       /\ \A x \in Mbufs : pool'[x] > 0 => refcnt'[x] = 1 /\ buf'[x] = x
  BY <1>1 DEF RefInv
<1> QED
  BY <1>1, <1>3, <1>4, <1>10, <1>11, <1>12, <1>13, <1>14, StepKeepsOthers

(* A count that does not read 1 is that of a direct mbuf.                   *)
LEMMA PrefreeReadRef ==
  ASSUME RefInv, NEW l \in Lcores, PrefreeRead(l)
  PROVE  RefInv'
<1>1. TypeOK /\ UNCHANGED <<refcnt, buf, pool, refs>> /\ op[l].pc = "free" /\ Locals(l)
  BY DEF RefInv, PrefreeRead
<1>2. PICK m \in Mbufs, v \in {"detach", "put", "free_dec"} :
        /\ m = op[l].m /\ op' = [op EXCEPT ![l].pc = v]
        /\ v = "free_dec" => refcnt[m] # 1
        /\ v = "detach" => refcnt[m] = 1 /\ buf[m] # m
        /\ v = "put" => refcnt[m] = 1 /\ buf[m] = m
  BY <1>1 DEF PrefreeRead, PathOf, AfterLast, RTE_MBUF_INDIRECT, Locals
<1>3. /\ op' \in [Lcores -> Call] /\ \A k \in Lcores \ {l} : op'[k] = op[k]
      /\ op'[l].pc = v /\ op'[l].m = m /\ op'[l].zero = op[l].zero /\ ~op[l].zero
  <2>1. ~op[l].zero
    BY <1>1 DEF Locals
  <2> QED
    BY <2>1, <1>1, <1>2, StepTo
<1>4. TypeOK'
  BY <1>1, <1>3 DEF TypeOK
<1>5. v = "free_dec" => buf[m] = m
  BY <1>2 DEF RefInv
<1>6. Locals(l)'
  BY <1>1, <1>2, <1>3, <1>5 DEF Locals, Attaching, Sharing, Detaching
<1>7. \A x \in Mbufs : /\ CallHolds(l, x)' <=> CallHolds(l, x)
                       /\ ~Kills(l, x) /\ ~Kills(l, x)'
  BY <1>1, <1>2, <1>3 DEF CallHolds, Kills, Attaching, Detaching
<1> QED
  BY <1>1, <1>3, <1>4, <1>6, <1>7, ReadStep

(* The lcore whose decrement gives 0 puts the mbuf back.                    *)
LEMMA PrefreeDecRef ==
  ASSUME RefInv, NEW l \in Lcores, PrefreeDec(l)
  PROVE  RefInv'
<1>1. TypeOK /\ UNCHANGED <<buf, pool, refs>> /\ op[l].pc = "free_dec" /\ Locals(l)
  BY DEF RefInv, PrefreeDec
<1>2. PICK m \in Mbufs : m = op[l].m /\ buf[m] = m /\ refcnt[m] \in Nat /\ ~op[l].zero
  BY <1>1 DEF Locals, TypeOK
<1> DEFINE a == <<"call", l, 0>>
           r == IF refcnt[m] = 1 THEN [op[l] EXCEPT !.pc = "put", !.zero = TRUE] ELSE Idle
<1>3. refcnt' = [refcnt EXCEPT ![m] = refcnt[m] - 1] /\ op' = [op EXCEPT ![l] = r]
  BY <1>2 DEF PrefreeDec, AfterLast, RTE_MBUF_INDIRECT
<1>4. r \in Call /\ (refcnt[m] = 1 => r.pc = "put" /\ r.m = m /\ r.zero)
  <2>1. op[l] \in Call
    BY <1>1 DEF TypeOK
  <2>2. CASE refcnt[m] = 1
    BY <2>1, <2>2, <1>2 DEF Call
  <2>3. CASE refcnt[m] # 1
    BY <2>3, IdleCall
  <2> QED
    BY <2>2, <2>3
<1>5. op' \in [Lcores -> Call] /\ op'[l] = r /\ \A k \in Lcores \ {l} : op'[k] = op[k]
  <2> HIDE DEF r
  <2> QED
    BY <1>1, <1>3, <1>4, BeginCall
<1>6. /\ refcnt[m] = 1 => op'[l].pc = "put" /\ op'[l].m = m /\ op'[l].zero
      /\ refcnt[m] # 1 => op'[l].pc = "idle" /\ op'[l].zero = FALSE
  BY <1>4, <1>5 DEF Idle
<1> HIDE DEF r
<1>7. Uses(l, m) /\ refcnt[m] # 0 /\ pool[m] = 0
  <2>1. Uses(l, m)
    BY <1>1, <1>2 DEF Uses, CallHolds
  <2> QED
    BY <2>1, UsesExclusive
<1>8. \A x \in Mbufs : ~CallHolds(l, x)' /\ (CallHolds(l, x) <=> x = m)
  BY <1>1, <1>2, <1>6 DEF CallHolds, Attaching, Detaching
<1>9. /\ Calls(m)' = Calls(m) \ {a} /\ a \in Calls(m)
      /\ \A x \in Mbufs \ {m} : Calls(x)' = Calls(x)
  BY <1>5, <1>8, CallsChange
<1>10. \A x \in Mbufs : Clones(x)' = Clones(x) /\ InPool(x)' = InPool(x) /\ Refs(x)' = Refs(x)
  BY <1>1 DEF Clones, Attached, InPool, Refs
<1>11. Holders(m)' = Holders(m) \ {a} /\ a \in Holders(m)
  <2>1. a \notin Refs(m) /\ a \notin Clones(m) /\ a \notin InPool(m)
    BY HolderKinds
  <2> HIDE DEF a
  <2> QED
    BY <2>1, <1>9, <1>10 DEF Holders
<1>12. \A x \in Mbufs \ {m} : Holders(x)' = Holders(x)
  BY <1>9, <1>10 DEF Holders
<1>13. refcnt'[m] = refcnt[m] - 1 /\ refcnt'[m] \in Nat /\ \A x \in Mbufs \ {m} : refcnt'[x] = refcnt[x]
  <2>1. refcnt'[m] = refcnt[m] - 1 /\ \A x \in Mbufs \ {m} : refcnt'[x] = refcnt[x]
    BY <1>1, <1>3 DEF TypeOK
  <2> QED
    BY <2>1, <1>2, <1>7
<1>14. \A x \in Mbufs : IsFiniteSet(Holders(x)') /\ refcnt'[x] = Cardinality(Holders(x)')
  <2> HIDE DEF a
  <2>1. \A x \in Mbufs : IsFiniteSet(Holders(x)) /\ refcnt[x] = Cardinality(Holders(x))
    BY DEF RefInv
  <2>2. IsFiniteSet(Holders(m)') /\ Cardinality(Holders(m)') = Cardinality(Holders(m)) - 1
    BY <2>1, <1>11, DropOne
  <2> QED
    BY <2>1, <2>2, <1>12, <1>13
<1>15. TypeOK'
  <2>1. refcnt' \in [Mbufs -> Nat]
    BY <1>1, <1>3, <1>13 DEF TypeOK
  <2> QED
    BY <2>1, <1>1, <1>5 DEF TypeOK
<1>16. Locals(l)'
  BY <1>1, <1>2, <1>6, <1>13 DEF Locals, Attaching, Sharing, Detaching
<1>17. \A x \in Mbufs : ~Kills(l, x) /\ (Kills(l, x)' <=> x = m /\ refcnt[m] = 1)
  BY <1>1, <1>6 DEF Kills
<1>18. /\ \A x \in Mbufs : buf'[buf'[x]] = buf'[x]
       /\ \A x \in Mbufs : buf'[x] # x => refcnt'[x] = 1
       /\ \A x \in Mbufs : pool'[x] > 0 => refcnt'[x] = 1 /\ buf'[x] = x
  BY <1>1, <1>2, <1>7, <1>13 DEF RefInv
<1>19. /\ \A x \in Mbufs : refcnt'[x] # refcnt[x] => Uses(l, x)
       /\ \A x \in Mbufs : Kills(l, x)' => refcnt[x] # 0
       /\ \A x \in Mbufs : refcnt'[x] = 0 => Kills(l, x)' \/ (refcnt[x] = 0 /\ ~Kills(l, x))
  BY <1>2, <1>7, <1>13, <1>17
<1> QED
  BY <1>1, <1>5, <1>14, <1>15, <1>16, <1>18, <1>19, StepKeepsOthers

(* The attached mbuf stops holding the owner; the call holds it instead.    *)
LEMMA DetachReadRef ==
  ASSUME RefInv, NEW l \in Lcores, DetachRead(l)
  PROVE  RefInv'
<1>1. TypeOK /\ UNCHANGED <<refcnt, pool, refs>> /\ op[l].pc = "detach" /\ Locals(l)
  BY DEF RefInv, DetachRead
<1>2. PICK m \in Mbufs, md \in Mbufs, v \in {"detach_set", "detach_add"} :
        /\ m = op[l].m /\ md = buf[m] /\ m # md /\ ~op[l].zero
        /\ op' = [op EXCEPT ![l].md = md, ![l].pc = v]
        /\ v = "detach_set" => refcnt[md] = 1
  BY <1>1 DEF DetachRead, PathOf, Locals, TypeOK
<1>3. refcnt[m] = 1 /\ buf[md] = md
  BY <1>2 DEF RefInv
<1>4. /\ op' \in [Lcores -> Call] /\ \A k \in Lcores \ {l} : op'[k] = op[k]
      /\ op'[l].pc = v /\ op'[l].m = m /\ op'[l].md = md /\ ~op'[l].zero
  <2>1. md \in Mbufs \cup {None} /\ v \in {"detach_set", "detach_add", "put"}
    OBVIOUS
  <2>2. op' = [op EXCEPT ![l].md = md, ![l].pc = v]
    BY <1>2
  <2>3. /\ op' \in [Lcores -> Call] /\ \A k \in Lcores \ {l} : op'[k] = op[k]
        /\ op'[l].pc = v /\ op'[l].m = op[l].m /\ op'[l].md = md /\ op'[l].zero = op[l].zero
    BY <2>1, <2>2, <1>1, StepWith
  <2> QED
    BY <2>3, <1>2
<1> DEFINE a == <<"mbuf", m, 0>>
           b == <<"call", l, 0>>
<1>5. /\ Clones(md)' = Clones(md) \ {a} /\ a \in Clones(md)
      /\ \A x \in Mbufs \ {md} : Clones(x)' = Clones(x)
      /\ buf'[m] = m /\ \A x \in Mbufs \ {m} : buf'[x] = buf[x]
      /\ buf' \in [Mbufs -> Mbufs]
  <2>1. buf' = [buf EXCEPT ![m] = m]
    BY <1>2 DEF DetachRead
  <2>2. buf' \in [Mbufs -> Mbufs]
    BY <2>1, <1>1 DEF TypeOK
  <2>3. TypeOK /\ m # md /\ buf[m] = md
    BY <1>1, <1>2
  <2> QED
    BY <2>1, <2>2, <2>3, ClonesShrink
<1>6. \A x \in Mbufs : (CallHolds(l, x) <=> x = m) /\ (CallHolds(l, x)' <=> x \in {m, md})
  BY <1>1, <1>2, <1>4 DEF CallHolds, Attaching, Detaching
<1>7. /\ Calls(md)' = Calls(md) \cup {b} /\ b \notin Holders(md)
      /\ \A x \in Mbufs \ {md} : Calls(x)' = Calls(x)
  BY <1>2, <1>4, <1>6, CallsChange
<1>8. \A x \in Mbufs : Refs(x)' = Refs(x) /\ InPool(x)' = InPool(x)
  BY <1>1 DEF Refs, InPool
<1>9. \A x \in Mbufs \ {md} : Holders(x)' = Holders(x)
  BY <1>5, <1>7, <1>8 DEF Holders
<1>10. Holders(md)' = (Holders(md) \ {a}) \cup {b} /\ a \in Holders(md)
  <2>1. a \notin Refs(md) /\ a \notin InPool(md) /\ a \notin Calls(md)
    BY HolderKinds
  <2> HIDE DEF a, b
  <2> QED
    BY <2>1, <1>5, <1>7, <1>8 DEF Holders
<1>11. \A x \in Mbufs : IsFiniteSet(Holders(x)') /\ refcnt'[x] = Cardinality(Holders(x)')
  <2> HIDE DEF a, b
  <2>1. \A x \in Mbufs : IsFiniteSet(Holders(x)) /\ refcnt[x] = Cardinality(Holders(x))
    BY DEF RefInv
  <2>2. IsFiniteSet(Holders(md)') /\ Cardinality(Holders(md)') = Cardinality(Holders(md))
    BY <2>1, <1>7, <1>10, SwapOne
  <2> QED
    BY <2>1, <2>2, <1>1, <1>9
<1>12. TypeOK'
  BY <1>1, <1>4, <1>5 DEF TypeOK
<1>13. Locals(l)'
  BY <1>1, <1>2, <1>3, <1>4, <1>5 DEF Locals, Attaching, Sharing, Detaching
<1>14. \A x \in Mbufs : ~Kills(l, x) /\ ~Kills(l, x)'
  BY <1>1, <1>2, <1>4 DEF Kills
<1>15. \A x \in Mbufs : buf'[buf'[x]] = buf'[x]
  <2> SUFFICES ASSUME NEW x \in Mbufs PROVE buf'[buf'[x]] = buf'[x]
    OBVIOUS
  <2>1. buf[buf[x]] = buf[x] /\ buf[x] \in Mbufs
    BY <1>1 DEF RefInv, TypeOK
  <2>2. CASE x = m
    BY <2>2, <1>5
  <2>3. CASE x # m
    BY <2>1, <2>3, <1>2, <1>5
  <2> QED
    BY <2>2, <2>3
<1>16. /\ \A x \in Mbufs : buf'[x] # x => refcnt'[x] = 1
       /\ \A x \in Mbufs : pool'[x] > 0 => refcnt'[x] = 1 /\ buf'[x] = x
  BY <1>1, <1>2, <1>5 DEF RefInv
<1>17. \A x \in Mbufs : buf'[x] # buf[x] => CallHolds(l, x) /\ refcnt[x] = 1
  BY <1>2, <1>3, <1>5, <1>6
<1> QED
  BY <1>1, <1>4, <1>11, <1>12, <1>13, <1>14, <1>15, <1>16, <1>17, StepKeepsOthers

(* The lcore whose update of the owner's count gives 0 puts the owner back. *)
LEMMA DetachUpdateRef ==
  ASSUME RefInv, NEW l \in Lcores, DetachUpdate(l)
  PROVE  RefInv'
<1>1. TypeOK /\ UNCHANGED <<buf, pool, refs>> /\ op[l].pc \in Detaching /\ Locals(l)
  BY DEF RefInv, DetachUpdate, Detaching
<1>2. PICK m \in Mbufs, md \in Mbufs :
        /\ m = op[l].m /\ md = op[l].md /\ m # md /\ ~op[l].zero
        /\ buf[m] = m /\ buf[md] = md /\ refcnt[m] = 1 /\ refcnt[md] \in Nat
        /\ op[l].pc = "detach_set" => refcnt[md] = 1
  BY <1>1 DEF Locals, TypeOK, Detaching
<1>3. Uses(l, md) /\ refcnt[md] # 0 /\ pool[md] = 0
  <2>1. Uses(l, md)
    BY <1>1, <1>2 DEF Uses, CallHolds
  <2> QED
    BY <2>1, UsesExclusive
<1>4. PICK v \in {"put_direct", "put"} :
        /\ refcnt' = [refcnt EXCEPT ![md] = refcnt[md] - 1]
        /\ op' = [op EXCEPT ![l].pc = v]
        /\ v = "put_direct" <=> refcnt[md] = 1
  <2>1. CASE op[l].pc = "detach_set"
    <3>1. refcnt' = [refcnt EXCEPT ![md] = 0] /\ op' = [op EXCEPT ![l].pc = "put_direct"]
      BY <2>1, <1>2 DEF DetachUpdate
    <3>2. refcnt[md] - 1 = 0 /\ refcnt[md] = 1
      BY <2>1, <1>2
    <3> QED
      BY <3>1, <3>2
  <2>2. CASE op[l].pc = "detach_add"
    BY <2>2, <1>2 DEF DetachUpdate
  <2> QED
    BY <2>1, <2>2, <1>1 DEF Detaching
<1>5. /\ op' \in [Lcores -> Call] /\ \A k \in Lcores \ {l} : op'[k] = op[k]
      /\ op'[l].pc = v /\ op'[l].m = m /\ op'[l].md = md /\ ~op'[l].zero
  <2>1. /\ op' \in [Lcores -> Call] /\ \A k \in Lcores \ {l} : op'[k] = op[k]
        /\ op'[l].pc = v /\ op'[l].m = op[l].m /\ op'[l].md = op[l].md /\ op'[l].zero = op[l].zero
    BY <1>1, <1>4, StepTo
  <2> QED
    BY <2>1, <1>2
<1>6. /\ refcnt'[md] = refcnt[md] - 1 /\ refcnt'[md] \in Nat
      /\ \A x \in Mbufs \ {md} : refcnt'[x] = refcnt[x]
  <2>1. refcnt'[md] = refcnt[md] - 1 /\ \A x \in Mbufs \ {md} : refcnt'[x] = refcnt[x]
    BY <1>1, <1>4 DEF TypeOK
  <2> QED
    BY <2>1, <1>2, <1>3
<1> DEFINE a == <<"call", l, 0>>
<1>7. \A x \in Mbufs : (CallHolds(l, x) <=> x \in {m, md}) /\ (CallHolds(l, x)' <=> x = m)
  BY <1>1, <1>2, <1>5 DEF CallHolds, Attaching, Detaching
<1>8. /\ Calls(md)' = Calls(md) \ {a} /\ a \in Calls(md)
      /\ \A x \in Mbufs \ {md} : Calls(x)' = Calls(x)
  <2>1. ~CallHolds(l, md)' /\ CallHolds(l, md) /\ \A x \in Mbufs \ {md} : CallHolds(l, x)' <=> CallHolds(l, x)
    BY <1>2, <1>7
  <2> QED
    BY <2>1, <1>5, CallsChange
<1>9. \A x \in Mbufs : Clones(x)' = Clones(x) /\ InPool(x)' = InPool(x) /\ Refs(x)' = Refs(x)
  BY <1>1 DEF Clones, Attached, InPool, Refs
<1>10. Holders(md)' = Holders(md) \ {a} /\ a \in Holders(md)
  <2>1. a \notin Refs(md) /\ a \notin Clones(md) /\ a \notin InPool(md)
    BY HolderKinds
  <2> HIDE DEF a
  <2> QED
    BY <2>1, <1>8, <1>9 DEF Holders
<1>11. \A x \in Mbufs \ {md} : Holders(x)' = Holders(x)
  BY <1>8, <1>9 DEF Holders
<1>12. \A x \in Mbufs : IsFiniteSet(Holders(x)') /\ refcnt'[x] = Cardinality(Holders(x)')
  <2> HIDE DEF a
  <2>1. \A x \in Mbufs : IsFiniteSet(Holders(x)) /\ refcnt[x] = Cardinality(Holders(x))
    BY DEF RefInv
  <2>2. IsFiniteSet(Holders(md)') /\ Cardinality(Holders(md)') = Cardinality(Holders(md)) - 1
    BY <2>1, <1>10, DropOne
  <2> QED
    BY <2>1, <2>2, <1>6, <1>11
<1>13. TypeOK'
  <2>1. refcnt' \in [Mbufs -> Nat]
    BY <1>1, <1>4, <1>6 DEF TypeOK
  <2> QED
    BY <2>1, <1>1, <1>5 DEF TypeOK
<1>14. Locals(l)'
  BY <1>1, <1>2, <1>4, <1>5, <1>6 DEF Locals, Attaching, Sharing, Detaching
<1>15. \A x \in Mbufs : ~Kills(l, x) /\ (Kills(l, x)' <=> x = md /\ refcnt[md] = 1)
  BY <1>1, <1>4, <1>5 DEF Kills, Detaching
<1>16. /\ \A x \in Mbufs : buf'[buf'[x]] = buf'[x]
       /\ \A x \in Mbufs : buf'[x] # x => refcnt'[x] = 1
       /\ \A x \in Mbufs : pool'[x] > 0 => refcnt'[x] = 1 /\ buf'[x] = x
  BY <1>1, <1>2, <1>3, <1>6 DEF RefInv
<1>17. /\ \A x \in Mbufs : refcnt'[x] # refcnt[x] => Uses(l, x)
       /\ \A x \in Mbufs : Kills(l, x)' => refcnt[x] # 0
       /\ \A x \in Mbufs : refcnt'[x] = 0 => Kills(l, x)' \/ (refcnt[x] = 0 /\ ~Kills(l, x))
  BY <1>2, <1>3, <1>6, <1>15
<1> QED
  BY <1>1, <1>5, <1>12, <1>13, <1>14, <1>16, <1>17, StepKeepsOthers

(* An mbuf whose count is 0 has no holder; putting it back gives it one.    *)
LEMMA PutDirectRef ==
  ASSUME RefInv, NEW l \in Lcores, PutDirect(l)
  PROVE  RefInv'
<1>1. TypeOK /\ UNCHANGED <<buf, refs>> /\ op[l].pc = "put_direct" /\ Locals(l)
  BY DEF RefInv, PutDirect
<1>2. PICK m \in Mbufs, md \in Mbufs :
        /\ m = op[l].m /\ md = op[l].md /\ m # md /\ ~op[l].zero
        /\ buf[m] = m /\ buf[md] = md /\ refcnt[m] = 1 /\ refcnt[md] = 0
  BY <1>1 DEF Locals
<1>3. /\ refcnt' = [refcnt EXCEPT ![md] = 1] /\ rte_mempool_put(md)
      /\ op' = [op EXCEPT ![l].md = None, ![l].pc = "put"]
  <2>1. op' = [op EXCEPT ![l].pc = "put", ![l].md = None]
    BY DEF PutDirect
  <2>2. op[l] \in Call
    BY <1>1 DEF TypeOK
  <2>3. [op[l] EXCEPT !.pc = "put", !.md = None] = [op[l] EXCEPT !.md = None, !.pc = "put"]
    BY <2>2 DEF Call
  <2>4. op' = [op EXCEPT ![l].md = None, ![l].pc = "put"]
    BY <2>1, <2>3
  <2> QED
    BY <2>4, <1>2 DEF PutDirect
<1>4. /\ op' \in [Lcores -> Call] /\ \A k \in Lcores \ {l} : op'[k] = op[k]
      /\ op'[l].pc = "put" /\ op'[l].m = m /\ ~op'[l].zero
  <2>1. /\ op' \in [Lcores -> Call] /\ \A k \in Lcores \ {l} : op'[k] = op[k]
        /\ op'[l].pc = "put" /\ op'[l].m = op[l].m /\ op'[l].zero = op[l].zero
    BY <1>1, <1>3, StepWith
  <2> QED
    BY <2>1, <1>2
<1>5. refcnt'[md] = 1 /\ \A x \in Mbufs \ {md} : refcnt'[x] = refcnt[x]
  BY <1>1, <1>3 DEF TypeOK
<1> DEFINE b == <<"pool", md, pool[md] + 1>>
<1>6. /\ InPool(md)' = InPool(md) \cup {b} /\ b \notin Holders(md)
      /\ \A x \in Mbufs \ {md} : InPool(x)' = InPool(x) /\ pool'[x] = pool[x]
      /\ pool' \in [Mbufs -> Nat]
  BY <1>1, <1>3, PoolGrows
<1>7. \A x \in Mbufs : (CallHolds(l, x) <=> x = m) /\ (CallHolds(l, x)' <=> x = m)
  BY <1>1, <1>2, <1>4 DEF CallHolds, Attaching, Detaching
<1>8. \A x \in Mbufs : Calls(x)' = Calls(x)
  BY <1>4, <1>7, CallsChange
<1>9. \A x \in Mbufs : Clones(x)' = Clones(x) /\ Refs(x)' = Refs(x)
  BY <1>1 DEF Clones, Attached, Refs
<1>10. Holders(md)' = Holders(md) \cup {b}
  <2> HIDE DEF b
  <2> QED
    BY <1>6, <1>8, <1>9 DEF Holders
<1>11. \A x \in Mbufs \ {md} : Holders(x)' = Holders(x)
  BY <1>6, <1>8, <1>9 DEF Holders
<1>12. \A x \in Mbufs : IsFiniteSet(Holders(x)') /\ refcnt'[x] = Cardinality(Holders(x)')
  <2> HIDE DEF b
  <2>1. \A x \in Mbufs : IsFiniteSet(Holders(x)) /\ refcnt[x] = Cardinality(Holders(x))
    BY DEF RefInv
  <2>2. IsFiniteSet(Holders(md)') /\ Cardinality(Holders(md)') = Cardinality(Holders(md)) + 1
    BY <2>1, <1>6, <1>10, AddOne
  <2> QED
    BY <2>1, <2>2, <1>2, <1>5, <1>11
<1>13. TypeOK'
  <2>1. refcnt' \in [Mbufs -> Nat]
    BY <1>1, <1>3 DEF TypeOK
  <2> QED
    BY <2>1, <1>1, <1>4, <1>6 DEF TypeOK
<1>14. Locals(l)'
  BY <1>1, <1>2, <1>4, <1>5 DEF Locals, Attaching, Sharing, Detaching
<1>15. \A x \in Mbufs : ~Kills(l, x)' /\ (Kills(l, x) <=> x = md)
  BY <1>1, <1>2, <1>4 DEF Kills
<1>16. /\ \A x \in Mbufs : buf'[buf'[x]] = buf'[x]
       /\ \A x \in Mbufs : buf'[x] # x => refcnt'[x] = 1
       /\ \A x \in Mbufs : pool'[x] > 0 => refcnt'[x] = 1 /\ buf'[x] = x
  BY <1>1, <1>2, <1>5, <1>6 DEF RefInv
<1>17. /\ \A x \in Mbufs : refcnt'[x] # refcnt[x] => Kills(l, x)
       /\ \A x \in Mbufs : refcnt'[x] = 0 => refcnt[x] = 0 /\ ~Kills(l, x)
  BY <1>5, <1>15
<1> QED
  BY <1>1, <1>4, <1>12, <1>13, <1>14, <1>15, <1>16, <1>17, StepKeepsOthers

LEMMA RawFreeRef ==
  ASSUME RefInv, NEW l \in Lcores, rte_mbuf_raw_free(l)
  PROVE  RefInv'
<1>1. TypeOK /\ UNCHANGED <<buf, refs>> /\ op[l].pc = "put" /\ Locals(l)
  BY DEF RefInv, rte_mbuf_raw_free
<1>2. PICK m \in Mbufs : /\ m = op[l].m /\ buf[m] = m
                         /\ op[l].zero => refcnt[m] = 0
                         /\ ~op[l].zero => refcnt[m] = 1
  BY <1>1 DEF Locals
<1>3. rte_mempool_put(m) /\ op' = [op EXCEPT ![l] = Idle]
  BY <1>2 DEF rte_mbuf_raw_free
<1>4. refcnt' \in [Mbufs -> Nat] /\ refcnt'[m] = 1 /\ \A x \in Mbufs \ {m} : refcnt'[x] = refcnt[x]
  BY <1>1, <1>2 DEF rte_mbuf_raw_free, TypeOK
<1>5. op' \in [Lcores -> Call] /\ op'[l] = Idle /\ \A k \in Lcores \ {l} : op'[k] = op[k]
  BY <1>1, <1>3, IdleCall, BeginCall
<1> DEFINE a == <<"call", l, 0>>
           b == <<"pool", m, pool[m] + 1>>
<1>6. /\ InPool(m)' = InPool(m) \cup {b} /\ b \notin Holders(m)
      /\ \A x \in Mbufs \ {m} : InPool(x)' = InPool(x) /\ pool'[x] = pool[x]
      /\ pool' \in [Mbufs -> Nat]
  BY <1>1, <1>3, PoolGrows
<1>7. \A x \in Mbufs : ~CallHolds(l, x)' /\ (CallHolds(l, x) <=> x = m /\ ~op[l].zero)
  BY <1>1, <1>2, <1>5 DEF CallHolds, Attaching, Detaching, Idle
<1>8. \A x \in Mbufs : Calls(x)' = Calls(x) \ {a}
  BY <1>5, <1>7, CallsChange
<1>9. /\ \A x \in Mbufs \ {m} : Calls(x)' = Calls(x)
      /\ op[l].zero => Calls(m)' = Calls(m)
      /\ ~op[l].zero => a \in Calls(m)
  BY <1>5, <1>7, CallsChange
<1>10. \A x \in Mbufs : Clones(x)' = Clones(x) /\ Refs(x)' = Refs(x)
  BY <1>1 DEF Clones, Attached, Refs
<1>11. \A x \in Mbufs \ {m} : Holders(x)' = Holders(x)
  BY <1>6, <1>9, <1>10 DEF Holders
<1>12. IsFiniteSet(Holders(m)') /\ Cardinality(Holders(m)') = 1
  <2>1. IsFiniteSet(Holders(m)) /\ refcnt[m] = Cardinality(Holders(m))
    BY DEF RefInv
  <2>2. CASE op[l].zero
    <3> HIDE DEF a, b
    <3>1. Holders(m)' = Holders(m) \cup {b}
      BY <2>2, <1>6, <1>9, <1>10 DEF Holders
    <3>2. IsFiniteSet(Holders(m)') /\ Cardinality(Holders(m)') = Cardinality(Holders(m)) + 1
      BY <2>1, <3>1, <1>6, AddOne
    <3> QED
      BY <2>1, <2>2, <3>2, <1>2
  <2>3. CASE ~op[l].zero
    <3>1. a \notin Refs(m) /\ a \notin Clones(m) /\ a \notin InPool(m)
      BY HolderKinds
    <3> HIDE DEF a, b
    <3>2. Holders(m)' = (Holders(m) \ {a}) \cup {b} /\ a \in Holders(m)
      BY <2>3, <3>1, <1>6, <1>8, <1>9, <1>10 DEF Holders
    <3>3. IsFiniteSet(Holders(m)') /\ Cardinality(Holders(m)') = Cardinality(Holders(m))
      BY <2>1, <3>2, <1>6, SwapOne
    <3> QED
      BY <2>1, <2>3, <3>3, <1>2
  <2> QED
    BY <2>2, <2>3
<1>13. \A x \in Mbufs : IsFiniteSet(Holders(x)') /\ refcnt'[x] = Cardinality(Holders(x)')
  BY <1>4, <1>11, <1>12 DEF RefInv
<1>14. TypeOK'
  BY <1>1, <1>4, <1>5, <1>6 DEF TypeOK
<1>15. Locals(l)'
  BY <1>5 DEF Locals, Idle, Attaching, Sharing, Detaching
<1>16. \A x \in Mbufs : ~Kills(l, x)' /\ (Kills(l, x) <=> x = m /\ op[l].zero)
  BY <1>1, <1>2, <1>5 DEF Kills, Idle
<1>17. /\ \A x \in Mbufs : buf'[buf'[x]] = buf'[x]
       /\ \A x \in Mbufs : buf'[x] # x => refcnt'[x] = 1
       /\ \A x \in Mbufs : pool'[x] > 0 => refcnt'[x] = 1 /\ buf'[x] = x
  BY <1>1, <1>2, <1>4, <1>6 DEF RefInv
<1>18. /\ \A x \in Mbufs : refcnt'[x] # refcnt[x] => Kills(l, x)
       /\ \A x \in Mbufs : refcnt'[x] = 0 => refcnt[x] = 0 /\ ~Kills(l, x)
  BY <1>2, <1>4, <1>16
<1> QED
  BY <1>1, <1>5, <1>13, <1>14, <1>15, <1>16, <1>17, <1>18, StepKeepsOthers

-----------------------------------------------------------------------------

LEMMA StepRef == ASSUME ~ShareIndirect, RefInv, Next PROVE RefInv'
<1>1. PICK l \in Lcores :
        \/ rte_pktmbuf_alloc(l)
        \/ rte_pktmbuf_clone(l) \/ AttachRead(l) \/ AttachUpdate(l)
        \/ rte_pktmbuf_refcnt_update(l) \/ ShareRead(l) \/ ShareUpdate(l)
        \/ rte_pktmbuf_free(l) \/ PrefreeRead(l) \/ PrefreeDec(l)
        \/ DetachRead(l) \/ DetachUpdate(l) \/ PutDirect(l) \/ rte_mbuf_raw_free(l)
  BY Zenon DEF Next
<1>2. CASE rte_pktmbuf_alloc(l)
  BY <1>2, AllocRef
<1>3. CASE rte_pktmbuf_clone(l)
  BY <1>3, CloneRef
<1>4. CASE AttachRead(l)
  BY <1>4, AttachReadRef
<1>5. CASE AttachUpdate(l)
  BY <1>5, AttachUpdateRef
<1>6. CASE rte_pktmbuf_refcnt_update(l)
  BY <1>6, ShareBeginRef
<1>7. CASE ShareRead(l)
  BY <1>7, ShareReadRef
<1>8. CASE ShareUpdate(l)
  BY <1>8, ShareUpdateRef
<1>9. CASE rte_pktmbuf_free(l)
  BY <1>9, FreeRef
<1>10. CASE PrefreeRead(l)
  BY <1>10, PrefreeReadRef
<1>11. CASE PrefreeDec(l)
  BY <1>11, PrefreeDecRef
<1>12. CASE DetachRead(l)
  BY <1>12, DetachReadRef
<1>13. CASE DetachUpdate(l)
  BY <1>13, DetachUpdateRef
<1>14. CASE PutDirect(l)
  BY <1>14, PutDirectRef
<1>15. CASE rte_mbuf_raw_free(l)
  BY <1>15, RawFreeRef
<1> QED
  BY <1>1, <1>2, <1>3, <1>4, <1>5, <1>6, <1>7, <1>8, <1>9, <1>10, <1>11, <1>12, <1>13, <1>14, <1>15

LEMMA StutterRef == ASSUME RefInv, UNCHANGED vars PROVE RefInv'
<1>1. UNCHANGED <<refcnt, buf, pool, refs, op>>
  BY DEF vars
<1>2. TypeOK'
  BY <1>1 DEF RefInv, TypeOK
<1>3. \A m \in Mbufs : Holders(m)' = Holders(m)
  BY <1>1 DEF Holders, Refs, Clones, Attached, Calls, CallHolds, InPool
<1>4. \A l \in Lcores : Locals(l)' <=> Locals(l)
  BY <1>1 DEF Locals
<1>5. \A l \in Lcores, m \in Mbufs : Kills(l, m)' <=> Kills(l, m)
  BY <1>1 DEF Kills
<1> QED
  BY <1>1, <1>2, <1>3, <1>4, <1>5 DEF RefInv

(* While no lcore shares an indirect mbuf (~ShareIndirect), the reference   *)
(* counts of rte_mbuf.c count the holders of every mbuf exactly at every    *)
(* step of every interleaving, and what each call has read still holds when *)
(* it stores.                                                               *)
THEOREM MbufCounts ==
  ASSUME ~ShareIndirect
  PROVE  Spec => []RefInv
<1>1. Init => RefInv
  BY InitRef
<1>2. RefInv /\ [Next]_vars => RefInv'
  BY StepRef, StutterRef
<1> QED
  BY <1>1, <1>2, PTL DEF Spec

LEMMA RefGivesUniq == RefInv => UniqHolder
<1> SUFFICES ASSUME RefInv, NEW l \in Lcores, NEW k \in Lcores, NEW m \in Mbufs,
                    l # k, op[l].pc \in {"attach_set", "detach_set", "share_set"},
                    AboutToUpdate(l, m), AboutToUpdate(k, m)
             PROVE  FALSE
  BY DEF UniqHolder
<1>1. Uses(l, m) /\ Uses(k, m)
  BY DEF AboutToUpdate, Uses, CallHolds, Attaching, Detaching, Sharing
<1>2. refcnt[m] = 1
  <2>1. Locals(l)
    BY DEF RefInv
  <2> QED
    BY <2>1 DEF Locals, AboutToUpdate, Attaching, Detaching, Sharing
<1> QED
  BY <1>1, <1>2, UsesExclusive

(* "we know we are the uniq holder of this mbuf" (rte_mbuf.c:773-779): the  *)
(* plain store of a count never races another lcore's update of it.         *)
THEOREM MbufUniqHolder ==
  ASSUME ~ShareIndirect
  PROVE  Spec => []UniqHolder
  BY MbufCounts, RefGivesUniq, PTL

LEMMA RefGivesPooled == RefInv => PooledIsUnused
<1> SUFFICES ASSUME RefInv, NEW m \in Mbufs, pool[m] > 0
             PROVE  /\ pool[m] = 1 /\ refcnt[m] = 1 /\ buf[m] = m
                    /\ Attached(m) = {} /\ Held(m) = 0
  BY DEF PooledIsUnused, RTE_MBUF_INDIRECT
<1>1. TypeOK /\ refcnt[m] = 1 /\ buf[m] = m
  BY DEF RefInv
<1>2. <<"pool", m, 1>> \in Holders(m)
  BY <1>1, HolderFacts
<1>3. \A h \in Holders(m) : h = <<"pool", m, 1>>
  BY <1>1, <1>2, Counted
<1>4. pool[m] = 1
  <2> SUFFICES ASSUME pool[m] # 1 PROVE FALSE
    OBVIOUS
  <2>1. 2 \in 1 .. pool[m]
    BY <1>1 DEF TypeOK
  <2>2. <<"pool", m, 2>> \in Holders(m)
    BY <2>1, HolderKinds DEF Holders
  <2>3. <<"pool", m, 2>> = <<"pool", m, 1>>
    BY <2>2, <1>3
  <2> QED
    BY <2>3
<1>5. Attached(m) = {}
  <2> SUFFICES ASSUME NEW i \in Attached(m) PROVE FALSE
    OBVIOUS
  <2>1. <<"mbuf", i, 0>> \in Holders(m)
    BY <1>1, HolderFacts DEF Attached
  <2>2. <<"mbuf", i, 0>> = <<"pool", m, 1>>
    BY <2>1, <1>3
  <2> QED
    BY <2>2
<1>6. Held(m) = 0
  <2>1. ASSUME NEW h \in Refs(m) PROVE FALSE
    <3>1. h = <<"pool", m, 1>>
      BY <1>3 DEF Holders
    <3> QED
      BY <3>1, HolderKinds
  <2>2. Refs(m) = {}
    BY <2>1
  <2> QED
    BY <2>2, FS_EmptySet DEF Held
<1> QED
  BY <1>1, <1>4, <1>5, <1>6

(* An mbuf in the pool is there once, with count 1 and its own buffer, and  *)
(* nobody holds it: only the last rte_pktmbuf_free puts an mbuf back.       *)
THEOREM MbufPooledUnused ==
  ASSUME ~ShareIndirect
  PROVE  Spec => []PooledIsUnused
  BY MbufCounts, RefGivesPooled, PTL

LEMMA RefGivesExact == RefInv => CountIsExact
<1> SUFFICES ASSUME RefInv, \A l \in Lcores : op[l].pc = "idle", NEW m \in Mbufs, pool[m] = 0
             PROVE  refcnt[m] = Held(m) + Cardinality(Attached(m)) /\ refcnt[m] > 0
  BY DEF CountIsExact, RefInv
<1>1. TypeOK /\ IsFiniteSet(Holders(m)) /\ refcnt[m] = Cardinality(Holders(m)) /\ refcnt[m] \in Nat
  BY DEF RefInv, TypeOK
<1>2. Calls(m) = {}
  BY DEF Calls, CallHolds, Attaching, Detaching
<1>3. InPool(m) = {}
  BY DEF InPool
<1>4. Holders(m) = Refs(m) \cup Clones(m) /\ Refs(m) \cap Clones(m) = {}
  <2>1. \A h : ~(h \in Refs(m) /\ h \in Clones(m))
    BY HolderKinds
  <2> QED
    BY <2>1, <1>2, <1>3 DEF Holders
<1>5. IsFiniteSet(Refs(m)) /\ IsFiniteSet(Clones(m))
  BY <1>1, <1>4, FS_Subset
<1>6. Cardinality(Holders(m)) = Cardinality(Refs(m)) + Cardinality(Clones(m))
  <2>1. Cardinality(Refs(m) \cap Clones(m)) = 0
    BY <1>4, FS_EmptySet
  <2>2. Cardinality(Refs(m) \cup Clones(m))
          = Cardinality(Refs(m)) + Cardinality(Clones(m)) - Cardinality(Refs(m) \cap Clones(m))
    BY <1>5, FS_Union
  <2>3. Cardinality(Refs(m)) \in Nat /\ Cardinality(Clones(m)) \in Nat
    BY <1>5, FS_CardinalityType
  <2> QED
    BY <1>4, <2>1, <2>2, <2>3
<1>7. Cardinality(Clones(m)) = Cardinality(Attached(m))
  <2>1. IsFiniteSet(Attached(m))
    BY FiniteAssumption, FS_Subset DEF Attached
  <2> DEFINE f == [i \in Attached(m) |-> <<"mbuf", i, 0>>]
  <2>2. f \in Injection(Attached(m), Clones(m))
    BY DEF Injection, IsInjective, Clones
  <2>3. f \in Surjection(Attached(m), Clones(m))
    BY DEF Surjection, Clones
  <2>4. f \in Bijection(Attached(m), Clones(m))
    BY <2>2, <2>3 DEF Bijection
  <2> HIDE DEF f
  <2>5. ExistsBijection(Attached(m), Clones(m))
    BY <2>4 DEF ExistsBijection
  <2> QED
    BY <2>1, <2>5, FS_Bijection
<1>8. refcnt[m] # 0
  BY DEF RefInv, Kills
<1> QED
  BY <1>1, <1>6, <1>7, <1>8 DEF Held

(* When no call is under way every count is the number of references held   *)
(* plus the mbufs attached: no count drifts and no mbuf leaks.              *)
THEOREM MbufCountExact ==
  ASSUME ~ShareIndirect
  PROVE  Spec => []CountIsExact
  BY MbufCounts, RefGivesExact, PTL

=============================================================================

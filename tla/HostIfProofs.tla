---------------------------- MODULE HostIfProofs ----------------------------
(***************************************************************************)
(* Proofs about HostIf.  The packet loops, for every ring, pool and number *)
(* of packets: tap_rx_to_ring and kni_rx_to_ring (src/lib/tap.cr and       *)
(* src/lib/kni.cr) lose no mbuf, hand none to two owners, and keep the     *)
(* order of the host's packets.  Then about set-up: requests and answers   *)
(* of kni_create's loop do not pile up, every netlink request names the    *)
(* interface's index, and a set-up that ends has configured what it was    *)
(* asked for.                                                              *)
(***************************************************************************)
EXTENDS HostIf, SequenceTheorems, FiniteSetTheorems, TLAPS

(* What the worker has yet to get: the ring, then the batch to be retried.  *)
Queued == rx.ring \o rx.batch

Slots == Mbufs \X Nat

(* The spare, if the pool had one.                                          *)
Spares == Mbufs \cup {NULL}

RxType ==
    rx \in [n : Nat, spare : Spares, pool : SUBSET Mbufs, ring : Seq(Slots), held : SUBSET Mbufs,
            batch : Seq(Slots), out : Seq(Nat)]

(* Every mbuf in one place, in terms of what is queued.                     *)
Apart(queue, pool, held, spare) ==
    /\ \A i, j \in 1 .. Len(queue) : queue[i][1] = queue[j][1] => i = j
    /\ \A i \in 1 .. Len(queue) : queue[i][1] \notin pool /\ queue[i][1] \notin held /\ queue[i][1] # spare
    /\ spare \notin pool /\ spare \notin held /\ pool \cap held = {}

Complete(queue, pool, held, spare) ==
    \A m \in Mbufs : m \in pool \/ m \in held \/ m = spare \/ \E i \in 1 .. Len(queue) : queue[i][1] = m

(* The numbers of the packets that came out and of those that are queued.   *)
Number(out, queue, k) == IF k <= Len(out) THEN out[k] ELSE queue[k - Len(out)][2]

Ordered(out, queue, n, all) ==
    \A k \in 1 .. Len(out) + Len(queue) :
      /\ Number(out, queue, k) <= n
      /\ k > 1 => Number(out, queue, k - 1) < Number(out, queue, k)
      /\ all => Number(out, queue, k) = k

(* The inductive invariant of the packet loops.                             *)
RxInv ==
    /\ RxType
    /\ Len(rx.ring) <= RingSize
    /\ call.kind # "kni" => rx.batch = << >>
    /\ Apart(Queued, rx.pool, rx.held, rx.spare)
    /\ Complete(Queued, rx.pool, rx.held, rx.spare)
    /\ Ordered(rx.out, Queued, rx.n, call.kind = "kni")
    /\ call.kind = "kni" => Len(rx.out) + Len(Queued) = rx.n

----------------------------------------------------------------------------
(* The steps, on queues alone.                                              *)

(* A packet in the spare mbuf joins the queue, and a new spare is taken, or *)
(* none when the pool is empty.                                             *)
LEMMA AppendApart ==
  ASSUME NEW queue \in Seq(Slots), NEW pool \in SUBSET Mbufs, NEW held \in SUBSET Mbufs,
         NEW spare \in Mbufs, NEW m \in IF pool = {} THEN {NULL} ELSE pool, NEW k \in Nat,
         Apart(queue, pool, held, spare), Complete(queue, pool, held, spare)
  PROVE  /\ Apart(Append(queue, <<spare, k>>), pool \ {m}, held, m)
         /\ Complete(Append(queue, <<spare, k>>), pool \ {m}, held, m)
<1> DEFINE new == Append(queue, <<spare, k>>)
<1>1. <<spare, k>> \in Slots /\ <<spare, k>>[1] = spare
  BY DEF Slots
<1>2. /\ Len(queue) \in Nat /\ Len(new) = Len(queue) + 1
      /\ \A i \in 1 .. Len(queue) : new[i] = queue[i]
      /\ new[Len(queue) + 1] = <<spare, k>>
  BY <1>1, AppendProperties, LenProperties
<1> HIDE DEF new
<1>3. \A i \in 1 .. Len(new) : \/ i \in 1 .. Len(queue) /\ new[i][1] = queue[i][1]
                               \/ i = Len(queue) + 1 /\ new[i][1] = spare
  BY <1>1, <1>2
<1>4. Apart(new, pool \ {m}, held, m)
  <2>1. m \in pool \/ m \notin Mbufs
    BY HostIfAssumption DEF NULL
  <2>2. \A i \in 1 .. Len(queue) : queue[i][1] \in Mbufs
    BY ElementOfSeq DEF Slots
  <2>3. m \notin held /\ m # spare /\ \A i \in 1 .. Len(queue) : queue[i][1] # m
    BY <2>1, <2>2 DEF Apart
  <2> QED
    BY <1>2, <1>3, <2>3 DEF Apart
<1>5. Complete(new, pool \ {m}, held, m)
  <2> SUFFICES ASSUME NEW b \in Mbufs, b \notin pool \ {m}, b \notin held, b # m
               PROVE  \E i \in 1 .. Len(new) : new[i][1] = b
    BY DEF Complete
  <2>1. CASE b = spare
    BY <2>1, <1>1, <1>2
  <2>2. CASE b # spare
    <3>1. PICK i \in 1 .. Len(queue) : queue[i][1] = b
      BY <2>2 DEF Complete
    <3>2. i \in 1 .. Len(new) /\ new[i][1] = b
      BY <3>1, <1>2
    <3> QED
      BY <3>2
  <2> QED
    BY <2>1, <2>2
<1> QED
  BY <1>4, <1>5 DEF new

(* An mbuf of the pool joins the queue.                                     *)
LEMMA PoolApart ==
  ASSUME NEW queue \in Seq(Slots), NEW pool \in SUBSET Mbufs, NEW held \in SUBSET Mbufs,
         NEW spare \in Spares, NEW m \in pool, NEW k \in Nat,
         Apart(queue, pool, held, spare), Complete(queue, pool, held, spare)
  PROVE  /\ Apart(Append(queue, <<m, k>>), pool \ {m}, held, spare)
         /\ Complete(Append(queue, <<m, k>>), pool \ {m}, held, spare)
<1> DEFINE new == Append(queue, <<m, k>>)
<1>1. <<m, k>> \in Slots /\ <<m, k>>[1] = m
  BY DEF Slots
<1>2. /\ Len(queue) \in Nat /\ Len(new) = Len(queue) + 1
      /\ \A i \in 1 .. Len(queue) : new[i] = queue[i]
      /\ new[Len(queue) + 1] = <<m, k>>
  BY <1>1, AppendProperties, LenProperties
<1> HIDE DEF new
<1>3. \A i \in 1 .. Len(new) : \/ i \in 1 .. Len(queue) /\ new[i][1] = queue[i][1]
                               \/ i = Len(queue) + 1 /\ new[i][1] = m
  BY <1>1, <1>2
<1>4. Apart(new, pool \ {m}, held, spare)
  BY <1>2, <1>3 DEF Apart
<1>5. Complete(new, pool \ {m}, held, spare)
  <2> SUFFICES ASSUME NEW b \in Mbufs, b \notin pool \ {m}, b \notin held, b # spare
               PROVE  \E i \in 1 .. Len(new) : new[i][1] = b
    BY DEF Complete
  <2>1. CASE b = m
    BY <2>1, <1>1, <1>2
  <2>2. CASE b # m
    <3>1. PICK i \in 1 .. Len(queue) : queue[i][1] = b
      BY <2>2 DEF Complete
    <3>2. i \in 1 .. Len(new) /\ new[i][1] = b
      BY <3>1, <1>2
    <3> QED
      BY <3>2
  <2> QED
    BY <2>1, <2>2
<1> QED
  BY <1>4, <1>5 DEF new

(* A packet with the next number joins the queue.                           *)
LEMMA AppendOrdered ==
  ASSUME NEW out \in Seq(Nat), NEW queue \in Seq(Slots), NEW n \in Nat, NEW all \in BOOLEAN, NEW m \in Mbufs,
         Ordered(out, queue, n, all), all => Len(out) + Len(queue) = n
  PROVE  /\ Ordered(out, Append(queue, <<m, n + 1>>), n + 1, all)
         /\ all => Len(out) + Len(Append(queue, <<m, n + 1>>)) = n + 1
<1> DEFINE new == Append(queue, <<m, n + 1>>)
<1>1. <<m, n + 1>> \in Slots /\ <<m, n + 1>>[2] = n + 1
  BY DEF Slots
<1>2. /\ Len(out) \in Nat /\ Len(queue) \in Nat /\ Len(new) = Len(queue) + 1
      /\ \A i \in 1 .. Len(queue) : new[i] = queue[i]
      /\ new[Len(queue) + 1] = <<m, n + 1>>
  BY <1>1, AppendProperties, LenProperties
<1>3. \A i \in 1 .. Len(out) : out[i] \in Nat
  BY ElementOfSeq
<1>4. \A i \in 1 .. Len(queue) : queue[i][2] \in Nat
  BY ElementOfSeq DEF Slots
<1> HIDE DEF new
<1>5. ASSUME NEW k \in 1 .. Len(out) + Len(queue)
      PROVE  Number(out, new, k) = Number(out, queue, k) /\ Number(out, queue, k) \in Nat
  <2>1. CASE k <= Len(out)
    BY <2>1, <1>2, <1>3 DEF Number
  <2>2. CASE ~(k <= Len(out))
    <3>1. k - Len(out) \in 1 .. Len(queue)
      BY <2>2, <1>2
    <3> QED
      BY <2>2, <3>1, <1>2, <1>4 DEF Number
  <2> QED
    BY <2>1, <2>2
<1>6. Number(out, new, Len(out) + Len(queue) + 1) = n + 1
  <2>1. ~(Len(out) + Len(queue) + 1 <= Len(out)) /\ (Len(out) + Len(queue) + 1) - Len(out) = Len(queue) + 1
    BY <1>2
  <2> QED
    BY <2>1, <1>1, <1>2 DEF Number
<1>7. ASSUME NEW k \in 1 .. Len(out) + Len(new)
      PROVE  /\ Number(out, new, k) <= n + 1
             /\ k > 1 => Number(out, new, k - 1) < Number(out, new, k)
             /\ all => Number(out, new, k) = k
  <2>1. CASE k = Len(out) + Len(queue) + 1
    <3>1. k > 1 => k - 1 \in 1 .. Len(out) + Len(queue)
      BY <2>1, <1>2
    <3>2. k > 1 => Number(out, new, k - 1) \in Nat /\ Number(out, new, k - 1) <= n
      BY <3>1, <1>5 DEF Ordered
    <3> QED
      BY <2>1, <3>2, <1>2, <1>6
  <2>2. CASE k # Len(out) + Len(queue) + 1
    <3>1. k \in 1 .. Len(out) + Len(queue) /\ (k > 1 => k - 1 \in 1 .. Len(out) + Len(queue))
      BY <2>2, <1>2
    <3>2. /\ Number(out, queue, k) <= n
          /\ k > 1 => Number(out, queue, k - 1) < Number(out, queue, k)
          /\ all => Number(out, queue, k) = k
      BY <3>1 DEF Ordered
    <3> QED
      BY <3>1, <3>2, <1>5
  <2> QED
    BY <2>1, <2>2
<1>8. all => Len(out) + Len(new) = n + 1
  BY <1>2
<1>9. Ordered(out, new, n + 1, all)
  BY <1>7 DEF Ordered
<1> QED
  BY <1>8, <1>9 DEF new

(* The first of the queue goes to a worker.                                 *)
LEMMA TakeApart ==
  ASSUME NEW queue \in Seq(Slots), NEW rest \in Seq(Slots), NEW pool \in SUBSET Mbufs,
         NEW held \in SUBSET Mbufs, NEW spare \in Spares,
         Len(queue) = Len(rest) + 1, \A i \in 1 .. Len(rest) : rest[i] = queue[i + 1],
         Apart(queue, pool, held, spare), Complete(queue, pool, held, spare)
  PROVE  /\ Apart(rest, pool, held \cup {queue[1][1]}, spare)
         /\ Complete(rest, pool, held \cup {queue[1][1]}, spare)
<1>1. Len(rest) \in Nat /\ 1 \in 1 .. Len(queue)
  BY LenProperties
<1>2. \A i \in 1 .. Len(rest) : i + 1 \in 1 .. Len(queue) /\ i + 1 # 1 /\ rest[i][1] = queue[i + 1][1]
  BY <1>1
<1>3. Apart(rest, pool, held \cup {queue[1][1]}, spare)
  <2>1. ASSUME NEW i \in 1 .. Len(rest), NEW j \in 1 .. Len(rest), rest[i][1] = rest[j][1]
        PROVE  i = j
    <3>1. i + 1 = j + 1
      BY <2>1, <1>2 DEF Apart
    <3> QED
      BY <3>1
  <2>2. ASSUME NEW i \in 1 .. Len(rest)
        PROVE  rest[i][1] \notin pool /\ rest[i][1] \notin held \cup {queue[1][1]} /\ rest[i][1] # spare
    BY <1>1, <1>2 DEF Apart
  <2>3. spare \notin pool /\ spare \notin held \cup {queue[1][1]} /\ pool \cap (held \cup {queue[1][1]}) = {}
    BY <1>1 DEF Apart
  <2> QED
    BY <2>1, <2>2, <2>3 DEF Apart
<1>4. Complete(rest, pool, held \cup {queue[1][1]}, spare)
  <2> SUFFICES ASSUME NEW b \in Mbufs, b \notin pool, b \notin held, b # queue[1][1], b # spare
               PROVE  \E i \in 1 .. Len(rest) : rest[i][1] = b
    BY DEF Complete
  <2>1. PICK i \in 1 .. Len(queue) : queue[i][1] = b
    BY DEF Complete
  <2>2. i # 1
    BY <2>1
  <2>3. i - 1 \in 1 .. Len(rest) /\ (i - 1) + 1 = i
    BY <1>1, <2>2
  <2>4. rest[i - 1] = queue[i]
    BY <2>3
  <2> QED
    BY <2>1, <2>3, <2>4
<1> QED
  BY <1>3, <1>4

LEMMA TakeOrdered ==
  ASSUME NEW out \in Seq(Nat), NEW queue \in Seq(Slots), NEW rest \in Seq(Slots), NEW n \in Nat,
         NEW all \in BOOLEAN,
         Len(queue) = Len(rest) + 1, \A i \in 1 .. Len(rest) : rest[i] = queue[i + 1],
         Ordered(out, queue, n, all)
  PROVE  /\ Ordered(Append(out, queue[1][2]), rest, n, all)
         /\ Len(Append(out, queue[1][2])) + Len(rest) = Len(out) + Len(queue)
<1> DEFINE new == Append(out, queue[1][2])
<1>1. Len(rest) \in Nat /\ Len(queue) \in Nat /\ Len(out) \in Nat /\ 1 \in 1 .. Len(queue)
  BY LenProperties
<1>2. queue[1][2] \in Nat
  BY <1>1, ElementOfSeq DEF Slots
<1>3. /\ Len(new) = Len(out) + 1
      /\ \A i \in 1 .. Len(out) : new[i] = out[i]
      /\ new[Len(out) + 1] = queue[1][2]
  BY <1>2, AppendProperties
<1> HIDE DEF new
<1>4. ASSUME NEW k \in 1 .. Len(out) + Len(queue)
      PROVE  Number(new, rest, k) = Number(out, queue, k)
  <2>1. CASE k <= Len(out)
    BY <2>1, <1>1, <1>3 DEF Number
  <2>2. CASE k = Len(out) + 1
    <3>1. k <= Len(new) /\ ~(k <= Len(out)) /\ k - Len(out) = 1
      BY <2>2, <1>1, <1>3
    <3> QED
      BY <3>1, <2>2, <1>3 DEF Number
  <2>3. CASE k > Len(out) + 1
    <3>1. ~(k <= Len(new)) /\ ~(k <= Len(out)) /\ k - Len(new) \in 1 .. Len(rest)
          /\ (k - Len(new)) + 1 = k - Len(out)
      BY <2>3, <1>1, <1>3
    <3>2. rest[k - Len(new)] = queue[k - Len(out)]
      BY <3>1
    <3> QED
      BY <3>1, <3>2 DEF Number
  <2> QED
    BY <2>1, <2>2, <2>3, <1>1
<1>5. Len(new) + Len(rest) = Len(out) + Len(queue)
  BY <1>1, <1>3
<1>6. ASSUME NEW k \in 1 .. Len(new) + Len(rest)
      PROVE  /\ Number(new, rest, k) <= n
             /\ k > 1 => Number(new, rest, k - 1) < Number(new, rest, k)
             /\ all => Number(new, rest, k) = k
  <2>1. k \in 1 .. Len(out) + Len(queue) /\ (k > 1 => k - 1 \in 1 .. Len(out) + Len(queue))
    BY <1>1, <1>5
  <2> QED
    BY <2>1, <1>4 DEF Ordered
<1>7. Ordered(new, rest, n, all)
  BY <1>6 DEF Ordered
<1> QED
  BY <1>5, <1>7 DEF new

(* A worker frees an mbuf.                                                  *)
LEMMA FreeApart ==
  ASSUME NEW queue \in Seq(Slots), NEW pool \in SUBSET Mbufs, NEW held \in SUBSET Mbufs,
         NEW spare \in Spares, NEW m \in held,
         Apart(queue, pool, held, spare), Complete(queue, pool, held, spare)
  PROVE  /\ Apart(queue, pool \cup {m}, held \ {m}, spare)
         /\ Complete(queue, pool \cup {m}, held \ {m}, spare)
<1>1. Apart(queue, pool \cup {m}, held \ {m}, spare)
  BY DEF Apart
<1>2. Complete(queue, pool \cup {m}, held \ {m}, spare)
  BY DEF Complete
<1> QED
  BY <1>1, <1>2

(* A packet that is read and thrown away, the ring being full.              *)
LEMMA DropOrdered ==
  ASSUME NEW out \in Seq(Nat), NEW queue \in Seq(Slots), NEW n \in Nat, NEW all \in BOOLEAN,
         Ordered(out, queue, n, all)
  PROVE  Ordered(out, queue, n + 1, all)
<1>1. Len(out) \in Nat /\ Len(queue) \in Nat
  BY LenProperties
<1>2. ASSUME NEW k \in 1 .. Len(out) + Len(queue)
      PROVE  Number(out, queue, k) \in Nat
  <2>1. CASE k <= Len(out)
    BY <2>1, <1>1, ElementOfSeq DEF Number
  <2>2. CASE ~(k <= Len(out))
    <3>1. k - Len(out) \in 1 .. Len(queue)
      BY <2>2, <1>1
    <3>2. queue[k - Len(out)] \in Slots
      BY <3>1, ElementOfSeq
    <3> QED
      BY <2>2, <3>2 DEF Number, Slots
  <2> QED
    BY <2>1, <2>2
<1>3. ASSUME NEW k \in 1 .. Len(out) + Len(queue)
      PROVE  Number(out, queue, k) <= n + 1
  BY <1>2 DEF Ordered
<1> QED
  BY <1>3 DEF Ordered

(* The mbufs of a queue, as many as its places when no two are the same.    *)
LEMMA QueueMbufs ==
  ASSUME NEW queue \in Seq(Slots)
  PROVE  LET in == {queue[i][1] : i \in 1 .. Len(queue)}
         IN  /\ IsFiniteSet(in) /\ Cardinality(in) <= Len(queue)
             /\ (\A i, j \in 1 .. Len(queue) : queue[i][1] = queue[j][1] => i = j)
                  => Cardinality(in) = Len(queue)
<1> DEFINE in == {queue[i][1] : i \in 1 .. Len(queue)}
           f == [i \in 1 .. Len(queue) |-> queue[i][1]]
<1>1. Len(queue) \in Nat
  BY LenProperties
<1>2. IsFiniteSet(1 .. Len(queue)) /\ Cardinality(1 .. Len(queue)) = Len(queue)
  BY <1>1, FS_Interval
<1>3. f \in Surjection(1 .. Len(queue), in)
  BY DEF Surjection
<1>4. (\A i, j \in 1 .. Len(queue) : queue[i][1] = queue[j][1] => i = j) => f \in Injection(1 .. Len(queue), in)
  BY DEF Injection, IsInjective
<1> HIDE DEF f, in
<1>5. /\ IsFiniteSet(in) /\ Cardinality(in) <= Cardinality(1 .. Len(queue))
      /\ Cardinality(in) = Cardinality(1 .. Len(queue)) <=> f \in Injection(1 .. Len(queue), in)
  BY <1>2, <1>3, FS_Surjection
<1>6. /\ IsFiniteSet(in) /\ Cardinality(in) <= Len(queue)
      /\ (\A i, j \in 1 .. Len(queue) : queue[i][1] = queue[j][1] => i = j) => Cardinality(in) = Len(queue)
  BY <1>2, <1>4, <1>5
<1> QED
  BY <1>6 DEF in

(* Where the places of a ring and of a batch are in the queue of both.      *)
LEMMA QueuePlaces ==
  ASSUME NEW s \in Seq(Slots), NEW t \in Seq(Slots), NEW q \in Seq(Slots), q = s \o t
  PROVE  /\ Len(s) \in Nat /\ Len(t) \in Nat /\ Len(q) = Len(s) + Len(t)
         /\ \A i \in 1 .. Len(s) : i \in 1 .. Len(q) /\ s[i] = q[i]
         /\ \A i \in 1 .. Len(t) : i + Len(s) \in 1 .. Len(q) /\ t[i] = q[i + Len(s)]
         /\ \A i \in 1 .. Len(q) : \/ i \in 1 .. Len(s) /\ s[i] = q[i]
                                   \/ i - Len(s) \in 1 .. Len(t) /\ t[i - Len(s)] = q[i]
<1>1. Len(s) \in Nat /\ Len(t) \in Nat
  BY LenProperties
<1>2. Len(q) = Len(s) + Len(t)
  BY ConcatProperties
<1>3. \A i \in 1 .. Len(s) + Len(t) : q[i] = IF i <= Len(s) THEN s[i] ELSE t[i - Len(s)]
  BY ConcatProperties
<1>4. \A i \in 1 .. Len(s) : i \in 1 .. Len(q) /\ s[i] = q[i]
  BY <1>1, <1>2, <1>3
<1>5. ASSUME NEW i \in 1 .. Len(t) PROVE i + Len(s) \in 1 .. Len(q) /\ t[i] = q[i + Len(s)]
  <2>1. i + Len(s) \in 1 .. Len(s) + Len(t) /\ ~(i + Len(s) <= Len(s)) /\ (i + Len(s)) - Len(s) = i
    BY <1>1
  <2> QED
    BY <2>1, <1>2, <1>3
<1>6. ASSUME NEW i \in 1 .. Len(q)
      PROVE  \/ i \in 1 .. Len(s) /\ s[i] = q[i]
             \/ i - Len(s) \in 1 .. Len(t) /\ t[i - Len(s)] = q[i]
  BY <1>1, <1>2, <1>3
<1> QED
  BY <1>1, <1>2, <1>4, <1>5, <1>6

(* The queue without the first of the ring.                                 *)
LEMMA QueueRest ==
  ASSUME NEW s \in Seq(Slots), NEW t \in Seq(Slots), NEW q \in Seq(Slots), q = s \o t, s # << >>
  PROVE  /\ Tail(s) \in Seq(Slots) /\ Len(Tail(s)) <= Len(s)
         /\ Head(s) \in Slots /\ Head(s) = q[1]
         /\ Tail(s) \o t \in Seq(Slots) /\ Len(q) = Len(Tail(s) \o t) + 1
         /\ \A i \in 1 .. Len(Tail(s) \o t) : (Tail(s) \o t)[i] = q[i + 1]
<1> DEFINE r == Tail(s) \o t
<1>1. /\ Tail(s) \in Seq(Slots) /\ Head(s) \in Slots /\ Len(Tail(s)) = Len(s) - 1
      /\ \A i \in 1 .. Len(Tail(s)) : Tail(s)[i] = s[i + 1]
  BY HeadTailProperties
<1>2. Len(s) \in Nat /\ Len(t) \in Nat /\ Len(s) > 0 /\ Head(s) = s[1]
  <2>1. Len(s) \in Nat /\ Len(t) \in Nat
    BY LenProperties
  <2>2. Len(s) # 0
    BY EmptySeq
  <2> QED
    BY <2>1, <2>2
<1>3. Len(q) = Len(s) + Len(t) /\ \A i \in 1 .. Len(s) + Len(t) : q[i] = IF i <= Len(s) THEN s[i] ELSE t[i - Len(s)]
  BY ConcatProperties
<1>4. /\ r \in Seq(Slots) /\ Len(r) = Len(Tail(s)) + Len(t)
      /\ \A i \in 1 .. Len(Tail(s)) + Len(t) : r[i] = IF i <= Len(Tail(s)) THEN Tail(s)[i] ELSE t[i - Len(Tail(s))]
  BY <1>1, ConcatProperties
<1> HIDE DEF r
<1>5. ASSUME NEW i \in 1 .. Len(r) PROVE r[i] = q[i + 1]
  <2>1. i + 1 \in 1 .. Len(s) + Len(t) /\ i \in 1 .. Len(Tail(s)) + Len(t)
    BY <1>1, <1>2, <1>4
  <2>2. CASE i <= Len(Tail(s))
    <3>1. i \in 1 .. Len(Tail(s)) /\ i + 1 <= Len(s)
      BY <1>1, <1>2, <2>2
    <3> QED
      BY <3>1, <2>1, <2>2, <1>1, <1>3, <1>4
  <2>3. CASE ~(i <= Len(Tail(s)))
    <3>1. ~(i + 1 <= Len(s)) /\ i - Len(Tail(s)) = (i + 1) - Len(s)
      BY <1>1, <1>2, <2>3
    <3> QED
      BY <3>1, <2>1, <2>3, <1>3, <1>4
  <2> QED
    BY <2>2, <2>3
<1>6. Len(q) = Len(r) + 1 /\ Head(s) = q[1] /\ Len(Tail(s)) <= Len(s)
  BY <1>1, <1>2, <1>3, <1>4
<1> QED
  BY <1>1, <1>4, <1>5, <1>6 DEF r

(* Moving the first f of the batch to the ring leaves the queue as it was.  *)
LEMMA QueueMoved ==
  ASSUME NEW s \in Seq(Slots), NEW t \in Seq(Slots), NEW f \in 0 .. Len(t)
  PROVE  /\ s \o SubSeq(t, 1, f) \in Seq(Slots) /\ Len(s \o SubSeq(t, 1, f)) = Len(s) + f
         /\ SubSeq(t, f + 1, Len(t)) \in Seq(Slots)
         /\ (s \o SubSeq(t, 1, f)) \o SubSeq(t, f + 1, Len(t)) = s \o t
<1> DEFINE moved == SubSeq(t, 1, f)
           kept == SubSeq(t, f + 1, Len(t))
<1>1. Len(s) \in Nat /\ Len(t) \in Nat
  BY LenProperties
<1>2. f \in Nat /\ f \in Int /\ f + 1 \in Int /\ Len(t) \in Int /\ f <= Len(t)
  BY <1>1
<1>3. \A i \in 1 .. Len(t) : t[i] \in Slots
  BY ElementOfSeq
<1>4. (\A i \in 1 .. f : t[i] \in Slots) /\ (\A i \in f + 1 .. Len(t) : t[i] \in Slots)
  BY <1>1, <1>2, <1>3
<1>5. moved \in Seq(Slots) /\ Len(moved) = f
  <2>1. moved \in Seq(Slots) /\ Len(moved) = IF 1 <= f THEN f - 1 + 1 ELSE 0
    BY <1>2, <1>4, SubSeqProperties
  <2> QED
    BY <2>1, <1>2
<1>6. kept \in Seq(Slots)
  BY <1>2, <1>4, SubSeqProperties
<1>7. moved \o kept = t
  <2>1. 1 \in 1 .. Len(t) + 1 /\ f \in 1 - 1 .. Len(t) /\ Len(t) \in f .. Len(t)
    BY <1>1, <1>2
  <2>2. moved \o kept = SubSeq(t, 1, Len(t))
    BY <2>1, ConcatAdjacentSubSeq
  <2> QED
    BY <2>2, SubSeqFull
<1> HIDE DEF moved, kept
<1>8. (s \o moved) \o kept = s \o t
  <2>1. (s \o moved) \o kept = s \o (moved \o kept)
    BY <1>5, <1>6, ConcatAssociative, SMTT(20)
  <2> QED
    BY <2>1, <1>7
<1>9. s \o moved \in Seq(Slots) /\ Len(s \o moved) = Len(s) + f
  BY <1>5, ConcatProperties
<1> QED
  BY <1>6, <1>8, <1>9 DEF moved, kept

(* The room of a ring, and what fits of a batch.                            *)
LEMMA FitsInRoom ==
  ASSUME NEW s \in Seq(Slots), NEW t \in Seq(Slots), rx.ring = s, Len(s) <= RingSize
  PROVE  Fits(t) \in 0 .. Len(t) /\ Len(s) + Fits(t) <= RingSize
<1>1. Len(s) \in Nat /\ Len(t) \in Nat /\ RingSize \in Nat
  BY LenProperties, HostIfAssumption
<1>2. Fits(t) = IF Len(t) <= RingSize - Len(s) THEN Len(t) ELSE RingSize - Len(s)
  BY DEF Fits, RxRoom
<1> QED
  BY <1>1, <1>2

----------------------------------------------------------------------------
(* The invariant, action by action.                                         *)

LEMMA RxInit == Init => RxInv
<1> SUFFICES ASSUME Init PROVE RxInv
  OBVIOUS
<1>1. PICK m \in Mbufs : rx = [n |-> 0, spare |-> m, pool |-> Mbufs \ {m}, ring |-> << >>,
                               held |-> {}, batch |-> << >>, out |-> << >>]
  BY DEF Init
<1>2. RxType
  BY <1>1 DEF RxType, Spares
<1>3. Queued = << >> /\ Len(Queued) = 0 /\ Len(rx.ring) = 0 /\ Len(rx.out) = 0
  BY <1>1 DEF Queued
<1>5. Apart(Queued, rx.pool, rx.held, rx.spare) /\ Complete(Queued, rx.pool, rx.held, rx.spare)
  BY <1>1, <1>3 DEF Apart, Complete
<1>6. Ordered(rx.out, Queued, rx.n, call.kind = "kni")
  BY <1>3 DEF Ordered
<1> QED
  BY <1>1, <1>2, <1>3, <1>5, <1>6, HostIfAssumption DEF RxInv

(* A queue of ring and batch is a sequence of slots.                        *)
LEMMA QueuedType ==
  ASSUME RxType
  PROVE  /\ rx.ring \in Seq(Slots) /\ rx.batch \in Seq(Slots) /\ Queued \in Seq(Slots)
         /\ rx.pool \in SUBSET Mbufs /\ rx.held \in SUBSET Mbufs /\ rx.spare \in Spares
         /\ rx.n \in Nat /\ rx.out \in Seq(Nat)
         /\ Len(rx.ring) \in Nat /\ Len(rx.batch) \in Nat /\ Len(Queued) = Len(rx.ring) + Len(rx.batch)
         /\ rx.batch = << >> => Queued = rx.ring
<1>1. rx.ring \in Seq(Slots) /\ rx.batch \in Seq(Slots)
      /\ rx.pool \in SUBSET Mbufs /\ rx.held \in SUBSET Mbufs /\ rx.spare \in Spares
      /\ rx.n \in Nat /\ rx.out \in Seq(Nat)
  BY DEF RxType
<1>2. Queued \in Seq(Slots) /\ Len(Queued) = Len(rx.ring) + Len(rx.batch)
  BY <1>1, ConcatProperties DEF Queued
<1>3. Len(rx.ring) \in Nat /\ Len(rx.batch) \in Nat
  BY <1>1, LenProperties
<1>4. rx.batch = << >> => Queued = rx.ring
  BY <1>1, ConcatEmptySeq DEF Queued
<1> QED
  BY <1>1, <1>2, <1>3, <1>4

(* tap_rx_to_ring: the packet goes to the ring in the spare mbuf and the    *)
(* pool gives another or none, or the ring is full and the packet is        *)
(* dropped.                                                                 *)
LEMMA TapStep ==
  ASSUME RxInv, tap_rx_to_ring PROVE RxInv'
<1>1. RxType /\ call' = call /\ call.kind = "tap" /\ rx.batch = << >>
  BY DEF RxInv, tap_rx_to_ring, LoopRest
<1>2. /\ rx.ring \in Seq(Slots) /\ rx.batch \in Seq(Slots) /\ Queued \in Seq(Slots)
      /\ rx.pool \in SUBSET Mbufs /\ rx.held \in SUBSET Mbufs /\ rx.spare \in Spares
      /\ rx.n \in Nat /\ rx.out \in Seq(Nat)
      /\ Len(rx.ring) \in Nat /\ Queued = rx.ring
  BY <1>1, QueuedType
<1>3. CASE UNCHANGED rx
  BY <1>1, <1>3 DEF RxInv, RxType, Queued
<1>4. CASE /\ rx.spare # NULL /\ RxRoom = 0
           /\ rx' = [rx EXCEPT !.n = @ + 1]
  <2>1. /\ rx'.n = rx.n + 1 /\ rx'.spare = rx.spare /\ rx'.pool = rx.pool /\ rx'.ring = rx.ring
        /\ rx'.held = rx.held /\ rx'.batch = rx.batch /\ rx'.out = rx.out
    BY <1>1, <1>4 DEF RxType
  <2>2. RxType'
    <3>1. rx' = [n |-> rx.n + 1, spare |-> rx.spare, pool |-> rx.pool, ring |-> rx.ring,
                 held |-> rx.held, batch |-> rx.batch, out |-> rx.out]
      BY <1>1, <1>4 DEF RxType
    <3> QED
      BY <1>2, <3>1 DEF RxType
  <2>3. Queued' = Queued
    BY <2>1 DEF Queued
  <2>4. Ordered(rx.out, Queued, rx.n + 1, call.kind = "kni")
    BY <1>2, DropOrdered DEF RxInv
  <2> QED
    BY <1>1, <2>1, <2>2, <2>3, <2>4 DEF RxInv
<1>5. CASE /\ rx.spare # NULL /\ RxRoom # 0
           /\ \E m \in IF rx.pool = {} THEN {NULL} ELSE rx.pool :
                rx' = [rx EXCEPT !.n = @ + 1, !.spare = m, !.pool = @ \ {m},
                                 !.ring = Append(@, <<rx.spare, rx.n + 1>>)]
  <2>1. Len(rx.ring) < RingSize
    BY <1>2, <1>5, HostIfAssumption DEF RxInv, RxRoom
  <2>2. rx.spare \in Mbufs
    BY <1>2, <1>5 DEF Spares
  <2>3. PICK m \in IF rx.pool = {} THEN {NULL} ELSE rx.pool :
          rx' = [rx EXCEPT !.n = @ + 1, !.spare = m, !.pool = @ \ {m},
                           !.ring = Append(@, <<rx.spare, rx.n + 1>>)]
    BY <1>5
  <2>4. /\ rx'.n = rx.n + 1 /\ rx'.spare = m /\ rx'.pool = rx.pool \ {m}
        /\ rx'.ring = Append(rx.ring, <<rx.spare, rx.n + 1>>)
        /\ rx'.held = rx.held /\ rx'.batch = rx.batch /\ rx'.out = rx.out
    BY <1>1, <2>3 DEF RxType
  <2>5. Append(rx.ring, <<rx.spare, rx.n + 1>>) \in Seq(Slots)
        /\ Len(Append(rx.ring, <<rx.spare, rx.n + 1>>)) = Len(rx.ring) + 1
    BY <1>2, <2>2, AppendProperties DEF Slots
  <2>6. RxType'
    <3>1. rx' = [n |-> rx.n + 1, spare |-> m, pool |-> rx.pool \ {m},
                 ring |-> Append(rx.ring, <<rx.spare, rx.n + 1>>),
                 held |-> rx.held, batch |-> rx.batch, out |-> rx.out]
      BY <1>1, <2>3 DEF RxType
    <3>2. m \in Spares
      BY <1>2 DEF Spares
    <3> QED
      BY <1>2, <2>5, <3>1, <3>2 DEF RxType
  <2>7. Queued' = Append(Queued, <<rx.spare, rx.n + 1>>)
    BY <1>1, <1>2, <2>4, <2>5, ConcatEmptySeq DEF Queued
  <2>8. /\ Apart(Append(Queued, <<rx.spare, rx.n + 1>>), rx.pool \ {m}, rx.held, m)
        /\ Complete(Append(Queued, <<rx.spare, rx.n + 1>>), rx.pool \ {m}, rx.held, m)
    <3>1. rx.n + 1 \in Nat /\ Apart(Queued, rx.pool, rx.held, rx.spare)
          /\ Complete(Queued, rx.pool, rx.held, rx.spare)
      BY <1>2 DEF RxInv
    <3>2. PICK pool \in SUBSET Mbufs, spare \in Mbufs, queue \in Seq(Slots), held \in SUBSET Mbufs, k \in Nat :
            pool = rx.pool /\ spare = rx.spare /\ queue = Queued /\ held = rx.held /\ k = rx.n + 1
      BY <1>2, <2>2, <3>1, Zenon
    <3>3. m \in IF pool = {} THEN {NULL} ELSE pool
      BY <3>2
    <3>4. Apart(queue, pool, held, spare) /\ Complete(queue, pool, held, spare)
      BY <3>1, <3>2
    <3>5. /\ Apart(Append(queue, <<spare, k>>), pool \ {m}, held, m)
          /\ Complete(Append(queue, <<spare, k>>), pool \ {m}, held, m)
      BY ONLY <3>3, <3>4, AppendApart
    <3> QED
      BY <3>2, <3>5
  <2>9. Ordered(rx.out, Append(Queued, <<rx.spare, rx.n + 1>>), rx.n + 1, call.kind = "kni")
    BY <1>1, <1>2, <2>2, AppendOrdered DEF RxInv
  <2>10. Len(rx'.ring) <= RingSize
    BY <1>2, <2>1, <2>4, <2>5, HostIfAssumption
  <2> QED
    BY <1>1, <2>4, <2>6, <2>7, <2>8, <2>9, <2>10 DEF RxInv
<1> QED
  BY <1>3, <1>4, <1>5 DEF tap_rx_to_ring

(* kni_rx_to_ring: two packets, in mbufs of the pool.                       *)
LEMMA KniStep ==
  ASSUME RxInv, kni_rx_to_ring PROVE RxInv'
<1>1. RxType /\ call' = call /\ call.kind = "kni" /\ rx.batch = << >>
  BY DEF RxInv, kni_rx_to_ring, LoopRest
<1>2. /\ rx.ring \in Seq(Slots) /\ rx.batch \in Seq(Slots) /\ Queued \in Seq(Slots)
      /\ rx.pool \in SUBSET Mbufs /\ rx.held \in SUBSET Mbufs /\ rx.spare \in Spares
      /\ rx.n \in Nat /\ rx.out \in Seq(Nat)
      /\ Len(rx.ring) \in Nat /\ Queued = rx.ring
  BY <1>1, QueuedType
<1>3. PICK m1 \in rx.pool, m2 \in rx.pool :
        /\ m1 # m2
        /\ rx' = [rx EXCEPT !.n = @ + 2, !.pool = @ \ {m1, m2},
                            !.batch = <<<<m1, rx.n + 1>>, <<m2, rx.n + 2>>>>]
  BY DEF kni_rx_to_ring
<1>4. /\ rx'.n = rx.n + 2 /\ rx'.spare = rx.spare /\ rx'.pool = (rx.pool \ {m1}) \ {m2}
      /\ rx'.ring = rx.ring /\ rx'.batch = <<<<m1, rx.n + 1>>, <<m2, rx.n + 2>>>>
      /\ rx'.held = rx.held /\ rx'.out = rx.out
  BY <1>1, <1>3 DEF RxType
<1>5. <<m1, rx.n + 1>> \in Slots /\ <<m2, (rx.n + 1) + 1>> \in Slots /\ rx.n + 2 = (rx.n + 1) + 1
  BY <1>2 DEF Slots
<1>6. RxType'
  <2>1. <<<<m1, rx.n + 1>>, <<m2, rx.n + 2>>>> \in Seq(Slots)
    BY <1>5
  <2> QED
    <3>1. rx' = [n |-> rx.n + 2, spare |-> rx.spare, pool |-> rx.pool \ {m1, m2}, ring |-> rx.ring,
                 held |-> rx.held, batch |-> <<<<m1, rx.n + 1>>, <<m2, rx.n + 2>>>>, out |-> rx.out]
      BY <1>1, <1>3 DEF RxType
    <3> QED
      BY <1>2, <2>1, <3>1 DEF RxType
<1> DEFINE q1 == Append(Queued, <<m1, rx.n + 1>>)
           q2 == Append(q1, <<m2, (rx.n + 1) + 1>>)
<1>7. q1 \in Seq(Slots) /\ q2 \in Seq(Slots)
  BY <1>2, <1>5, AppendProperties
<1>8. Queued' = q2
  <2>1. Queued' = Queued \o <<<<m1, rx.n + 1>>, <<m2, (rx.n + 1) + 1>>>>
    BY <1>2, <1>4, <1>5 DEF Queued
  <2>2. <<<<m1, rx.n + 1>>, <<m2, (rx.n + 1) + 1>>>> = <<<<m1, rx.n + 1>>>> \o <<<<m2, (rx.n + 1) + 1>>>>
    OBVIOUS
  <2>3. <<<<m1, rx.n + 1>>>> \in Seq(Slots) /\ <<<<m2, (rx.n + 1) + 1>>>> \in Seq(Slots)
    BY <1>5
  <2>4. Queued \o <<<<m1, rx.n + 1>>>> = q1 /\ q1 \o <<<<m2, (rx.n + 1) + 1>>>> = q2
    BY <1>2, <1>5, <1>7, AppendIsConcat
  <2> QED
    <3>1. (Queued \o <<<<m1, rx.n + 1>>>>) \o <<<<m2, (rx.n + 1) + 1>>>>
             = Queued \o (<<<<m1, rx.n + 1>>>> \o <<<<m2, (rx.n + 1) + 1>>>>)
      BY <1>2, <2>3, ConcatAssociative
    <3> HIDE DEF q1, q2
    <3> QED
      BY <2>1, <2>2, <2>4, <3>1
<1>9. Apart(q1, rx.pool \ {m1}, rx.held, rx.spare) /\ Complete(q1, rx.pool \ {m1}, rx.held, rx.spare)
  <2>1. rx.n + 1 \in Nat /\ Apart(Queued, rx.pool, rx.held, rx.spare)
        /\ Complete(Queued, rx.pool, rx.held, rx.spare)
    BY <1>2 DEF RxInv
  <2> QED
    BY <1>2, <2>1, PoolApart
<1>10. Ordered(rx.out, q1, rx.n + 1, call.kind = "kni") /\ Len(rx.out) + Len(q1) = rx.n + 1
  BY <1>1, <1>2, AppendOrdered DEF RxInv
<1> HIDE DEF q1
<1>11. m2 \in rx.pool \ {m1} /\ rx.pool \ {m1} \in SUBSET Mbufs /\ (rx.n + 1) + 1 \in Nat /\ rx.n + 1 \in Nat
  BY <1>2, <1>3
<1>12. Apart(q2, (rx.pool \ {m1}) \ {m2}, rx.held, rx.spare) /\ Complete(q2, (rx.pool \ {m1}) \ {m2}, rx.held, rx.spare)
  BY <1>2, <1>7, <1>9, <1>11, PoolApart
<1>13. Ordered(rx.out, q2, (rx.n + 1) + 1, call.kind = "kni") /\ Len(rx.out) + Len(q2) = (rx.n + 1) + 1
  BY <1>1, <1>2, <1>7, <1>10, <1>11, AppendOrdered, ZenonT(30)
<1> HIDE DEF q2
<1> QED
  BY <1>1, <1>4, <1>5, <1>6, <1>8, <1>12, <1>13 DEF RxInv

(* KniRetry: what the ring takes of the batch moves, and nothing else.      *)
LEMMA RetryStep ==
  ASSUME RxInv, KniRetry PROVE RxInv'
<1> DEFINE f == Fits(rx.batch)
           moved == rx.ring \o SubSeq(rx.batch, 1, f)
           kept == SubSeq(rx.batch, f + 1, Len(rx.batch))
<1>1. RxType /\ call' = call /\ rx.batch # << >>
      /\ rx' = [rx EXCEPT !.ring = @ \o SubSeq(rx.batch, 1, Fits(rx.batch)),
                          !.batch = SubSeq(@, Fits(@) + 1, Len(@))]
  BY DEF RxInv, KniRetry, LoopRest
<1>2. /\ rx.ring \in Seq(Slots) /\ rx.batch \in Seq(Slots) /\ Queued \in Seq(Slots)
      /\ rx.pool \in SUBSET Mbufs /\ rx.held \in SUBSET Mbufs /\ rx.spare \in Spares
      /\ rx.n \in Nat /\ rx.out \in Seq(Nat)
  BY <1>1, QueuedType
<1>3. f \in 0 .. Len(rx.batch) /\ Len(rx.ring) + f <= RingSize
  BY <1>2, FitsInRoom DEF RxInv
<1>4. rx' = [n |-> rx.n, spare |-> rx.spare, pool |-> rx.pool, ring |-> moved,
             held |-> rx.held, batch |-> kept, out |-> rx.out]
  BY <1>1 DEF RxType
<1> HIDE DEF f
<1>5. moved \in Seq(Slots) /\ Len(moved) = Len(rx.ring) + f /\ kept \in Seq(Slots)
      /\ moved \o kept = rx.ring \o rx.batch
  BY <1>2, <1>3, QueueMoved
<1> HIDE DEF moved, kept
<1>6. Queued' = Queued
  BY <1>4, <1>5 DEF Queued
<1>7. RxType'
  BY <1>2, <1>4, <1>5 DEF RxType
<1>8. call.kind = "kni"
  BY <1>1 DEF RxInv
<1>9. /\ rx'.n = rx.n /\ rx'.spare = rx.spare /\ rx'.pool = rx.pool /\ rx'.held = rx.held
      /\ rx'.out = rx.out /\ rx'.ring = moved
  BY <1>4
<1>10. Len(rx'.ring) <= RingSize
  BY <1>3, <1>5, <1>9
<1> QED
  BY <1>1, <1>6, <1>7, <1>8, <1>9, <1>10 DEF RxInv

(* A worker takes the first of the ring.                                    *)
LEMMA TakesStep ==
  ASSUME RxInv, WorkerTakes PROVE RxInv'
<1>1. RxType /\ call' = call /\ rx.ring # << >> /\ Cardinality(rx.held) < MaxHeld
      /\ rx' = [rx EXCEPT !.ring = Tail(@), !.held = @ \cup {Head(rx.ring)[1]},
                          !.out = Append(@, Head(rx.ring)[2])]
  BY DEF RxInv, WorkerTakes, LoopRest
<1>2. /\ rx.ring \in Seq(Slots) /\ rx.batch \in Seq(Slots) /\ Queued \in Seq(Slots)
      /\ rx.pool \in SUBSET Mbufs /\ rx.held \in SUBSET Mbufs /\ rx.spare \in Spares
      /\ rx.n \in Nat /\ rx.out \in Seq(Nat) /\ Len(rx.ring) \in Nat
  BY <1>1, QueuedType
<1> DEFINE rest == Tail(rx.ring) \o rx.batch
<1>3. Queued = rx.ring \o rx.batch
  BY DEF Queued
<1>4. /\ Tail(rx.ring) \in Seq(Slots) /\ Len(Tail(rx.ring)) <= Len(rx.ring)
      /\ Head(rx.ring) \in Slots /\ Head(rx.ring) = Queued[1]
      /\ rest \in Seq(Slots) /\ Len(Queued) = Len(rest) + 1
      /\ \A i \in 1 .. Len(rest) : rest[i] = Queued[i + 1]
  <2>1. PICK ring \in Seq(Slots), batch \in Seq(Slots), q \in Seq(Slots) :
          ring = rx.ring /\ batch = rx.batch /\ q = Queued
    BY <1>2, Zenon
  <2>2. q = ring \o batch /\ ring # << >>
    BY <1>1, <1>3, <2>1
  <2>3. /\ Tail(ring) \in Seq(Slots) /\ Len(Tail(ring)) <= Len(ring)
        /\ Head(ring) \in Slots /\ Head(ring) = q[1]
        /\ Tail(ring) \o batch \in Seq(Slots) /\ Len(q) = Len(Tail(ring) \o batch) + 1
        /\ \A i \in 1 .. Len(Tail(ring) \o batch) : (Tail(ring) \o batch)[i] = q[i + 1]
    BY <2>2, QueueRest
  <2> QED
    BY <2>1, <2>3, Zenon
<1>5. Queued[1][1] \in Mbufs /\ Queued[1][2] \in Nat
  BY <1>4 DEF Slots
<1>6. rx' = [n |-> rx.n, spare |-> rx.spare, pool |-> rx.pool, ring |-> Tail(rx.ring),
             held |-> rx.held \cup {Queued[1][1]}, batch |-> rx.batch, out |-> Append(rx.out, Queued[1][2])]
  BY <1>1, <1>4 DEF RxType
<1>7. Append(rx.out, Queued[1][2]) \in Seq(Nat)
  BY <1>2, <1>5, AppendProperties
<1>8. RxType'
  BY <1>2, <1>4, <1>5, <1>6, <1>7 DEF RxType
<1>9. Queued' = rest
  BY <1>6 DEF Queued
<1> HIDE DEF rest
<1>10. /\ Apart(rest, rx.pool, rx.held \cup {Queued[1][1]}, rx.spare)
       /\ Complete(rest, rx.pool, rx.held \cup {Queued[1][1]}, rx.spare)
  BY <1>2, <1>4, TakeApart DEF RxInv
<1>11. /\ Ordered(Append(rx.out, Queued[1][2]), rest, rx.n, call.kind = "kni")
       /\ Len(Append(rx.out, Queued[1][2])) + Len(rest) = Len(rx.out) + Len(Queued)
  BY <1>2, <1>4, TakeOrdered DEF RxInv
<1>13. /\ rx'.n = rx.n /\ rx'.spare = rx.spare /\ rx'.pool = rx.pool /\ rx'.ring = Tail(rx.ring)
       /\ rx'.held = rx.held \cup {Queued[1][1]} /\ rx'.batch = rx.batch
       /\ rx'.out = Append(rx.out, Queued[1][2])
  BY <1>6
<1>14. Len(rx'.ring) <= RingSize
  <2>1. Len(Tail(rx.ring)) \in Nat
    BY <1>4, LenProperties
  <2> QED
    BY <1>2, <1>4, <1>13, <2>1, HostIfAssumption DEF RxInv
<1> QED
  BY <1>1, <1>8, <1>9, <1>10, <1>11, <1>13, <1>14 DEF RxInv

(* A worker frees an mbuf.                                                  *)
LEMMA FreesStep ==
  ASSUME RxInv, WorkerFrees PROVE RxInv'
<1>1. RxType /\ call' = call
  BY DEF RxInv, WorkerFrees, LoopRest
<1>2. /\ rx.ring \in Seq(Slots) /\ rx.batch \in Seq(Slots) /\ Queued \in Seq(Slots)
      /\ rx.pool \in SUBSET Mbufs /\ rx.held \in SUBSET Mbufs /\ rx.spare \in Spares
      /\ rx.n \in Nat /\ rx.out \in Seq(Nat)
  BY <1>1, QueuedType
<1>3. PICK m \in rx.held : rx' = [rx EXCEPT !.held = @ \ {m}, !.pool = @ \cup {m}]
  BY DEF WorkerFrees
<1>4. rx' = [n |-> rx.n, spare |-> rx.spare, pool |-> rx.pool \cup {m}, ring |-> rx.ring,
             held |-> rx.held \ {m}, batch |-> rx.batch, out |-> rx.out]
  BY <1>1, <1>3 DEF RxType
<1>5. rx.pool \cup {m} \in SUBSET Mbufs /\ rx.held \ {m} \in SUBSET Mbufs
  BY <1>2
<1>6. RxType'
  BY <1>2, <1>4, <1>5 DEF RxType
<1>7. Queued' = Queued
  BY <1>4 DEF Queued
<1>8. /\ Apart(Queued, rx.pool \cup {m}, rx.held \ {m}, rx.spare)
      /\ Complete(Queued, rx.pool \cup {m}, rx.held \ {m}, rx.spare)
  BY <1>2, FreeApart DEF RxInv
<1>10. /\ rx'.n = rx.n /\ rx'.spare = rx.spare /\ rx'.pool = rx.pool \cup {m} /\ rx'.ring = rx.ring
       /\ rx'.held = rx.held \ {m} /\ rx'.batch = rx.batch /\ rx'.out = rx.out
  BY <1>4
<1> QED
  BY <1>1, <1>6, <1>7, <1>8, <1>10 DEF RxInv

(* No step of a set-up function touches the packet loop or its arguments.   *)
LEMMA SetupKeeps == Setup \/ KniDown => UNCHANGED <<call, rx>>
  BY DEF Setup, KniDown, MakeInterface, Socket, Close, ioctl, Send, send_to_socket, tap_send_to_socket,
         netlink_send_to_socket, rte_kni_handle_request, KniIsDown, KniGetFlags, KniSetFlags, Rest, KniRest

(* What the packet loops keep, whatever the ring, the pool and the workers: *)
(* every mbuf has one owner, and the queue to the workers holds the host's  *)
(* packets in order.                                                        *)
THEOREM HostRxInvariant == Spec => []RxInv
<1>1. Init => RxInv
  BY RxInit
<1>2. RxInv /\ [Next]_vars => RxInv'
  <2> SUFFICES ASSUME RxInv, [Next]_vars PROVE RxInv'
    OBVIOUS
  <2>1. CASE UNCHANGED <<call, rx>>
    BY <2>1 DEF RxInv, RxType, Queued
  <2>2. CASE Setup \/ KniDown
    BY <2>1, <2>2, SetupKeeps
  <2>3. CASE tap_rx_to_ring
    BY <2>3, TapStep
  <2>4. CASE kni_rx_to_ring
    BY <2>4, KniStep
  <2>5. CASE KniRetry
    BY <2>5, RetryStep
  <2>6. CASE WorkerTakes
    BY <2>6, TakesStep
  <2>7. CASE WorkerFrees
    BY <2>7, FreesStep
  <2>8. CASE UNCHANGED vars
    BY <2>1, <2>8 DEF vars
  <2> QED
    BY <2>2, <2>3, <2>4, <2>5, <2>6, <2>7, <2>8 DEF Next, Worker
<1> QED
  BY <1>1, <1>2, PTL DEF Spec

(* MbufOwned, of values.                                                    *)
OwnedOnce(ring, batch, pool, held, spare) ==
    LET In(seq) == {seq[i][1] : i \in 1 .. Len(seq)}
        places == <<pool, {spare} \ {NULL}, In(ring), In(batch), held>>
    IN  /\ \A i, j \in 1 .. 5 : i # j => places[i] \cap places[j] = {}
        /\ Cardinality(In(ring)) = Len(ring)
        /\ UNION {places[i] : i \in 1 .. 5} = Mbufs

(* Every mbuf has one owner when the queue, the pool, the spare and what    *)
(* the workers hold are apart and complete.                                 *)
LEMMA OneOwner ==
  ASSUME NEW ring \in Seq(Slots), NEW batch \in Seq(Slots), NEW pool \in SUBSET Mbufs,
         NEW held \in SUBSET Mbufs, NEW spare \in Spares,
         Apart(ring \o batch, pool, held, spare), Complete(ring \o batch, pool, held, spare)
  PROVE  OwnedOnce(ring, batch, pool, held, spare)
<1> DEFINE queue == ring \o batch
           In(seq) == {seq[i][1] : i \in 1 .. Len(seq)}
           places == <<pool, {spare} \ {NULL}, In(ring), In(batch), held>>
<1>1. queue \in Seq(Slots) /\ Apart(queue, pool, held, spare) /\ Complete(queue, pool, held, spare)
  BY ConcatProperties
<1>2. /\ Len(ring) \in Nat /\ Len(batch) \in Nat
      /\ \A i \in 1 .. Len(ring) : i \in 1 .. Len(queue) /\ ring[i] = queue[i]
      /\ \A i \in 1 .. Len(batch) : i + Len(ring) \in 1 .. Len(queue) /\ batch[i] = queue[i + Len(ring)]
      /\ \A i \in 1 .. Len(queue) : \/ i \in 1 .. Len(ring) /\ ring[i] = queue[i]
                                    \/ i - Len(ring) \in 1 .. Len(batch) /\ batch[i - Len(ring)] = queue[i]
  BY <1>1, QueuePlaces
<1> HIDE DEF queue
<1>3. ASSUME NEW i \in 1 .. Len(ring), NEW j \in 1 .. Len(batch), ring[i][1] = batch[j][1]
      PROVE  FALSE
  <2>1. i \in 1 .. Len(queue) /\ j + Len(ring) \in 1 .. Len(queue) /\ queue[i][1] = queue[j + Len(ring)][1]
    BY <1>2, <1>3
  <2>2. i = j + Len(ring)
    BY <1>1, <2>1 DEF Apart
  <2> QED
    BY <2>2, <1>2
<1>4. \A i \in 1 .. Len(queue) :
        queue[i][1] \in Mbufs /\ queue[i][1] \notin pool /\ queue[i][1] \notin held /\ queue[i][1] # spare
  <2>1. \A i \in 1 .. Len(queue) : queue[i] \in Slots
    BY <1>1, ElementOfSeq
  <2> QED
    BY <1>1, <2>1 DEF Apart, Slots
<1>5. \A b \in In(ring) : b \in Mbufs /\ b \notin pool /\ b \notin held /\ b # spare
  BY <1>2, <1>4
<1>6. \A b \in In(batch) : b \in Mbufs /\ b \notin pool /\ b \notin held /\ b # spare
  BY <1>2, <1>4
<1>7. In(ring) \cap In(batch) = {}
  BY <1>3
<1>8. Cardinality(In(ring)) = Len(ring)
  <2>1. \A i, j \in 1 .. Len(ring) : ring[i][1] = ring[j][1] => i = j
    BY <1>1, <1>2 DEF Apart
  <2> QED
    BY <2>1, QueueMbufs
<1>9. ASSUME NEW m \in Mbufs, m \notin pool, m # spare, m \notin held
      PROVE  m \in In(ring) \/ m \in In(batch)
  <2>1. PICK i \in 1 .. Len(queue) : queue[i][1] = m
    BY <1>1, <1>9 DEF Complete
  <2> QED
    BY <2>1, <1>2
<1> HIDE DEF In
<1>10. spare \in Mbufs \/ spare = NULL
  BY DEF Spares
<1>14. NULL \notin Mbufs
  BY HostIfAssumption DEF NULL
<1>11. spare \notin pool /\ spare \notin held /\ pool \cap held = {}
  BY <1>1 DEF Apart
<1>12. \A i, j \in 1 .. 5 : i # j => places[i] \cap places[j] = {}
  BY <1>5, <1>6, <1>7, <1>11
<1>13. UNION {places[i] : i \in 1 .. 5} = Mbufs
  <2>1. \A i \in 1 .. 5 : places[i] \in SUBSET Mbufs
    BY <1>5, <1>6, <1>10
  <2>2. ASSUME NEW m \in Mbufs PROVE \E i \in 1 .. 5 : m \in places[i]
    <3>1. 1 \in 1 .. 5 /\ 2 \in 1 .. 5 /\ 3 \in 1 .. 5 /\ 4 \in 1 .. 5 /\ 5 \in 1 .. 5
      OBVIOUS
    <3>2. m \in places[1] \/ m \in places[2] \/ m \in places[3] \/ m \in places[4] \/ m \in places[5]
      BY <1>9, <1>14
    <3> QED
      BY <3>1, <3>2
  <2> HIDE DEF places
  <2> QED
    BY <2>1, <2>2
<1> QED
  BY <1>8, <1>12, <1>13 DEF In, OwnedOnce

(* MbufOwned of every state the loops reach, whatever the sizes of the ring *)
(* and of the pool: no mbuf is lost and none has two owners, the turn that  *)
(* gets no new spare from an empty pool included.                           *)
THEOREM HostMbufOwned == Spec => []MbufOwned
<1>1. RxInv => MbufOwned
  <2> SUFFICES ASSUME RxInv PROVE MbufOwned
    OBVIOUS
  <2>1. /\ rx.ring \in Seq(Slots) /\ rx.batch \in Seq(Slots) /\ Queued \in Seq(Slots)
        /\ rx.pool \in SUBSET Mbufs /\ rx.held \in SUBSET Mbufs /\ rx.spare \in Spares
    BY QueuedType DEF RxInv
  <2>2. PICK ring \in Seq(Slots), batch \in Seq(Slots), pool \in SUBSET Mbufs, held \in SUBSET Mbufs, spare \in Spares :
          ring = rx.ring /\ batch = rx.batch /\ pool = rx.pool /\ held = rx.held /\ spare = rx.spare
    BY <2>1, Zenon
  <2>3. Apart(ring \o batch, pool, held, spare) /\ Complete(ring \o batch, pool, held, spare)
    BY <2>2, Zenon DEF RxInv, Queued
  <2>4. OwnedOnce(ring, batch, pool, held, spare)
    BY <2>3, OneOwner
  <2>5. OwnedOnce(rx.ring, rx.batch, rx.pool, rx.held, rx.spare)
    BY <2>2, <2>4
  <2> QED
    BY <2>5 DEF MbufOwned, OwnedOnce
<1>2. Spec => []RxInv
  BY HostRxInvariant
<1> QED
  BY <1>1, <1>2, PTL

(* HostInOrder, of values.                                                  *)
InOrder(out, all, kni_, n) ==
    LET line == out \o [i \in 1 .. Len(all) |-> all[i][2]]
    IN  \A i \in 1 .. Len(line) :
          /\ i > 1 => line[i - 1] < line[i]
          /\ kni_ => line[i] = i /\ Len(line) = n

LEMMA OrderedInOrder ==
  ASSUME NEW out \in Seq(Nat), NEW queue \in Seq(Slots), NEW n \in Nat, NEW all \in BOOLEAN,
         Ordered(out, queue, n, all), all => Len(out) + Len(queue) = n
  PROVE  InOrder(out, queue, all, n)
<1> DEFINE numbers == [i \in 1 .. Len(queue) |-> queue[i][2]]
           line == out \o numbers
<1>1. Len(out) \in Nat /\ Len(queue) \in Nat
  BY LenProperties
<1>2. \A i \in 1 .. Len(queue) : queue[i][2] \in Nat
  <2>1. \A i \in 1 .. Len(queue) : queue[i] \in Slots
    BY ElementOfSeq
  <2> QED
    BY <2>1 DEF Slots
<1>3. numbers \in Seq(Nat) /\ Len(numbers) = Len(queue) /\ \A i \in 1 .. Len(queue) : numbers[i] = queue[i][2]
  BY <1>1, <1>2
<1> HIDE DEF numbers
<1>4. /\ Len(line) = Len(out) + Len(queue)
      /\ \A i \in 1 .. Len(out) + Len(queue) : line[i] = IF i <= Len(out) THEN out[i] ELSE numbers[i - Len(out)]
  <2>1. /\ Len(line) = Len(out) + Len(numbers)
        /\ \A i \in 1 .. Len(out) + Len(numbers) : line[i] = IF i <= Len(out) THEN out[i] ELSE numbers[i - Len(out)]
    <3>1. PICK t \in Seq(Nat) : t = numbers
      BY <1>3
    <3>2. /\ Len(out \o t) = Len(out) + Len(t)
          /\ \A i \in 1 .. Len(out) + Len(t) : (out \o t)[i] = IF i <= Len(out) THEN out[i] ELSE t[i - Len(out)]
      BY ConcatProperties
    <3> QED
      BY <3>1, <3>2, Zenon
  <2> QED
    BY <1>3, <2>1
<1> HIDE DEF line
<1>5. ASSUME NEW i \in 1 .. Len(out) + Len(queue) PROVE line[i] = Number(out, queue, i)
  <2>1. CASE i <= Len(out)
    BY <2>1, <1>4 DEF Number
  <2>2. CASE ~(i <= Len(out))
    <3>1. i - Len(out) \in 1 .. Len(queue)
      BY <2>2, <1>1
    <3> QED
      BY <2>2, <3>1, <1>3, <1>4 DEF Number
  <2> QED
    BY <2>1, <2>2
<1>6. ASSUME NEW i \in 1 .. Len(line)
      PROVE  /\ i > 1 => line[i - 1] < line[i]
             /\ all => line[i] = i /\ Len(line) = n
  <2>1. i \in 1 .. Len(out) + Len(queue) /\ (i > 1 => i - 1 \in 1 .. Len(out) + Len(queue))
    BY <1>1, <1>4
  <2> QED
    BY <2>1, <1>4, <1>5 DEF Ordered
<1> QED
  BY <1>6 DEF line, numbers, InOrder

(* HostInOrder of every state the loops reach: a full ring, a retry and a   *)
(* dropped packet never put one packet of the host before an earlier one,   *)
(* and of a KNI device none is missing.                                     *)
THEOREM HostPacketsInOrder == Spec => []HostInOrder
<1>1. RxInv => HostInOrder
  <2> SUFFICES ASSUME RxInv PROVE HostInOrder
    OBVIOUS
  <2>1. Queued \in Seq(Slots) /\ rx.out \in Seq(Nat) /\ rx.n \in Nat
    BY QueuedType DEF RxInv
  <2>2. InOrder(rx.out, Queued, call.kind = "kni", rx.n)
    BY <2>1, OrderedInOrder DEF RxInv
  <2> QED
    BY <2>2 DEF HostInOrder, InOrder, Queued
<1>2. Spec => []RxInv
  BY HostRxInvariant
<1> QED
  BY <1>1, <1>2, PTL

----------------------------------------------------------------------------
(* The set-up functions, and the system calls they are made of.             *)

SysOps == {"open", "TUNSETIFF", "socket", "close", "rte_kni_alloc", "kni_loop"}

GetReqs == {"SIOGIFINDEX", "SIOCGIFFLAGS"}

AddrReqs == {"SIOCSIFADDR", "SIOCSIFDSTADDR", "SIOCSIFBRDADDR", "SIOCSIFNETMASK",
             "SIOCSIFHWADDR", "SIOCSIFMTU", "SIOCSIFFLAGS"}

LinkFns == {"add_ipv4", "add_ipv6", "add_route", "tap_netlink_add_ipv4", "tap_netlink_add_ipv6",
            "tap_netlink_add_route", "netlink_add_ip", "netlink_add_route"}

(* The netlink requests of a set-up function, and all its system calls.     *)
Requests == [op : {"netlink"}, req : LinkFns, member : {"none"}, val : Int \X Int \X Int]

Steps ==
    [op : SysOps, req : SysOps, member : {"none"}, val : {0}]
    \cup [op : {"ioctl"}, req : GetReqs, member : {"none"}, val : {0}]
    \cup [op : {"ioctl"}, req : AddrReqs, member : {"addr", "hwaddr", "mtu", "flags"}, val : Int]
    \cup Requests

Left(op) == \E i \in 1 .. Len(prog) : prog[i].op = op

LEMMA CallType ==
  ASSUME NEW c \in Calls
  PROVE  /\ c.mac \in Nat /\ c.mtu \in Nat /\ c.port \in Nat /\ c.ipv4 \in Nat /\ c.loopback \in Nat
         /\ c.ipv6 \in Nat /\ c.gw \in Nat /\ c.routes \in Seq(Nat) /\ c.rw \in BOOLEAN
  BY CallsAssumption

----------------------------------------------------------------------------
(* The requests of a KNI device and their answers.                          *)

KniStates == [pc : {"handle", "get", "set"}, up : BOOLEAN, req : Seq(BOOLEAN), resp : Seq(BOOLEAN),
              downs : Nat, waits : BOOLEAN]

KniType == kni \in KniStates /\ port \in [started : BOOLEAN, fails : Nat]

(* Requests and answers under way: one, or as many as somebody else asked   *)
(* for besides; and when a turn of the loop finds no answer, there was none *)
(* of its own.                                                              *)
Lags(pc, req, resp, downs) ==
    /\ Len(req) + Len(resp) <= 1 + downs
    /\ pc # "handle" /\ resp = << >> => Len(req) <= downs

(* While nobody takes the interface down, the answer under way is that of   *)
(* the last start of the port.                                              *)
Agrees(up, req, resp, waits, started) ==
    /\ ~waits
    /\ \A i \in 1 .. Len(req) : req[i] = TRUE
    /\ resp = << >> \/ resp = <<TRUE>> \/ resp = <<FALSE>>
    /\ resp = <<TRUE>> => started
    /\ up /\ ~started => resp = <<FALSE>>

(* The inductive invariant.                                                 *)
KniInv ==
    /\ KniType
    /\ Lags(kni.pc, kni.req, kni.resp, kni.downs)
    /\ kni.downs = 0 => Agrees(kni.up, kni.req, kni.resp, kni.waits, port.started)

(* Requests and answers, on sequences alone.                                *)
LEMMA QueueTail ==
  ASSUME NEW s \in Seq(BOOLEAN), s # << >>
  PROVE  /\ Len(s) \in Nat /\ Len(s) > 0
         /\ Head(s) \in BOOLEAN /\ Head(s) = s[1]
         /\ Tail(s) \in Seq(BOOLEAN) /\ Len(Tail(s)) = Len(s) - 1
         /\ \A i \in 1 .. Len(Tail(s)) : Tail(s)[i] = s[i + 1]
<1>1. Len(s) \in Nat /\ Len(s) # 0
  BY LenProperties, EmptySeq
<1>2. Head(s) = s[1]
  BY <1>1
<1> QED
  BY <1>1, <1>2, HeadTailProperties

LEMMA QueueAppend ==
  ASSUME NEW s \in Seq(BOOLEAN), NEW b \in BOOLEAN
  PROVE  /\ Len(s) \in Nat /\ Len(Append(s, b)) = Len(s) + 1
         /\ Append(s, b) \in Seq(BOOLEAN) /\ Append(s, b) # << >>
         /\ Append(s, b)[Len(s) + 1] = b
         /\ \A i \in 1 .. Len(s) : Append(s, b)[i] = s[i]
         /\ s = << >> => Append(s, b) = <<b>>
<1>1. /\ Len(s) \in Nat /\ Len(Append(s, b)) = Len(s) + 1 /\ Append(s, b) \in Seq(BOOLEAN)
      /\ Append(s, b)[Len(s) + 1] = b
      /\ \A i \in 1 .. Len(s) : Append(s, b)[i] = s[i]
  BY AppendProperties, LenProperties
<1>2. Append(s, b) # << >>
  BY <1>1, EmptySeq
<1>3. s = << >> => Append(s, b) = <<b>>
  OBVIOUS
<1> QED
  BY <1>1, <1>2, <1>3

LEMMA NoneQueued ==
  ASSUME NEW s \in Seq(BOOLEAN), Len(s) = 0
  PROVE  s = << >>
  BY EmptySeq

(* Of one answer, the one that is taken is all there is.                    *)
LEMMA OneAnswer ==
  ASSUME NEW s \in Seq(BOOLEAN), s = << >> \/ s = <<TRUE>> \/ s = <<FALSE>>, s # << >>
  PROVE  Tail(s) = << >> /\ (Head(s) => s = <<TRUE>>)
<1>1. Len(s) = 1 /\ (s[1] = TRUE => s = <<TRUE>>)
  <2>1. CASE s = <<TRUE>>
    BY <2>1
  <2>2. CASE s = <<FALSE>>
    BY <2>2
  <2> QED
    BY <2>1, <2>2
<1>2. Tail(s) \in Seq(BOOLEAN) /\ Len(Tail(s)) = 0 /\ Head(s) = s[1] /\ Head(s) \in BOOLEAN
  BY <1>1, QueueTail
<1>3. Tail(s) = << >>
  BY <1>2, NoneQueued
<1> QED
  BY <1>1, <1>2, <1>3

(* A request is handled: its answer joins the answers, and for a request    *)
(* to bring the interface up it tells of the port, or the port is none.     *)
LEMMA HandleLags ==
  ASSUME NEW req \in Seq(BOOLEAN), NEW resp \in Seq(BOOLEAN), NEW downs \in Nat, NEW ok \in BOOLEAN,
         req # << >>, Lags("handle", req, resp, downs)
  PROVE  Lags("get", Tail(req), Append(resp, ok), downs)
<1>1. Len(Tail(req)) = Len(req) - 1 /\ Len(req) \in Nat
  BY QueueTail
<1>2. Len(Append(resp, ok)) = Len(resp) + 1 /\ Append(resp, ok) # << >> /\ Len(resp) \in Nat
  BY QueueAppend
<1> QED
  BY <1>1, <1>2 DEF Lags

LEMMA HandleAgrees ==
  ASSUME NEW req \in Seq(BOOLEAN), NEW resp \in Seq(BOOLEAN), NEW ok \in BOOLEAN, NEW up \in BOOLEAN,
         NEW waits \in BOOLEAN, NEW started \in BOOLEAN, NEW starts \in BOOLEAN,
         req # << >>, Lags("handle", req, resp, 0), Agrees(up, req, resp, waits, started),
         starts = ok \/ (starts = started /\ ~ok)
  PROVE  Agrees(up, Tail(req), Append(resp, ok), waits, starts)
<1>1. Len(req) \in Nat /\ Len(req) > 0 /\ Head(req) = req[1] /\ Len(Tail(req)) = Len(req) - 1
  BY QueueTail
<1>2. Len(resp) = 0 /\ Len(Tail(req)) = 0
  <2>1. Len(resp) \in Nat
    BY LenProperties
  <2> QED
    BY <1>1, <2>1 DEF Lags
<1>3. resp = << >>
  BY <1>2, NoneQueued
<1>4. Append(resp, ok) = <<ok>>
  BY <1>3, QueueAppend
<1>6. ~waits
  BY DEF Agrees
<1>7. \A i \in 1 .. Len(Tail(req)) : Tail(req)[i] = TRUE
  BY <1>2
<1>8. up /\ ~started => FALSE
  BY <1>3 DEF Agrees
<1>9. CASE ok = TRUE
  <2>1. starts = TRUE /\ Append(resp, ok) = <<TRUE>>
    BY <1>4, <1>9
  <2> QED
    BY <2>1, <1>6, <1>7 DEF Agrees
<1>10. CASE ok = FALSE
  <2>1. Append(resp, ok) = <<FALSE>>
    BY <1>4, <1>10
  <2>2. <<FALSE>> # <<TRUE>>
    <3>1. <<FALSE>>[1] = FALSE /\ <<TRUE>>[1] = TRUE
      OBVIOUS
    <3> QED
      BY <3>1
  <2> QED
    BY <2>1, <2>2, <1>6, <1>7 DEF Agrees
<1> QED
  BY <1>9, <1>10

(* The flags are set: one request more, and an answer less if there is one. *)
LEMMA SetLags ==
  ASSUME NEW req \in Seq(BOOLEAN), NEW resp \in Seq(BOOLEAN), NEW downs \in Nat, Lags("set", req, resp, downs)
  PROVE  Lags("handle", Append(req, TRUE), IF resp = << >> THEN resp ELSE Tail(resp), downs)
<1>1. Len(Append(req, TRUE)) = Len(req) + 1 /\ Len(req) \in Nat
  BY QueueAppend
<1>2. CASE resp = << >>
  <2>1. Len(resp) = 0
    BY <1>2
  <2> QED
    BY <1>1, <1>2, <2>1 DEF Lags
<1>3. CASE resp # << >>
  <2>1. Len(Tail(resp)) = Len(resp) - 1 /\ Len(resp) \in Nat
    BY <1>3, QueueTail
  <2> QED
    BY <1>1, <1>3, <2>1 DEF Lags
<1> QED
  BY <1>2, <1>3

LEMMA SetAgrees ==
  ASSUME NEW req \in Seq(BOOLEAN), NEW resp \in Seq(BOOLEAN), NEW up \in BOOLEAN,
         NEW waits \in BOOLEAN, NEW started \in BOOLEAN, Agrees(up, req, resp, waits, started)
  PROVE  /\ resp = << >> => Agrees(up, Append(req, TRUE), resp, waits, started)
         /\ resp # << >> => Agrees(Head(resp), Append(req, TRUE), Tail(resp), waits, started)
<1>1. \A i \in 1 .. Len(Append(req, TRUE)) : Append(req, TRUE)[i] = TRUE
  <2>1. /\ Len(req) \in Nat /\ Len(Append(req, TRUE)) = Len(req) + 1
        /\ Append(req, TRUE)[Len(req) + 1] = TRUE
        /\ \A i \in 1 .. Len(req) : Append(req, TRUE)[i] = req[i]
    BY QueueAppend
  <2>2. \A i \in 1 .. Len(req) : req[i] = TRUE
    BY DEF Agrees
  <2>3. \A i \in 1 .. Len(Append(req, TRUE)) : i \in 1 .. Len(req) \/ i = Len(req) + 1
    BY <2>1
  <2> QED
    BY <2>1, <2>2, <2>3
<1>2. ASSUME resp = << >> PROVE Agrees(up, Append(req, TRUE), resp, waits, started)
  BY <1>1, <1>2 DEF Agrees
<1>3. ASSUME resp # << >> PROVE Agrees(Head(resp), Append(req, TRUE), Tail(resp), waits, started)
  <2>1. Tail(resp) = << >> /\ (Head(resp) => resp = <<TRUE>>)
    BY <1>3, OneAnswer DEF Agrees
  <2>2. Head(resp) => started
    BY <2>1 DEF Agrees
  <2>3. << >> # <<TRUE>>
    <3>1. Len(<<TRUE>>) = 1 /\ Len(<< >>) = 0
      OBVIOUS
    <3> QED
      BY <3>1
  <2> QED
    BY <1>1, <2>1, <2>2, <2>3 DEF Agrees
<1> QED
  BY <1>2, <1>3

(* What somebody else's request does.                                       *)
LEMMA DownLags ==
  ASSUME NEW pc, NEW req \in Seq(BOOLEAN), NEW resp \in Seq(BOOLEAN), NEW downs \in Nat,
         Lags(pc, req, resp, downs)
  PROVE  Lags(pc, Append(req, FALSE), resp, downs + 1)
<1>1. Len(Append(req, FALSE)) = Len(req) + 1 /\ Len(req) \in Nat /\ Len(resp) \in Nat
  BY QueueAppend, LenProperties
<1>2. Len(req) + Len(resp) <= 1 + downs
  BY DEF Lags
<1>3. pc # "handle" /\ resp = << >> => Len(req) <= downs
  BY DEF Lags
<1>4. Len(Append(req, FALSE)) + Len(resp) <= 1 + (downs + 1)
  BY <1>1, <1>2
<1>5. pc # "handle" /\ resp = << >> => Len(Append(req, FALSE)) <= downs + 1
  BY <1>1, <1>3
<1> QED
  BY <1>4, <1>5 DEF Lags

LEMMA IsDownLags ==
  ASSUME NEW pc, NEW req \in Seq(BOOLEAN), NEW resp \in Seq(BOOLEAN), NEW downs \in Nat,
         resp # << >>, Lags(pc, req, resp, downs)
  PROVE  Lags(pc, req, Tail(resp), downs)
<1>1. Len(Tail(resp)) = Len(resp) - 1 /\ Len(resp) \in Nat /\ Len(resp) > 0 /\ Len(req) \in Nat
  BY QueueTail, LenProperties
<1>2. Len(req) + Len(resp) <= 1 + downs
  BY DEF Lags
<1>3. Len(req) + Len(Tail(resp)) <= 1 + downs /\ Len(req) <= downs
  BY <1>1, <1>2
<1> QED
  BY <1>3 DEF Lags

LEMMA TurnLags ==
  ASSUME NEW pc, NEW next, NEW req \in Seq(BOOLEAN), NEW resp \in Seq(BOOLEAN), NEW downs \in Nat,
         Lags(pc, req, resp, downs), next = "handle" \/ pc # "handle" \/ req = << >>
  PROVE  Lags(next, req, resp, downs)
<1>1. Len(req) + Len(resp) <= 1 + downs
  BY DEF Lags
<1>2. next # "handle" /\ resp = << >> => Len(req) <= downs
  <2>1. CASE pc # "handle"
    BY <2>1 DEF Lags
  <2>2. CASE req = << >>
    BY <2>2
  <2> QED
    BY <2>1, <2>2
<1> QED
  BY <1>1, <1>2 DEF Lags

(* The fields of a state of the loop.                                       *)
LEMMA KniFields ==
  ASSUME KniType
  PROVE  /\ kni.pc \in {"handle", "get", "set"} /\ kni.up \in BOOLEAN /\ kni.req \in Seq(BOOLEAN)
         /\ kni.resp \in Seq(BOOLEAN) /\ kni.downs \in Nat /\ kni.waits \in BOOLEAN
         /\ port.started \in BOOLEAN /\ port.fails \in Nat
  BY DEF KniType, KniStates

(* A step that leaves requests, answers and port alone, and the loop before *)
(* the next request unless it was there before.                             *)
LEMMA KniSame ==
  ASSUME KniInv, KniType', UNCHANGED <<kni.up, kni.req, kni.resp, kni.downs, kni.waits, port>>,
         kni'.pc = "handle" \/ kni.pc # "handle" \/ kni.req = << >>
  PROVE  KniInv'
<1>1. /\ kni.req \in Seq(BOOLEAN) /\ kni.resp \in Seq(BOOLEAN) /\ kni.downs \in Nat
      /\ Lags(kni.pc, kni.req, kni.resp, kni.downs)
  BY KniFields DEF KniInv
<1>2. Lags(kni'.pc, kni.req, kni.resp, kni.downs)
  BY <1>1, TurnLags
<1> QED
  BY <1>2 DEF KniInv

LEMMA HandleStep ==
  ASSUME KniInv, rte_kni_handle_request PROVE KniInv'
<1>1. /\ KniType /\ kni.pc = "handle"
      /\ kni.req \in Seq(BOOLEAN) /\ kni.resp \in Seq(BOOLEAN) /\ kni.downs \in Nat
      /\ kni.up \in BOOLEAN /\ kni.waits \in BOOLEAN /\ port.started \in BOOLEAN
  BY KniFields DEF KniInv, rte_kni_handle_request, InLoop
<1>2. CASE kni.req = << >>
  <2>1. kni' = [kni EXCEPT !.pc = "get"] /\ port' = port
    BY <1>2 DEF rte_kni_handle_request
  <2>2. KniType'
    BY <1>1, <2>1 DEF KniType, KniStates
  <2>3. UNCHANGED <<kni.up, kni.req, kni.resp, kni.downs, kni.waits, port>>
    BY <1>1, <2>1 DEF KniType, KniStates
  <2> QED
    BY <1>2, <2>2, <2>3, KniSame
<1>3. CASE kni.req # << >>
  <2>1. kni_config_network_interface(call.port, Head(kni.req))
    BY <1>3 DEF rte_kni_handle_request
  <2>8. PICK b \in BOOLEAN : b = Head(kni.req)
    BY <1>1, <1>3, QueueTail
  <2>9. kni_config_network_interface(call.port, b)
    BY <2>1, <2>8
  <2>2. PICK ok \in BOOLEAN :
          /\ kni' = [kni EXCEPT !.pc = "get", !.req = Tail(@), !.resp = Append(@, ok)]
          /\ \/ (ok = FALSE /\ port' = port)
             \/ port' = [started |-> ok, fails |-> IF ok THEN port.fails ELSE port.fails + 1]
             \/ (b = FALSE /\ port' = [port EXCEPT !.started = FALSE])
    BY <2>9 DEF kni_config_network_interface, Answered
  <2>3. /\ kni'.pc = "get" /\ kni'.up = kni.up /\ kni'.req = Tail(kni.req)
        /\ kni'.resp = Append(kni.resp, ok)
        /\ kni'.downs = kni.downs /\ kni'.waits = kni.waits
    BY <1>1, <2>2 DEF KniType, KniStates
  <2>4. Tail(kni.req) \in Seq(BOOLEAN) /\ Append(kni.resp, ok) \in Seq(BOOLEAN)
    BY <1>1, <1>3, QueueTail, QueueAppend
  <2>5. KniType'
    <3>1. kni' = [pc |-> "get", up |-> kni.up, req |-> Tail(kni.req), resp |-> Append(kni.resp, ok),
                  downs |-> kni.downs, waits |-> kni.waits]
      BY <1>1, <2>2 DEF KniType, KniStates
    <3>2. kni' \in KniStates
      BY <1>1, <2>4, <3>1 DEF KniStates
    <3>3. port' \in [started : BOOLEAN, fails : Nat]
      <4>1. port \in [started : BOOLEAN, fails : Nat] /\ port.fails \in Nat
        BY <1>1, KniFields DEF KniType
      <4>2. CASE port' = port
        BY <4>1, <4>2
      <4>3. CASE port' = [started |-> ok, fails |-> IF ok THEN port.fails ELSE port.fails + 1]
        <5>1. PICK k \in Nat : k = IF ok THEN port.fails ELSE port.fails + 1
          BY <4>1
        <5> QED
          BY <4>3, <5>1
      <4>4. CASE port' = [port EXCEPT !.started = FALSE]
        BY <4>1, <4>4
      <4> QED
        BY <2>2, <4>2, <4>3, <4>4
    <3> QED
      BY <3>2, <3>3 DEF KniType
  <2>6. Lags(kni'.pc, kni'.req, kni'.resp, kni'.downs)
    <3>1. Lags("handle", kni.req, kni.resp, kni.downs)
      BY <1>1 DEF KniInv
    <3>2. Lags("get", Tail(kni.req), Append(kni.resp, ok), kni.downs)
      BY ONLY <1>1, <1>3, <3>1, HandleLags
    <3> QED
      BY <2>3, <3>2
  <2>7. ASSUME kni'.downs = 0 PROVE Agrees(kni'.up, kni'.req, kni'.resp, kni'.waits, port'.started)
    <3>1. Lags("handle", kni.req, kni.resp, 0) /\ Agrees(kni.up, kni.req, kni.resp, kni.waits, port.started)
      BY <1>1, <2>3, <2>7 DEF KniInv
    <3>2. b = TRUE
      <4>1. Head(kni.req) = kni.req[1] /\ 1 \in 1 .. Len(kni.req)
        BY <1>1, <1>3, QueueTail
      <4> QED
        BY <2>8, <3>1, <4>1 DEF Agrees
    <3>3. PICK starts \in BOOLEAN : starts = port'.started
      BY <2>5, KniFields DEF KniType
    <3>4. starts = ok \/ (starts = port.started /\ ~ok)
      <4>1. CASE ok = FALSE /\ port' = port
        BY <3>3, <4>1
      <4>2. CASE port' = [started |-> ok, fails |-> IF ok THEN port.fails ELSE port.fails + 1]
        BY <3>3, <4>2
      <4> QED
        BY <2>2, <3>2, <4>1, <4>2
    <3>5. Agrees(kni.up, Tail(kni.req), Append(kni.resp, ok), kni.waits, starts)
      BY ONLY <1>1, <1>3, <3>1, <3>4, HandleAgrees
    <3> QED
      BY <2>3, <3>3, <3>5
  <2> QED
    BY <2>5, <2>6, <2>7 DEF KniInv
<1> QED
  BY <1>2, <1>3

LEMMA GetStep ==
  ASSUME KniInv, KniGetFlags PROVE KniInv'
<1>1. KniType /\ kni.pc = "get" /\ port' = port
  BY DEF KniInv, KniGetFlags, InLoop
<1>2. kni' = kni \/ kni' = [kni EXCEPT !.pc = "set"]
  BY DEF KniGetFlags
<1>3. KniType'
  BY <1>1, <1>2 DEF KniType, KniStates
<1>4. UNCHANGED <<kni.up, kni.req, kni.resp, kni.downs, kni.waits, port>>
  BY <1>1, <1>2 DEF KniType, KniStates
<1> QED
  BY <1>1, <1>3, <1>4, KniSame

LEMMA SetStep ==
  ASSUME KniInv, KniSetFlags PROVE KniInv'
<1>1. /\ KniType /\ kni.pc = "set" /\ port' = port
      /\ kni.req \in Seq(BOOLEAN) /\ kni.resp \in Seq(BOOLEAN) /\ kni.downs \in Nat
      /\ kni.up \in BOOLEAN /\ kni.waits \in BOOLEAN /\ port.started \in BOOLEAN
  BY KniFields DEF KniInv, KniSetFlags, InLoop
<1>2. CASE kni' = [kni EXCEPT !.pc = "handle"]
  <2>1. KniType'
    BY <1>1, <1>2 DEF KniType, KniStates
  <2>2. UNCHANGED <<kni.up, kni.req, kni.resp, kni.downs, kni.waits, port>>
    BY <1>1, <1>2 DEF KniType, KniStates
  <2> QED
    BY <1>1, <2>1, <2>2, KniSame
<1>3. Lags("set", kni.req, kni.resp, kni.downs)
      /\ (kni.downs = 0 => Agrees(kni.up, kni.req, kni.resp, kni.waits, port.started))
  BY <1>1 DEF KniInv
<1>4. Append(kni.req, TRUE) \in Seq(BOOLEAN)
      /\ Lags("handle", Append(kni.req, TRUE), IF kni.resp = << >> THEN kni.resp ELSE Tail(kni.resp), kni.downs)
  BY <1>1, <1>3, QueueAppend, SetLags
<1>5. CASE kni.resp = << >> /\ kni' = [kni EXCEPT !.pc = "handle", !.req = Append(@, TRUE)]
  <2>1. kni' = [pc |-> "handle", up |-> kni.up, req |-> Append(kni.req, TRUE), resp |-> kni.resp,
                downs |-> kni.downs, waits |-> kni.waits]
    BY <1>1, <1>5 DEF KniType, KniStates
  <2>2. KniType'
    BY <1>1, <1>4, <2>1 DEF KniType, KniStates
  <2>3. kni.downs = 0 => Agrees(kni.up, Append(kni.req, TRUE), kni.resp, kni.waits, port.started)
    BY ONLY <1>1, <1>3, <1>5, SetAgrees
  <2> QED
    BY <1>1, <1>4, <1>5, <2>1, <2>2, <2>3 DEF KniInv
<1>6. CASE /\ kni.resp # << >>
           /\ kni' = [kni EXCEPT !.pc = "handle", !.req = Append(@, TRUE), !.up = Head(kni.resp), !.resp = Tail(@)]
  <2>1. kni' = [pc |-> "handle", up |-> Head(kni.resp), req |-> Append(kni.req, TRUE), resp |-> Tail(kni.resp),
                downs |-> kni.downs, waits |-> kni.waits]
    BY <1>1, <1>6 DEF KniType, KniStates
  <2>2. Head(kni.resp) \in BOOLEAN /\ Tail(kni.resp) \in Seq(BOOLEAN)
    BY <1>1, <1>6, QueueTail
  <2>3. KniType'
    BY <1>1, <1>4, <2>1, <2>2 DEF KniType, KniStates
  <2>4. kni.downs = 0 => Agrees(Head(kni.resp), Append(kni.req, TRUE), Tail(kni.resp), kni.waits, port.started)
    BY ONLY <1>1, <1>3, <1>6, SetAgrees
  <2> QED
    BY <1>1, <1>4, <1>6, <2>1, <2>3, <2>4 DEF KniInv
<1> QED
  BY <1>2, <1>5, <1>6 DEF KniSetFlags

LEMMA DownStep ==
  ASSUME KniInv, KniDown PROVE KniInv'
<1>1. /\ KniType /\ port' = port
      /\ kni.req \in Seq(BOOLEAN) /\ kni.resp \in Seq(BOOLEAN) /\ kni.downs \in Nat
      /\ kni.up \in BOOLEAN /\ kni.pc \in {"handle", "get", "set"}
      /\ Lags(kni.pc, kni.req, kni.resp, kni.downs)
  BY KniFields DEF KniInv, KniDown
<1>2. kni' = [pc |-> kni.pc, up |-> kni.up, req |-> Append(kni.req, FALSE), resp |-> kni.resp,
              downs |-> kni.downs + 1, waits |-> TRUE]
  BY <1>1 DEF KniDown, KniType, KniStates
<1>3. /\ Append(kni.req, FALSE) \in Seq(BOOLEAN) /\ Len(Append(kni.req, FALSE)) = Len(kni.req) + 1
      /\ Len(kni.req) \in Nat /\ Len(kni.resp) \in Nat
  BY <1>1, QueueAppend, LenProperties
<1>4. KniType'
  BY <1>1, <1>2, <1>3 DEF KniType, KniStates
<1>5. Lags(kni.pc, Append(kni.req, FALSE), kni.resp, kni.downs + 1)
  BY <1>1, DownLags
<1>6. kni'.downs # 0
  BY <1>1, <1>2
<1> QED
  BY <1>2, <1>4, <1>5, <1>6 DEF KniInv

LEMMA IsDownStep ==
  ASSUME KniInv, KniIsDown PROVE KniInv'
<1>1. /\ KniType /\ port' = port /\ kni.waits
      /\ kni.req \in Seq(BOOLEAN) /\ kni.resp \in Seq(BOOLEAN) /\ kni.downs \in Nat
      /\ kni.pc \in {"handle", "get", "set"}
      /\ Lags(kni.pc, kni.req, kni.resp, kni.downs)
  BY KniFields DEF KniInv, KniIsDown
<1>2. PICK left \in Seq(BOOLEAN) : left = IF kni.resp = << >> THEN kni.resp ELSE Tail(kni.resp)
  BY <1>1, QueueTail
<1>3. kni' = [pc |-> kni.pc, up |-> FALSE, req |-> kni.req, resp |-> left,
              downs |-> kni.downs, waits |-> FALSE]
  BY <1>1, <1>2 DEF KniIsDown, KniType, KniStates
<1>4. KniType'
  BY <1>1, <1>2, <1>3 DEF KniType, KniStates
<1>5. Lags(kni.pc, kni.req, left, kni.downs)
  <2>1. CASE kni.resp = << >>
    BY <1>1, <1>2, <2>1
  <2>2. CASE kni.resp # << >>
    BY <1>1, <1>2, <2>2, IsDownLags
  <2> QED
    BY <2>1, <2>2
<1>6. kni.downs # 0
  BY <1>1 DEF KniInv, Agrees
<1> QED
  BY <1>1, <1>3, <1>4, <1>5, <1>6 DEF KniInv

(* KniAnswers of every state, whatever the number of failed starts and of   *)
(* requests from outside: late answers never pile up, and a link that       *)
(* nobody took down is up over a stopped port only while the refusal of a   *)
(* later start is unread.                                                   *)
THEOREM HostKniAnswers == Spec => []KniAnswers
<1>1. Init => KniInv
  <2> SUFFICES ASSUME Init PROVE KniInv
    OBVIOUS
  <2>1. /\ kni = [pc |-> "handle", up |-> FALSE, req |-> << >>, resp |-> << >>,
                  downs |-> 0, waits |-> FALSE]
        /\ port = [started |-> TRUE, fails |-> 0]
    BY DEF Init
  <2>2. << >> \in Seq(BOOLEAN) /\ Len(<< >>) = 0
    OBVIOUS
  <2>3. KniType
    BY <2>1, <2>2 DEF KniType, KniStates
  <2>4. Lags("handle", << >>, << >>, 0) /\ Agrees(FALSE, << >>, << >>, FALSE, TRUE)
    BY <2>2 DEF Lags, Agrees
  <2> QED
    BY <2>1, <2>3, <2>4 DEF KniInv
<1>2. KniInv /\ [Next]_vars => KniInv'
  <2> SUFFICES ASSUME KniInv, [Next]_vars PROVE KniInv'
    OBVIOUS
  <2>1. CASE UNCHANGED <<kni, port>>
    BY <2>1 DEF KniInv, KniType
  <2>2. CASE MakeInterface \/ Socket \/ Close \/ ioctl \/ send_to_socket
             \/ tap_send_to_socket \/ netlink_send_to_socket
    BY <2>1, <2>2 DEF MakeInterface, Socket, Close, ioctl, Send, send_to_socket, tap_send_to_socket,
                      netlink_send_to_socket, Rest
  <2>3. CASE Setup \/ KniDown
    BY <2>2, <2>3, HandleStep, GetStep, SetStep, DownStep, IsDownStep DEF Setup
  <2>4. CASE tap_rx_to_ring \/ kni_rx_to_ring \/ KniRetry \/ Worker
    BY <2>1, <2>4 DEF tap_rx_to_ring, kni_rx_to_ring, KniRetry, Worker, WorkerTakes, WorkerFrees, LoopRest
  <2>5. CASE UNCHANGED vars
    BY <2>1, <2>5 DEF vars
  <2> QED
    BY <2>3, <2>4, <2>5 DEF Next
<1>3. KniInv => KniAnswers
  BY DEF KniInv, KniAnswers, Lags, Agrees
<1> QED
  BY <1>1, <1>2, <1>3, PTL DEF Spec

----------------------------------------------------------------------------
(* The union ifr and the netlink requests.                                  *)

IsRequest(s) == s.op = "netlink"

GetsIndex(s) == s.op = "ioctl" /\ s.req = "SIOGIFINDEX"

(* Calls of which every request comes behind another one, or behind the     *)
(* ioctl that fetches the index of the interface.                           *)
Tame(seq) ==
    /\ seq \in Seq(Steps)
    /\ \A i \in 1 .. Len(seq) : IsRequest(seq[i]) => i > 1 /\ (IsRequest(seq[i - 1]) \/ GetsIndex(seq[i - 1]))

(* Calls after which the union still holds that index.                      *)
Indexed(seq) ==
    Tame(seq) /\ Len(seq) > 0 /\ (IsRequest(seq[Len(seq)]) \/ GetsIndex(seq[Len(seq)]))

(* The requests the kernel may see, all for the interface that was made.    *)
Targeted ==
    {add_ipv4(IfIndex, a, b) : a \in Int, b \in Int}
    \cup {add_ipv6(IfIndex, a, b) : a \in Int, b \in Int}
    \cup {add_route(IfIndex, c, a, b) : a \in Int, b \in Int, c \in Int}
    \cup {tap_netlink_add_ipv4(IfIndex, a, b) : a \in Int, b \in Int}
    \cup {tap_netlink_add_ipv6(IfIndex, a, b) : a \in Int, b \in Int}
    \cup {tap_netlink_add_route(IfIndex, c, a, b) : a \in Int, b \in Int, c \in Int}
    \cup {netlink_add_ip(IfIndex, a, b) : a \in Int, b \in Int}
    \cup {netlink_add_route(IfIndex, c, a, b) : a \in Int, b \in Int, c \in Int}

(* The inductive invariant: the first request that is left finds the index  *)
(* in the union, the others come behind one that does or fetch it first.    *)
TargetInv ==
    /\ call \in Calls /\ prog \in Seq(Steps)
    /\ \A i \in 1 .. Len(prog) :
         IsRequest(prog[i]) => IF i = 1 THEN ifr.val = IfIndex
                                        ELSE IsRequest(prog[i - 1]) \/ GetsIndex(prog[i - 1])
    /\ inbox \in Seq(Targeted)

LEMMA TameConcat ==
  ASSUME NEW s, NEW t, Tame(s)
  PROVE  /\ Tame(t) => Tame(s \o t)
         /\ Indexed(t) => Indexed(s \o t)
         /\ Indexed(s) /\ t \in Seq(Requests) => Indexed(s \o t)
<1> SUFFICES ASSUME t \in Seq(Steps)
             PROVE  /\ Tame(t) => Tame(s \o t)
                    /\ Indexed(t) => Indexed(s \o t)
                    /\ Indexed(s) /\ t \in Seq(Requests) => Indexed(s \o t)
  <2>1. Requests \subseteq Steps
    BY DEF Steps
  <2> HIDE DEF Requests, Steps
  <2>2. t \in Seq(Requests) => t \in Seq(Steps)
    BY <2>1
  <2> QED
    BY <2>2 DEF Tame, Indexed
<1> HIDE DEF Steps, Requests, IsRequest, GetsIndex
<1> DEFINE all == s \o t
<1>1. s \in Seq(Steps) /\ Len(s) \in Nat /\ Len(t) \in Nat
  BY LenProperties DEF Tame
<1>2. /\ all \in Seq(Steps) /\ Len(all) = Len(s) + Len(t)
      /\ \A i \in 1 .. Len(s) + Len(t) : all[i] = IF i <= Len(s) THEN s[i] ELSE t[i - Len(s)]
  BY <1>1, ConcatProperties
<1> HIDE DEF all
<1>3. \A i \in 1 .. Len(s) : all[i] = s[i]
  <2> TAKE i \in 1 .. Len(s)
  <2>1. i \in 1 .. Len(s) + Len(t) /\ i <= Len(s)
    BY <1>1
  <2> QED
    BY <1>2, <2>1
<1>4. \A i \in 1 .. Len(t) : all[i + Len(s)] = t[i]
  <2> TAKE i \in 1 .. Len(t)
  <2>1. i + Len(s) \in 1 .. Len(s) + Len(t) /\ ~(i + Len(s) <= Len(s)) /\ (i + Len(s)) - Len(s) = i
    BY <1>1
  <2> QED
    BY <1>2, <2>1
<1>5. ASSUME NEW i \in 1 .. Len(s), IsRequest(all[i])
      PROVE  i > 1 /\ (IsRequest(all[i - 1]) \/ GetsIndex(all[i - 1]))
  <2>1. i > 1 /\ (IsRequest(s[i - 1]) \/ GetsIndex(s[i - 1]))
    BY <1>3, <1>5 DEF Tame
  <2>2. i - 1 \in 1 .. Len(s)
    BY <1>1, <2>1
  <2> QED
    BY <1>3, <2>1, <2>2
<1>6. ASSUME NEW j \in 1 .. Len(t), IsRequest(all[j + Len(s)]), Tame(t)
      PROVE  j + Len(s) > 1 /\ (IsRequest(all[(j + Len(s)) - 1]) \/ GetsIndex(all[(j + Len(s)) - 1]))
  <2>1. j > 1 /\ (IsRequest(t[j - 1]) \/ GetsIndex(t[j - 1]))
    BY <1>4, <1>6 DEF Tame
  <2>2. j - 1 \in 1 .. Len(t) /\ (j - 1) + Len(s) = (j + Len(s)) - 1
    BY <1>1, <2>1
  <2>3. all[(j - 1) + Len(s)] = t[j - 1]
    BY <1>4, <2>2
  <2> QED
    BY <1>1, <2>1, <2>2, <2>3
<1>7. ASSUME NEW j \in 1 .. Len(t), Indexed(s), t \in Seq(Requests)
      PROVE  /\ j + Len(s) > 1 /\ IsRequest(all[j + Len(s)])
             /\ IsRequest(all[(j + Len(s)) - 1]) \/ GetsIndex(all[(j + Len(s)) - 1])
  <2>1. \A k \in 1 .. Len(t) : IsRequest(t[k])
    <3>1. \A k \in 1 .. Len(t) : t[k] \in Requests
      BY <1>7, ElementOfSeq
    <3> QED
      BY <3>1 DEF Requests, IsRequest
  <2>2. CASE j = 1
    <3>1. Len(s) \in 1 .. Len(s) /\ (j + Len(s)) - 1 = Len(s) /\ j + Len(s) > 1
      BY <1>1, <1>7, <2>2 DEF Indexed
    <3> QED
      BY <1>3, <1>4, <1>7, <2>1, <3>1 DEF Indexed
  <2>3. CASE j # 1
    <3>1. j - 1 \in 1 .. Len(t) /\ (j - 1) + Len(s) = (j + Len(s)) - 1 /\ j + Len(s) > 1
      BY <1>1, <2>3
    <3>2. all[(j - 1) + Len(s)] = t[j - 1] /\ all[j + Len(s)] = t[j]
      BY <1>4, <3>1
    <3> QED
      BY <2>1, <3>1, <3>2
  <2> QED
    BY <2>2, <2>3
<1>8. \A i \in 1 .. Len(all) : i \in 1 .. Len(s) \/ \E j \in 1 .. Len(t) : i = j + Len(s)
  <2> SUFFICES ASSUME NEW i \in 1 .. Len(all), i \notin 1 .. Len(s) PROVE \E j \in 1 .. Len(t) : i = j + Len(s)
    OBVIOUS
  <2>1. i - Len(s) \in 1 .. Len(t) /\ i = (i - Len(s)) + Len(s)
    BY <1>1, <1>2
  <2> QED
    BY <2>1
<1>9. Tame(t) => Tame(all)
  <2> SUFFICES ASSUME Tame(t), NEW i \in 1 .. Len(all), IsRequest(all[i])
               PROVE  i > 1 /\ (IsRequest(all[i - 1]) \/ GetsIndex(all[i - 1]))
    BY <1>2 DEF Tame
  <2>1. CASE i \in 1 .. Len(s)
    BY <1>5, <2>1
  <2>2. CASE i \notin 1 .. Len(s)
    <3>1. PICK j \in 1 .. Len(t) : i = j + Len(s)
      BY <1>8, <2>2
    <3> QED
      BY <1>6, <3>1
  <2> QED
    BY <2>1, <2>2
<1>10. Indexed(t) => Indexed(all)
  <2> SUFFICES ASSUME Indexed(t) PROVE Indexed(all)
    OBVIOUS
  <2>1. Len(t) \in 1 .. Len(t) /\ Len(all) = Len(t) + Len(s) /\ Len(all) > 0
    BY <1>1, <1>2 DEF Indexed
  <2>2. all[Len(all)] = t[Len(t)]
    BY <1>4, <2>1
  <2> QED
    BY <1>9, <2>1, <2>2 DEF Indexed
<1>11. Indexed(s) /\ t \in Seq(Requests) => Indexed(all)
  <2> SUFFICES ASSUME Indexed(s), t \in Seq(Requests) PROVE Indexed(all)
    OBVIOUS
  <2>1. Tame(all)
    <3> SUFFICES ASSUME NEW i \in 1 .. Len(all), IsRequest(all[i])
                 PROVE  i > 1 /\ (IsRequest(all[i - 1]) \/ GetsIndex(all[i - 1]))
      BY <1>2 DEF Tame
    <3>1. CASE i \in 1 .. Len(s)
      BY <1>5, <3>1
    <3>2. CASE i \notin 1 .. Len(s)
      <4>1. PICK j \in 1 .. Len(t) : i = j + Len(s)
        BY <1>8, <3>2
      <4> QED
        BY <1>7, <4>1
    <3> QED
      BY <3>1, <3>2
  <2>2. CASE Len(t) = 0
    <3>1. Len(all) = Len(s) /\ Len(s) \in 1 .. Len(s)
      BY <1>1, <1>2, <2>2 DEF Indexed
    <3> QED
      BY <1>3, <2>1, <3>1 DEF Indexed
  <2>3. CASE Len(t) # 0
    <3>1. Len(t) \in 1 .. Len(t) /\ Len(all) = Len(t) + Len(s) /\ Len(all) > 0
      BY <1>1, <1>2, <2>3
    <3> QED
      BY <1>7, <2>1, <3>1 DEF Indexed
  <2> QED
    BY <2>2, <2>3
<1> QED
  BY <1>9, <1>10, <1>11 DEF all

(* The calls one by one.                                                    *)
LEMMA TameOne ==
  /\ \A op \in SysOps : Tame(Sys(op))
  /\ Indexed(Ioctl("SIOGIFINDEX")) /\ Tame(Ioctl("SIOCGIFFLAGS"))
  /\ \A req \in AddrReqs, member \in {"addr", "hwaddr", "mtu", "flags"}, v \in Int :
       Tame(IoctlWith(req, member, v))
  /\ \A fn \in LinkFns, a, b, c \in Int : Request(fn, a, b, c) \in Seq(Requests)
<1>1. ASSUME NEW s \in Steps, ~IsRequest(s)
      PROVE  Tame(<<s>>) /\ (GetsIndex(s) => Indexed(<<s>>))
  <2> HIDE DEF Steps, IsRequest, GetsIndex
  <2>1. <<s>> \in Seq(Steps) /\ Len(<<s>>) = 1 /\ <<s>>[1] = s
    OBVIOUS
  <2>2. PICK seq \in Seq(Steps) : seq = <<s>>
    BY <2>1
  <2>3. Tame(seq) /\ (GetsIndex(s) => Indexed(seq))
    BY <1>1, <2>1, <2>2 DEF Tame, Indexed
  <2> QED
    BY <2>2, <2>3
<1>2. ASSUME NEW op \in SysOps PROVE Tame(Sys(op))
  <2>1. [op |-> op, req |-> op, member |-> "none", val |-> 0] \in Steps
    BY DEF Steps
  <2>2. ~IsRequest([op |-> op, req |-> op, member |-> "none", val |-> 0])
    BY DEF IsRequest, SysOps
  <2> QED
    BY <1>1, <2>1, <2>2 DEF Sys
<1>3. ASSUME NEW req \in GetReqs PROVE Tame(Ioctl(req)) /\ (req = "SIOGIFINDEX" => Indexed(Ioctl(req)))
  <2>1. [op |-> "ioctl", req |-> req, member |-> "none", val |-> 0] \in Steps
    BY DEF Steps
  <2>2. LET s == [op |-> "ioctl", req |-> req, member |-> "none", val |-> 0]
        IN  ~IsRequest(s) /\ (req = "SIOGIFINDEX" => GetsIndex(s))
    BY DEF IsRequest, GetsIndex
  <2> QED
    BY <1>1, <2>1, <2>2 DEF Ioctl
<1>4. ASSUME NEW req \in AddrReqs, NEW member \in {"addr", "hwaddr", "mtu", "flags"}, NEW v \in Int
      PROVE  Tame(IoctlWith(req, member, v))
  <2>1. [op |-> "ioctl", req |-> req, member |-> member, val |-> v] \in Steps
    BY DEF Steps
  <2>2. ~IsRequest([op |-> "ioctl", req |-> req, member |-> member, val |-> v])
    BY DEF IsRequest
  <2> QED
    BY <1>1, <2>1, <2>2 DEF IoctlWith
<1>5. ASSUME NEW fn \in LinkFns, NEW a \in Int, NEW b \in Int, NEW c \in Int
      PROVE  Request(fn, a, b, c) \in Seq(Requests)
  <2>1. [op |-> "netlink", req |-> fn, member |-> "none", val |-> <<a, b, c>>] \in Requests
    BY DEF Requests
  <2> QED
    BY <2>1 DEF Request
<1>6. "SIOGIFINDEX" \in GetReqs /\ "SIOCGIFFLAGS" \in GetReqs
  BY DEF GetReqs
<1> QED
  BY <1>2, <1>3, <1>4, <1>5, <1>6

LEMMA TameWhen ==
  ASSUME NEW test, NEW s
  PROVE  /\ Tame(s) => Tame(When(test, s))
         /\ s \in Seq(Requests) => When(test, s) \in Seq(Requests)
<1>1. Tame(<< >>)
  <2>1. PICK seq \in Seq(Steps) : seq = << >> /\ Len(seq) = 0
    <3>1. << >> \in Seq(Steps) /\ Len(<< >>) = 0
      OBVIOUS
    <3> QED
      BY <3>1, Zenon
  <2>2. Tame(seq)
    BY <2>1 DEF Tame
  <2> QED
    BY <2>1, <2>2
<1>2. << >> \in Seq(Requests)
  OBVIOUS
<1> QED
  BY <1>1, <1>2 DEF When

LEMMA IndexedTame ==
  ASSUME NEW s, Indexed(s) PROVE Tame(s)
  BY DEF Indexed

LEMMA TameIp ==
  ASSUME NEW ipv4 \in Nat, NEW loopback \in Nat, NEW ipv6 \in Nat
  PROVE  Indexed(setup_ip(ipv4, loopback, ipv6))
<1> DEFINE addrs == Ioctl("SIOGIFINDEX")
                    \o IoctlWith("SIOCSIFADDR", "addr", ipv4)
                    \o IoctlWith("SIOCSIFDSTADDR", "addr", DstAddr(ipv4))
                    \o IoctlWith("SIOCSIFBRDADDR", "addr", BrdAddr(ipv4))
                    \o IoctlWith("SIOCSIFNETMASK", "addr", MASK)
           lo == When(loopback # 0, Request("add_ipv4", loopback, 32, 0))
           v6 == When(ipv6 # 0, Request("add_ipv6", ipv6, 64, 0))
<1>1. DstAddr(ipv4) \in Int /\ BrdAddr(ipv4) \in Int /\ MASK \in Int
  BY DEF DstAddr, BrdAddr, MASK
<1>2. /\ Tame(Ioctl("SIOGIFINDEX")) /\ Tame(IoctlWith("SIOCSIFADDR", "addr", ipv4))
      /\ Tame(IoctlWith("SIOCSIFDSTADDR", "addr", DstAddr(ipv4)))
      /\ Tame(IoctlWith("SIOCSIFBRDADDR", "addr", BrdAddr(ipv4)))
      /\ Tame(IoctlWith("SIOCSIFNETMASK", "addr", MASK))
  BY <1>1, TameOne, IndexedTame DEF AddrReqs
<1>3. Tame(addrs)
  BY <1>2, TameConcat
<1>4. "add_ipv4" \in LinkFns /\ "add_ipv6" \in LinkFns
  BY DEF LinkFns
<1>5. loopback \in Int /\ ipv6 \in Int /\ 32 \in Int /\ 64 \in Int /\ 0 \in Int
  OBVIOUS
<1>6. /\ Request("add_ipv4", loopback, 32, 0) \in Seq(Requests)
      /\ Request("add_ipv6", ipv6, 64, 0) \in Seq(Requests)
  BY <1>4, <1>5, TameOne, Zenon
<1>7. lo \in Seq(Requests) /\ v6 \in Seq(Requests)
  BY <1>6, TameWhen
<1> HIDE DEF addrs, lo, v6
<1>8. Tame(When(ipv4 # 0, addrs))
  BY <1>3, TameWhen
<1>9. Indexed(When(ipv4 # 0, addrs) \o Ioctl("SIOGIFINDEX"))
  BY <1>8, TameOne, TameConcat
<1>10. Indexed(When(ipv4 # 0, addrs) \o Ioctl("SIOGIFINDEX") \o lo)
  BY <1>7, <1>9, TameConcat, IndexedTame
<1>11. Indexed(When(ipv4 # 0, addrs) \o Ioctl("SIOGIFINDEX") \o lo \o v6)
  BY <1>7, <1>10, TameConcat, IndexedTame
<1> QED
  BY <1>11 DEF setup_ip, addrs, lo, v6

LEMMA TameRoutes ==
  ASSUME NEW routes \in Seq(Nat), NEW gw \in Nat
  PROVE  setup_routes(routes, gw) \in Seq(Requests)
<1>1. Len(routes) \div 2 \in Nat /\ 2 * (Len(routes) \div 2) <= Len(routes) /\ Len(routes) \in Nat
  BY LenProperties
<1>2. ASSUME NEW i \in 1 .. (Len(routes) \div 2)
      PROVE  Request("add_route", routes[2 * i - 1], routes[2 * i], gw)[1] \in Requests
  <2>1. 2 * i - 1 \in 1 .. Len(routes) /\ 2 * i \in 1 .. Len(routes)
    BY <1>1
  <2>2. PICK a \in Int, b \in Int : a = routes[2 * i - 1] /\ b = routes[2 * i]
    BY <2>1, ElementOfSeq
  <2>3. Request("add_route", a, b, gw)[1] \in Requests
    BY DEF Request, Requests, LinkFns
  <2> QED
    BY <2>2, <2>3
<1> QED
  BY <1>1, <1>2 DEF setup_routes

(* What tap_setup_ip and kni_setup_ip do.                                   *)
LEMMA TameSetupIp ==
  ASSUME NEW c \in Calls
  PROVE  Tame(Sys("socket") \o setup_ip(c.ipv4, c.loopback, c.ipv6)
                \o Ioctl("SIOGIFINDEX") \o setup_routes(c.routes, c.gw) \o Sys("close"))
<1> DEFINE ip == setup_ip(c.ipv4, c.loopback, c.ipv6)
           routes == setup_routes(c.routes, c.gw)
<1>1. Indexed(ip) /\ routes \in Seq(Requests)
  BY CallType, TameIp, TameRoutes
<1>2. Tame(Sys("socket")) /\ Tame(Sys("close"))
  BY TameOne DEF SysOps
<1> HIDE DEF ip, routes
<1>3. Tame(Sys("socket") \o ip)
  BY <1>1, <1>2, TameConcat, IndexedTame
<1>4. Indexed(Sys("socket") \o ip \o Ioctl("SIOGIFINDEX"))
  BY <1>3, TameOne, TameConcat
<1>5. Indexed(Sys("socket") \o ip \o Ioctl("SIOGIFINDEX") \o routes)
  BY <1>1, <1>4, TameConcat, IndexedTame
<1>6. Tame(Sys("socket") \o ip \o Ioctl("SIOGIFINDEX") \o routes \o Sys("close"))
  BY <1>2, <1>5, TameConcat, IndexedTame
<1> QED
  BY <1>6 DEF ip, routes

LEMMA TameTap ==
  ASSUME NEW c \in Calls PROVE Tame(tap_create(c))
<1> DEFINE mac == When(c.mac # 0, IoctlWith("SIOCSIFHWADDR", "hwaddr", c.mac))
           mtu == When(c.mtu # 0, IoctlWith("SIOCSIFMTU", "mtu", c.mtu))
           up == IoctlWith("SIOCSIFFLAGS", "flags", UpFlags(c.rw))
<1>1. c.mac \in Int /\ c.mtu \in Int /\ UpFlags(c.rw) \in Int
  BY CallType DEF UpFlags, IFF_UP
<1>2. /\ Tame(IoctlWith("SIOCSIFHWADDR", "hwaddr", c.mac)) /\ Tame(IoctlWith("SIOCSIFMTU", "mtu", c.mtu))
      /\ Tame(up)
  BY <1>1, TameOne DEF AddrReqs
<1>3. Tame(mac) /\ Tame(mtu)
  BY <1>2, TameWhen
<1> HIDE DEF mac, mtu, up
<1>4. Tame(Ioctl("SIOGIFINDEX")) /\ Tame(Ioctl("SIOCGIFFLAGS"))
  BY TameOne, IndexedTame
<1>5. Tame(Ioctl("SIOGIFINDEX") \o mac \o mtu)
  BY <1>3, <1>4, TameConcat
<1>6. Tame(set_mac_mtu(c.mac, c.mtu))
  BY <1>5 DEF set_mac_mtu, mac, mtu
<1>7. Tame(Sys("open")) /\ Tame(Sys("TUNSETIFF")) /\ Tame(Sys("socket")) /\ Tame(Sys("close"))
  BY TameOne DEF SysOps
<1>8. Tame(Sys("open") \o Sys("TUNSETIFF") \o Sys("socket") \o Ioctl("SIOCGIFFLAGS")
             \o set_mac_mtu(c.mac, c.mtu) \o Ioctl("SIOGIFINDEX") \o up \o Sys("close"))
  BY <1>2, <1>4, <1>6, <1>7, TameConcat
<1> QED
  BY <1>8 DEF tap_create, up

LEMMA TameCopies ==
  ASSUME NEW c \in Calls
  PROVE  Tame(Sys("socket") \o Ioctl("SIOGIFINDEX") \o Copies(c) \o Sys("close"))
<1>1. c.loopback \in Int /\ c.ipv6 \in Int /\ c.gw \in Int /\ 0 \in Int /\ 8 \in Int /\ 24 \in Int
      /\ 32 \in Int /\ 64 \in Int
  BY CallType
<1>2. /\ "tap_netlink_add_ipv4" \in LinkFns /\ "tap_netlink_add_ipv6" \in LinkFns
      /\ "tap_netlink_add_route" \in LinkFns /\ "netlink_add_ip" \in LinkFns /\ "netlink_add_route" \in LinkFns
  BY DEF LinkFns
<1>3. /\ Request("tap_netlink_add_ipv4", c.loopback, 32, 0) \in Seq(Requests)
      /\ Request("tap_netlink_add_ipv6", c.ipv6, 64, 0) \in Seq(Requests)
      /\ Request("tap_netlink_add_route", 8, 24, c.gw) \in Seq(Requests)
      /\ Request("netlink_add_ip", c.loopback, 32, 0) \in Seq(Requests)
      /\ Request("netlink_add_route", 8, 24, c.gw) \in Seq(Requests)
  BY <1>1, <1>2, TameOne, Zenon
<1>4. ASSUME NEW s \in Seq(Requests), NEW t \in Seq(Requests) PROVE s \o t \in Seq(Requests)
  BY ConcatProperties
<1>5. Copies(c) \in Seq(Requests)
  BY <1>3, <1>4 DEF Copies
<1>6. Tame(Sys("socket")) /\ Tame(Sys("close"))
  BY TameOne DEF SysOps
<1>7. Indexed(Sys("socket") \o Ioctl("SIOGIFINDEX"))
  BY <1>6, TameOne, TameConcat
<1>8. Indexed(Sys("socket") \o Ioctl("SIOGIFINDEX") \o Copies(c))
  BY <1>5, <1>7, TameConcat, IndexedTame
<1> QED
  BY <1>6, <1>8, TameConcat, IndexedTame

LEMMA TameSetup ==
  ASSUME NEW c \in Calls PROVE Tame(setup_host(c))
<1>1. Tame(tap_setup_ip(c)) /\ Tame(kni_setup_ip(c))
  BY TameSetupIp DEF tap_setup_ip, kni_setup_ip
<1>2. Tame(Sys("rte_kni_alloc") \o Sys("socket") \o Sys("kni_loop"))
  BY TameOne, TameConcat DEF SysOps
<1>3. Tame(kni_create(c))
  BY <1>2, TameWhen DEF kni_create
<1>4. Tame(tap_create(c) \o When(c.rw, tap_setup_ip(c)))
  BY <1>1, TameTap, TameWhen, TameConcat
<1>5. Tame(kni_create(c) \o When(c.rw, kni_setup_ip(c)))
  BY <1>1, <1>3, TameWhen, TameConcat
<1>6. c.kind \in {"tap", "kni", "copy"}
  BY CallsAssumption
<1> QED
  BY <1>4, <1>5, <1>6, TameCopies DEF setup_host

(* The layouts.  Two attributes behind a header of 24 bytes.                *)
LEMMA AddrTargets ==
  ASSUME NEW family, NEW a, NEW b, NEW size \in {4, 16}
  PROVE  LET msg == NewAddr(family, IfIndex, a, size, b)
         IN  WellFormed(msg) /\ msg.type = "RTM_NEWADDR" /\ msg.index = IfIndex
<1> DEFINE msg == NewAddr(family, IfIndex, a, size, b)
           first == [at |-> 24, len |-> size + 4, type |-> "IFA_ADDRESS", data |-> a]
           second == [at |-> size + 28, len |-> size + 4, type |-> "IFA_LOCAL", data |-> a]
<1>1. msg = [type |-> "RTM_NEWADDR", family |-> family, prefixlen |-> b, scope |-> "RT_SCOPE_UNIVERSE",
             index |-> IfIndex, len |-> 2 * size + 32, attrs |-> <<first, second>>]
  BY DEF NewAddr, Attribute, RTA_LENGTH, NLMSG_LENGTH, sizeof_ifaddrmsg
<1> HIDE DEF msg
<1>2. msg.type = "RTM_NEWADDR" /\ msg.index = IfIndex /\ msg.len = 2 * size + 32 /\ msg.attrs = <<first, second>>
  BY <1>1
<1>3. WellFormed(msg)
  BY <1>2 DEF WellFormed, HeaderSize, NLMSG_ALIGN, NLMSG_LENGTH, sizeof_ifaddrmsg
<1> QED
  BY <1>2, <1>3 DEF msg

RouteRequest(scope, mask, len, attrs) ==
    [type |-> "RTM_NEWROUTE", family |-> "AF_INET", prefixlen |-> mask, scope |-> scope, index |-> 0,
     len |-> len, attrs |-> attrs]

Attr32(at, type, data) == [at |-> at, len |-> 8, type |-> type, data |-> data]

(* One more attribute of four bytes.                                        *)
LEMMA RouteAdds ==
  ASSUME NEW scope, NEW mask, NEW len \in {28, 36, 44}, NEW attrs, NEW type, NEW data
  PROVE  nlattr_add(RouteRequest(scope, mask, len, attrs), type, data, 4)
           = RouteRequest(scope, mask, len + 8, Append(attrs, Attr32(len, type, data)))
<1>1. NLMSG_ALIGN(len) = len /\ NLMSG_ALIGN(RTA_LENGTH(4)) = 8 /\ RTA_LENGTH(4) = 8
  BY DEF NLMSG_ALIGN, RTA_LENGTH
<1>2. Attribute(len, type, data, 4) = Attr32(len, type, data)
  BY <1>1 DEF Attribute, Attr32
<1> DEFINE nh == RouteRequest(scope, mask, len, attrs)
<1>3. nh.len = len /\ nh.attrs = attrs
  BY DEF RouteRequest
<1>4. ASSUME NEW more, NEW longer \in Nat
      PROVE  [nh EXCEPT !.attrs = more, !.len = longer] = RouteRequest(scope, mask, longer, more)
  <2>1. nh \in [type : {"RTM_NEWROUTE"}, family : {"AF_INET"}, prefixlen : {mask}, scope : {scope},
               index : {0}, len : {len}, attrs : {attrs}]
    BY DEF RouteRequest
  <2> HIDE DEF nh
  <2>2. PICK rec : rec = [nh EXCEPT !.attrs = more, !.len = longer]
    OBVIOUS
  <2>3. rec = RouteRequest(scope, mask, longer, more)
    BY <2>1, <2>2 DEF RouteRequest
  <2> QED
    BY <2>2, <2>3
<1>5. nlattr_add(nh, type, data, 4)
        = [nh EXCEPT !.attrs = Append(nh.attrs, Attribute(NLMSG_ALIGN(nh.len), type, data, 4)),
                     !.len = NLMSG_ALIGN(nh.len) + NLMSG_ALIGN(RTA_LENGTH(4))]
  BY DEF nlattr_add
<1> HIDE DEF nh
<1>6. nlattr_add(nh, type, data, 4) = [nh EXCEPT !.attrs = Append(attrs, Attr32(len, type, data)), !.len = len + 8]
  BY <1>1, <1>2, <1>3, <1>5
<1>7. len + 8 \in Nat
  OBVIOUS
<1> QED
  BY <1>4, <1>6, <1>7, Zenon DEF nh

LEMMA ThreeOf ==
  ASSUME NEW x, NEW y, NEW z
  PROVE  LET seq == Append(Append(Append(<< >>, x), y), z)
         IN  Len(seq) = 3 /\ seq[1] = x /\ seq[2] = y /\ seq[3] = z
<1> DEFINE S == {x, y, z}
<1>1. << >> \in Seq(S) /\ Len(<< >>) = 0 /\ x \in S /\ y \in S /\ z \in S
  OBVIOUS
<1> HIDE DEF S
<1>2. PICK none \in Seq(S) : none = << >> /\ Len(none) = 0
  BY <1>1, Zenon
<1>3. LET one == Append(none, x) IN one \in Seq(S) /\ Len(one) = 1 /\ one[1] = x
  BY <1>1, <1>2, AppendProperties
<1>4. PICK one \in Seq(S) : one = Append(none, x) /\ Len(one) = 1 /\ one[1] = x
  BY <1>3, Zenon
<1>5. LET two == Append(one, y) IN two \in Seq(S) /\ Len(two) = 2 /\ two[1] = x /\ two[2] = y
  BY <1>1, <1>4, AppendProperties
<1>6. PICK two \in Seq(S) : two = Append(one, y) /\ Len(two) = 2 /\ two[1] = x /\ two[2] = y
  BY <1>5, Zenon
<1>7. LET seq == Append(two, z) IN Len(seq) = 3 /\ seq[1] = x /\ seq[2] = y /\ seq[3] = z
  BY <1>1, <1>6, AppendProperties
<1> QED
  BY <1>2, <1>4, <1>6, <1>7, Zenon

(* Three attributes behind a header of 28, the last one the interface.      *)
LEMMA RouteTargets ==
  ASSUME NEW scope, NEW a, NEW b, NEW c
  PROVE  LET msg == nlattr_add32(nlattr_add(nlattr_add(NewRoute(scope, b), "RTA_GATEWAY", c, 4), "RTA_DST", a, 4),
                                 "RTA_OIF", IfIndex)
         IN  WellFormed(msg) /\ msg.type = "RTM_NEWROUTE" /\ Value(msg, "RTA_OIF") = IfIndex
<1> DEFINE gateway == Attr32(28, "RTA_GATEWAY", c)
           dst == Attr32(36, "RTA_DST", a)
           oif == Attr32(44, "RTA_OIF", IfIndex)
           attrs == Append(Append(Append(<< >>, gateway), dst), oif)
           msg == nlattr_add32(nlattr_add(nlattr_add(NewRoute(scope, b), "RTA_GATEWAY", c, 4), "RTA_DST", a, 4),
                               "RTA_OIF", IfIndex)
<1>1. msg = RouteRequest(scope, b, 52, attrs)
  <2>1. NewRoute(scope, b) = RouteRequest(scope, b, 28, << >>)
    BY DEF NewRoute, NLMSG_LENGTH, sizeof_rtmsg, RouteRequest
  <2>0. PICK none : none = << >>
    OBVIOUS
  <2> HIDE DEF gateway, dst, oif
  <2>2. nlattr_add(NewRoute(scope, b), "RTA_GATEWAY", c, 4) = RouteRequest(scope, b, 36, Append(<< >>, gateway))
    <3>1. nlattr_add(RouteRequest(scope, b, 28, none), "RTA_GATEWAY", c, 4)
            = RouteRequest(scope, b, 36, Append(none, gateway))
      BY RouteAdds DEF gateway
    <3> QED
      BY <2>1, <2>0, <3>1
  <2>3. nlattr_add(RouteRequest(scope, b, 36, Append(<< >>, gateway)), "RTA_DST", a, 4)
          = RouteRequest(scope, b, 44, Append(Append(<< >>, gateway), dst))
    BY RouteAdds DEF dst
  <2>4. nlattr_add(RouteRequest(scope, b, 44, Append(Append(<< >>, gateway), dst)), "RTA_OIF", IfIndex, 4)
          = RouteRequest(scope, b, 52, attrs)
    BY RouteAdds DEF oif
  <2> QED
    BY <2>2, <2>3, <2>4 DEF nlattr_add32
<1> HIDE DEF msg
<1>2. /\ gateway.at = 28 /\ dst.at = 36 /\ oif.at = 44
      /\ gateway.len = 8 /\ dst.len = 8 /\ oif.len = 8
      /\ gateway.type # "RTA_OIF" /\ dst.type # "RTA_OIF" /\ oif.type = "RTA_OIF" /\ oif.data = IfIndex
  BY DEF Attr32
<1> HIDE DEF gateway, dst, oif
<1>3. Len(attrs) = 3 /\ attrs[1] = gateway /\ attrs[2] = dst /\ attrs[3] = oif
  BY ThreeOf
<1> HIDE DEF attrs
<1>4. msg.type = "RTM_NEWROUTE" /\ msg.len = 52 /\ msg.attrs = attrs
  BY <1>1 DEF RouteRequest
<1>5. WellFormed(msg)
  <2> DEFINE end(i) == IF i = 0 THEN NLMSG_ALIGN(NLMSG_LENGTH(HeaderSize(msg)))
                                ELSE attrs[i].at + NLMSG_ALIGN(attrs[i].len)
  <2>1. NLMSG_ALIGN(NLMSG_LENGTH(HeaderSize(msg))) = 28
    BY <1>4 DEF HeaderSize, NLMSG_ALIGN, NLMSG_LENGTH, sizeof_rtmsg
  <2>2. NLMSG_ALIGN(8) = 8
    BY DEF NLMSG_ALIGN
  <2>3. end(0) = 28 /\ end(1) = 36 /\ end(2) = 44 /\ end(3) = 52
    BY <1>2, <1>3, <2>1, <2>2
  <2>4. \A i \in 1 .. Len(attrs) : i \in {1, 2, 3}
    BY <1>3
  <2> HIDE DEF end
  <2>5. \A i \in 1 .. Len(attrs) : attrs[i].at = end(i - 1)
    BY <1>2, <1>3, <2>3, <2>4
  <2>6. msg.len = end(Len(attrs))
    BY <1>3, <1>4, <2>3
  <2> QED
    BY <1>4, <2>5, <2>6 DEF WellFormed, end
<1>6. Value(msg, "RTA_OIF") = IfIndex
  <2> DEFINE found == {msg.attrs[i] : i \in 1 .. Len(msg.attrs)}
  <2>1. oif \in found
    <3>1. 3 \in 1 .. Len(attrs)
      BY <1>3
    <3> QED
      BY <1>3, <1>4, <3>1, Zenon
  <2>2. \A x \in found : x.type = "RTA_OIF" <=> x = oif
    <3>1. \A i \in 1 .. Len(attrs) : i \in {1, 2, 3}
      BY <1>3
    <3>2. \A x \in found : x \in {gateway, dst, oif}
      BY <1>3, <1>4, <3>1
    <3>3. gateway.type # "RTA_OIF" /\ dst.type # "RTA_OIF" /\ oif.type = "RTA_OIF"
      BY <1>2
    <3> HIDE DEF found
    <3> QED
      BY <3>2, <3>3
  <2> HIDE DEF found
  <2>3. (CHOOSE x \in found : x.type = "RTA_OIF") = oif
    BY <2>1, <2>2
  <2>4. Value(msg, "RTA_OIF") = (CHOOSE x \in found : x.type = "RTA_OIF").data
    BY Zenon DEF Value, found
  <2> QED
    BY <1>2, <2>3, <2>4
<1> QED
  BY <1>4, <1>5, <1>6 DEF msg

LEMMA TargetedReads ==
  ASSUME NEW msg \in Targeted
  PROVE  /\ WellFormed(msg)
         /\ IfIndex = IF msg.type = "RTM_NEWADDR" THEN msg.index ELSE Value(msg, "RTA_OIF")
<1>1. CASE \E a, b \in Int, family \in {"AF_INET", "AF_INET6"}, size \in {4, 16} :
             msg = NewAddr(family, IfIndex, a, size, b)
  BY <1>1, AddrTargets
<1>2. CASE \E a, b, c \in Int, scope \in {"RT_SCOPE_UNIVERSE", "RT_SCOPE_LINK"} :
             msg = nlattr_add32(nlattr_add(nlattr_add(NewRoute(scope, b), "RTA_GATEWAY", c, 4), "RTA_DST", a, 4),
                                "RTA_OIF", IfIndex)
  BY <1>2, RouteTargets
<1> QED
  BY <1>1, <1>2 DEF Targeted, add_ipv4, add_ipv6, add_route, tap_netlink_add_ipv4, tap_netlink_add_ipv6,
     tap_netlink_add_route, netlink_add_ip, netlink_add_route, tap_netlink_nlattr_add, tap_netlink_nlattr_add32,
     netlink_nlattr_add, netlink_nlattr_add32, nlattr_add32

(* A request that finds the index in the union is one of those.             *)
LEMMA MessageTargeted ==
  ASSUME Step \in Requests, ifr.val = IfIndex PROVE Message \in Targeted
<1> HIDE DEF Step
<1>1. Step.req \in LinkFns /\ Step.val \in Int \X Int \X Int
  BY DEF Requests
<1>2. PICK a \in Int, b \in Int, c \in Int : Step.val = <<a, b, c>>
  BY <1>1
<1>3. Step.val[1] = a /\ Step.val[2] = b /\ Step.val[3] = c
  BY <1>2
<1> HIDE DEF Requests
<1>4. CASE Step.req = "add_ipv4"
  <2>1. Message = add_ipv4(IfIndex, a, b)
    BY <1>3, <1>4 DEF Message
  <2> QED
    BY <2>1 DEF Targeted
<1>5. CASE Step.req = "add_ipv6"
  <2>1. Message = add_ipv6(IfIndex, a, b)
    BY <1>3, <1>5 DEF Message
  <2> QED
    BY <2>1 DEF Targeted
<1>6. CASE Step.req = "add_route"
  <2>1. Message = add_route(IfIndex, c, a, b)
    BY <1>3, <1>6 DEF Message
  <2> QED
    BY <2>1 DEF Targeted
<1>7. CASE Step.req = "tap_netlink_add_ipv4"
  <2>1. Message = tap_netlink_add_ipv4(IfIndex, a, b)
    BY <1>3, <1>7 DEF Message
  <2> QED
    BY <2>1 DEF Targeted
<1>8. CASE Step.req = "tap_netlink_add_ipv6"
  <2>1. Message = tap_netlink_add_ipv6(IfIndex, a, b)
    BY <1>3, <1>8 DEF Message
  <2> QED
    BY <2>1 DEF Targeted
<1>9. CASE Step.req = "tap_netlink_add_route"
  <2>1. Message = tap_netlink_add_route(IfIndex, c, a, b)
    BY <1>3, <1>9 DEF Message
  <2> QED
    BY <2>1 DEF Targeted
<1>10. CASE Step.req = "netlink_add_ip"
  <2>1. Message = netlink_add_ip(IfIndex, a, b)
    BY <1>3, <1>10 DEF Message
  <2> QED
    BY <2>1 DEF Targeted
<1>11. CASE Step.req = "netlink_add_route"
  <2>1. Message = netlink_add_route(IfIndex, c, a, b)
    BY <1>3, <1>11 DEF Message
  <2> QED
    BY <2>1 DEF Targeted
<1> QED
  BY <1>1, <1>4, <1>5, <1>6, <1>7, <1>8, <1>9, <1>10, <1>11 DEF LinkFns

LEMMA TargetInit == Init => TargetInv
<1> SUFFICES ASSUME Init PROVE TargetInv
  OBVIOUS
<1>1. call \in Calls /\ prog = setup_host(call) /\ inbox = << >>
  BY DEF Init
<1>2. Tame(prog)
  BY <1>1, TameSetup
<1>3. prog \in Seq(Steps) /\ \A i \in 1 .. Len(prog) :
        IsRequest(prog[i]) => i > 1 /\ (IsRequest(prog[i - 1]) \/ GetsIndex(prog[i - 1]))
  BY <1>2 DEF Tame
<1>4. inbox \in Seq(Targeted)
  BY <1>1
<1> HIDE DEF Steps, IsRequest, GetsIndex, Targeted
<1> QED
  BY <1>1, <1>3, <1>4 DEF TargetInv

(* What is left keeps its form when the call that was done left the index   *)
(* in the union, or was none that a request may follow.                     *)
LEMMA TargetDone ==
  ASSUME TargetInv, prog # << >>, prog' = Tail(prog), call' = call, inbox' \in Seq(Targeted),
         IsRequest(Step) \/ GetsIndex(Step) => ifr'.val = IfIndex
  PROVE  TargetInv'
<1> HIDE DEF IsRequest, GetsIndex, Targeted
<1>1. prog \in Seq(Steps) /\ call \in Calls
  BY DEF TargetInv
<1>2. /\ prog' \in Seq(Steps) /\ Len(prog) \in Nat /\ Len(prog) > 0 /\ Step = prog[1]
      /\ Len(prog') = Len(prog) - 1 /\ \A i \in 1 .. Len(prog') : prog'[i] = prog[i + 1]
  <2>1. PICK s \in Seq(Steps) : s = prog
    BY <1>1
  <2>2. s # << >> /\ Len(s) \in Nat /\ Head(s) = s[1] /\ Len(s) > 0
    BY <2>1, LenProperties, EmptySeq
  <2>3. Tail(s) \in Seq(Steps) /\ Len(Tail(s)) = Len(s) - 1
        /\ \A i \in 1 .. Len(Tail(s)) : Tail(s)[i] = s[i + 1]
    BY <2>2, HeadTailProperties
  <2> QED
    BY <2>1, <2>2, <2>3 DEF Step
<1>3. ASSUME NEW i \in 1 .. Len(prog'), IsRequest(prog'[i])
      PROVE  IF i = 1 THEN ifr'.val = IfIndex ELSE IsRequest(prog'[i - 1]) \/ GetsIndex(prog'[i - 1])
  <2>1. i + 1 \in 1 .. Len(prog) /\ prog'[i] = prog[i + 1] /\ i + 1 # 1 /\ (i + 1) - 1 = i
    BY <1>2
  <2>2. IsRequest(prog[i]) \/ GetsIndex(prog[i])
    BY <1>3, <2>1 DEF TargetInv
  <2>3. CASE i = 1
    BY <1>2, <2>2, <2>3
  <2>4. CASE i # 1
    <3>1. i - 1 \in 1 .. Len(prog') /\ (i - 1) + 1 = i
      BY <1>2, <2>4
    <3>2. prog'[i - 1] = prog[i]
      BY <1>2, <3>1
    <3> QED
      BY <2>2, <2>4, <3>2
  <2> QED
    BY <2>3, <2>4
<1> QED
  BY <1>1, <1>2, <1>3 DEF TargetInv

LEMMA TargetSame ==
  ASSUME TargetInv, UNCHANGED <<call, prog, inbox>>, prog # << >> /\ IsRequest(Step) => ifr' = ifr
  PROVE  TargetInv'
<1> HIDE DEF IsRequest, GetsIndex, Targeted
<1>1. prog \in Seq(Steps)
  BY DEF TargetInv
<1>2. \A i \in 1 .. Len(prog) : IsRequest(prog[i]) /\ i = 1 => ifr'.val = IfIndex
  <2> SUFFICES ASSUME 1 \in 1 .. Len(prog), IsRequest(prog[1]) PROVE ifr'.val = IfIndex
    OBVIOUS
  <2>1. prog # << >> /\ Step = prog[1]
    <3>1. PICK s \in Seq(Steps) : s = prog
      BY <1>1
    <3>2. 1 \in 1 .. Len(s) => s # << >> /\ Head(s) = s[1]
      OBVIOUS
    <3> QED
      BY <3>1, <3>2 DEF Step
  <2> QED
    BY <2>1 DEF TargetInv
<1> QED
  BY <1>2 DEF TargetInv

(* Every step of a set-up.                                                  *)
LEMMA TargetStep ==
  ASSUME TargetInv, Setup PROVE TargetInv'
<1>1. /\ call' = call /\ inbox \in Seq(Targeted)
      /\ \A op : Doing(op) => prog # << >> /\ Step.op = op /\ Step \in Steps
  <2>1. prog \in Seq(Steps)
    BY DEF TargetInv
  <2>2. prog # << >> => Step \in Steps
    BY <2>1, HeadTailProperties DEF Step
  <2> QED
    BY <2>2, SetupKeeps DEF Doing, TargetInv
<1>2. CASE perror_exit
  BY <1>1, <1>2, TargetSame DEF perror_exit
<1>3. CASE MakeInterface /\ ~perror_exit
  <2>1. prog # << >> /\ ~IsRequest(Step) /\ ~GetsIndex(Step)
    BY <1>1, <1>3 DEF MakeInterface, IsRequest, GetsIndex
  <2>2. prog' = Tail(prog) /\ inbox' = inbox
    BY <1>3 DEF MakeInterface, Done
  <2> QED
    BY <1>1, <2>1, <2>2, TargetDone
<1>4. CASE Socket \/ Close
  <2>1. prog # << >> /\ ~IsRequest(Step) /\ ~GetsIndex(Step)
    BY <1>1, <1>4 DEF Socket, Close, IsRequest, GetsIndex
  <2>2. prog' = Tail(prog) /\ inbox' = inbox
    BY <1>4 DEF Socket, Close, Done
  <2> QED
    BY <1>1, <2>1, <2>2, TargetDone
<1>5. CASE ioctl /\ ~perror_exit
  <2>1. /\ Doing("ioctl") /\ prog' = Tail(prog) /\ inbox' = inbox
        /\ Step.member = "none" => ifr' = Filled(Step.req)
    BY <1>5 DEF ioctl, Done
  <2>2. prog # << >> /\ Step \in Steps /\ Step.op = "ioctl"
    BY <1>1, <2>1
  <2>3. ~IsRequest(Step)
    BY <2>2 DEF IsRequest
  <2>4. ASSUME GetsIndex(Step) PROVE ifr'.val = IfIndex
    <3>1. Step.member = "none" /\ Step.req = "SIOGIFINDEX"
      BY <2>2, <2>4 DEF Steps, SysOps, GetReqs, AddrReqs, Requests, GetsIndex
    <3> QED
      BY <2>1, <3>1 DEF Filled
  <2> QED
    BY <1>1, <2>1, <2>2, <2>3, <2>4, TargetDone
<1>6. CASE send_to_socket \/ tap_send_to_socket \/ netlink_send_to_socket
  <2>1. /\ Doing("netlink") /\ prog' = Tail(prog) /\ ifr' = ifr
        /\ inbox' = Append(inbox, Message) \/ inbox' = inbox
    BY <1>6 DEF Send, send_to_socket, tap_send_to_socket, netlink_send_to_socket, Done
  <2>2. prog # << >> /\ Step \in Steps /\ Step.op = "netlink"
    BY <1>1, <2>1
  <2>3. Step \in Requests
    BY <2>2 DEF Steps, SysOps
  <2>4. ifr.val = IfIndex
    <3>1. 1 \in 1 .. Len(prog) /\ Step = prog[1]
      <4>1. PICK s \in Seq(Steps) : s = prog
        BY DEF TargetInv
      <4>2. s # << >> => 1 \in 1 .. Len(s) /\ Head(s) = s[1]
        BY LenProperties, EmptySeq
      <4> QED
        BY <2>2, <4>1, <4>2 DEF Step
    <3> QED
      BY <2>2, <3>1 DEF TargetInv, IsRequest
  <2>5. Message \in Targeted
    BY <2>3, <2>4, MessageTargeted
  <2> HIDE DEF Targeted
  <2>6. inbox' \in Seq(Targeted)
    BY <1>1, <2>1, <2>5, AppendProperties
  <2> QED
    BY <1>1, <2>1, <2>2, <2>4, <2>6, TargetDone
<1>7. CASE KniIsDown
  BY <1>1, <1>7, TargetSame DEF KniIsDown, KniRest
<1>8. CASE rte_kni_handle_request \/ KniGetFlags \/ KniSetFlags
  <2>1. /\ Doing("kni_loop") /\ inbox' = inbox
        /\ prog' = prog \/ prog' = Tail(prog)
    BY <1>8 DEF rte_kni_handle_request, KniGetFlags, KniSetFlags, InLoop, KniRest, Done
  <2>2. prog # << >> /\ ~IsRequest(Step) /\ ~GetsIndex(Step)
    BY <1>1, <2>1 DEF IsRequest, GetsIndex
  <2>3. CASE prog' = prog
    BY <1>1, <2>1, <2>2, <2>3, TargetSame
  <2>4. CASE prog' = Tail(prog)
    BY <1>1, <2>1, <2>2, <2>4, TargetDone
  <2> QED
    BY <2>1, <2>3, <2>4
<1> QED
  BY <1>2, <1>3, <1>4, <1>5, <1>6, <1>7, <1>8 DEF Setup

LEMMA TargetNext == TargetInv /\ [Next]_vars => TargetInv'
<1> SUFFICES ASSUME TargetInv, [Next]_vars PROVE TargetInv'
  OBVIOUS
<1>1. CASE UNCHANGED <<call, prog, inbox, ifr>>
  BY <1>1, TargetSame
<1>2. CASE Setup
  BY <1>2, TargetStep
<1>3. CASE KniDown \/ tap_rx_to_ring \/ kni_rx_to_ring \/ KniRetry \/ Worker
  BY <1>1, <1>3
     DEF KniDown, KniRest, tap_rx_to_ring, kni_rx_to_ring, KniRetry, Worker, WorkerTakes, WorkerFrees, LoopRest
<1>4. CASE UNCHANGED vars
  BY <1>1, <1>4 DEF vars
<1> QED
  BY <1>2, <1>3, <1>4 DEF Next

(* RequestsTarget of every state a set-up reaches: whatever the addresses,  *)
(* the number of routes and the calls that fail, a request is laid out as   *)
(* the kernel reads it and names the interface, the index having been       *)
(* fetched again since another member of the union was written.             *)
THEOREM HostRequestsTarget == Spec => []RequestsTarget
<1>1. Init => TargetInv
  BY TargetInit
<1>2. TargetInv /\ [Next]_vars => TargetInv'
  BY TargetNext
<1>3. TargetInv => RequestsTarget
  <2> SUFFICES ASSUME TargetInv, NEW msg \in Received
               PROVE  /\ WellFormed(msg)
                      /\ IfIndex = IF msg.type = "RTM_NEWADDR" THEN msg.index ELSE Value(msg, "RTA_OIF")
    BY DEF RequestsTarget
  <2>1. msg \in Targeted
    BY ElementOfSeq DEF Received, TargetInv
  <2> QED
    BY <2>1, TargetedReads
<1> QED
  BY <1>1, <1>2, <1>3, PTL DEF Spec

----------------------------------------------------------------------------
(* What the set-up has configured when it ends.                             *)

Members(seq) == {seq[i] : i \in 1 .. Len(seq)}

AddrFns == {"add_ipv4", "add_ipv6"}

RouteFns == {"add_route"}

(* What the requests among some calls ask for: an address and its prefix,   *)
(* or a destination, its prefix and the gateway.                            *)
Meant(s) == IF s.req \in RouteFns THEN <<s.val[1], s.val[2], s.val[3]>> ELSE <<s.val[1], s.val[2]>>

Asks(steps, fns) == {Meant(s) : s \in {x \in steps : x.op = "netlink" /\ x.req \in fns}}

AddrsAsked(c) == IF c.rw THEN {<<c.loopback, 32>>, <<c.ipv6, 64>>} \ {<<0, 32>>, <<0, 64>>} ELSE {}

RoutesAsked(c) ==
    IF c.rw THEN {<<c.routes[i], c.routes[i + 1], c.gw>> : i \in {j \in 1 .. Len(c.routes) - 1 : j % 2 = 1}}
    ELSE {}

(* The ioctls that configure an interface (AddrReqs): those a set-up is to  *)
(* make, and with which values.                                             *)
V4Reqs == {"SIOCSIFADDR", "SIOCSIFDSTADDR", "SIOCSIFBRDADDR", "SIOCSIFNETMASK"}

Wants(c, req) == \/ req \in V4Reqs /\ c.rw /\ c.ipv4 # 0
                 \/ req = "SIOCSIFHWADDR" /\ c.kind = "tap" /\ c.mac # 0
                 \/ req = "SIOCSIFMTU" /\ c.kind = "tap" /\ c.mtu # 0
                 \/ req = "SIOCSIFFLAGS" /\ c.kind = "tap"

OptAsked(c, req) == CASE req = "SIOCSIFADDR"    -> c.ipv4
                      [] req = "SIOCSIFDSTADDR" -> DstAddr(c.ipv4)
                      [] req = "SIOCSIFBRDADDR" -> BrdAddr(c.ipv4)
                      [] req = "SIOCSIFNETMASK" -> MASK
                      [] req = "SIOCSIFHWADDR"  -> c.mac
                      [] req = "SIOCSIFMTU"     -> c.mtu
                      [] req = "SIOCSIFFLAGS"   -> UpFlags(c.rw)

Configures(c) == c.kind # "copy"

(* The last call that is left leaves no socket open: it closes it, or it    *)
(* waits for a KNI interface and forgets it.                                *)
Closing == {"close", "kni_loop"}

EndsClosed(seq) == Len(seq) > 0 /\ seq[Len(seq)].op \in Closing

WaitsOnce(seq) ==
    \A i, j \in 1 .. Len(seq) : seq[i].op = "kni_loop" /\ seq[j].op = "kni_loop" => i = j

(* The calls that are left send no request but the three of ext_netlink.c,  *)
(* and configure nothing but what is wanted.                                *)
OwnRequests(steps) == \A s \in steps : s.op = "netlink" => s.req \in AddrFns \cup RouteFns

OptSteps(c, steps) ==
    \A s \in steps : s.req \in AddrReqs => Wants(c, s.req) /\ s.val = OptAsked(c, s.req)

Has(steps, req) == \E s \in steps : s.req = req

(* A request is left, or the kernel has got it.                             *)
OptDone(req) == Has(Members(prog), req) \/ (req \in DOMAIN conf /\ conf[req] = OptAsked(call, req))

(* The inductive invariant: what was configured and what the calls that are *)
(* left will configure is together what was asked for.                      *)
SocketInv ==
    /\ status = "loop" => prog = << >>
    /\ IF prog = << >> THEN ~sock ELSE EndsClosed(prog)
    /\ leaked \in Nat /\ WaitsOnce(prog)
    /\ Left("kni_loop") => call.kind = "kni" /\ leaked = 0
    /\ leaked <= IF call.kind = "kni" THEN 1 ELSE 0

AskedInv ==
    /\ OwnRequests(Members(prog)) /\ OptSteps(call, Members(prog))
    /\ \A req \in AddrReqs : /\ Wants(call, req) => OptDone(req)
                             /\ req \in DOMAIN conf => Wants(call, req)
    /\ ~lost => Addresses \cup Asks(Members(prog), AddrFns) = AddrsAsked(call)
    /\ ~lost => Routes \cup Asks(Members(prog), RouteFns) = RoutesAsked(call)

ConfInv == TargetInv /\ (Configures(call) => SocketInv /\ AskedInv)

LEMMA MembersType ==
  ASSUME NEW S, NEW s \in Seq(S) PROVE Members(s) \subseteq S
  BY ElementOfSeq DEF Members

LEMMA MembersSeq ==
  ASSUME NEW S, NEW T, NEW s \in Seq(S), Members(s) \subseteq T PROVE s \in Seq(T)
<1>1. Len(s) \in Nat /\ s = [i \in 1 .. Len(s) |-> s[i]]
  BY LenProperties
<1>2. \A i \in 1 .. Len(s) : s[i] \in T
  BY DEF Members
<1>3. [i \in 1 .. Len(s) |-> s[i]] \in Seq(T)
  BY <1>1, <1>2
<1> QED
  BY <1>1, <1>3

LEMMA MembersConcat ==
  ASSUME NEW S, NEW s \in Seq(S), NEW t \in Seq(S)
  PROVE  s \o t \in Seq(S) /\ Members(s \o t) = Members(s) \cup Members(t)
<1> DEFINE all == s \o t
<1>1. /\ all \in Seq(S) /\ Len(all) = Len(s) + Len(t) /\ Len(s) \in Nat /\ Len(t) \in Nat
      /\ \A i \in 1 .. Len(s) + Len(t) : all[i] = IF i <= Len(s) THEN s[i] ELSE t[i - Len(s)]
  BY ConcatProperties, LenProperties
<1> HIDE DEF all
<1>2. ASSUME NEW i \in 1 .. Len(all) PROVE all[i] \in Members(s) \cup Members(t)
  <2>1. CASE i <= Len(s)
    <3>1. i \in 1 .. Len(s) /\ all[i] = s[i]
      BY <1>1, <2>1
    <3> QED
      BY <3>1 DEF Members
  <2>2. CASE ~(i <= Len(s))
    <3>1. i - Len(s) \in 1 .. Len(t) /\ all[i] = t[i - Len(s)]
      BY <1>1, <2>2
    <3> QED
      BY <3>1 DEF Members
  <2> QED
    BY <2>1, <2>2
<1>3. ASSUME NEW i \in 1 .. Len(s) PROVE s[i] \in Members(all)
  <2>1. i \in 1 .. Len(all) /\ all[i] = s[i]
    BY <1>1
  <2> QED
    BY <2>1 DEF Members
<1>4. ASSUME NEW i \in 1 .. Len(t) PROVE t[i] \in Members(all)
  <2>1. i + Len(s) \in 1 .. Len(all) /\ ~(i + Len(s) <= Len(s)) /\ (i + Len(s)) - Len(s) = i
    BY <1>1
  <2>2. all[i + Len(s)] = t[i]
    BY <1>1, <2>1
  <2> QED
    BY <2>1, <2>2 DEF Members
<1>5. Members(all) = Members(s) \cup Members(t)
  BY <1>2, <1>3, <1>4 DEF Members
<1> QED
  BY <1>1, <1>5 DEF all

LEMMA MembersWhen ==
  ASSUME NEW S, NEW s \in Seq(S), NEW test
  PROVE  When(test, s) \in Seq(S) /\ Members(When(test, s)) = IF test THEN Members(s) ELSE {}
<1>1. << >> \in Seq(S) /\ Members(<< >>) = {}
  BY DEF Members
<1> QED
  BY <1>1 DEF When

LEMMA MembersOne ==
  ASSUME NEW S, NEW x \in S PROVE <<x>> \in Seq(S) /\ Members(<<x>>) = {x}
  BY DEF Members

LEMMA MembersTail ==
  ASSUME NEW S, NEW s \in Seq(S), s # << >>
  PROVE  /\ Tail(s) \in Seq(S) /\ Head(s) \in Members(s) /\ Head(s) \in S
         /\ Members(s) = {Head(s)} \cup Members(Tail(s))
<1>1. /\ Len(s) \in Nat /\ Len(s) > 0 /\ Head(s) = s[1] /\ Tail(s) \in Seq(S) /\ Len(Tail(s)) = Len(s) - 1
      /\ \A i \in 1 .. Len(Tail(s)) : Tail(s)[i] = s[i + 1]
  BY HeadTailProperties, LenProperties, EmptySeq
<1>2. ASSUME NEW i \in 1 .. Len(s) PROVE s[i] = s[1] \/ s[i] \in Members(Tail(s))
  <2> SUFFICES ASSUME i # 1 PROVE s[i] \in Members(Tail(s))
    OBVIOUS
  <2>1. i - 1 \in 1 .. Len(Tail(s)) /\ (i - 1) + 1 = i
    BY <1>1
  <2>2. Tail(s)[i - 1] = s[i]
    BY <1>1, <2>1
  <2> QED
    BY <2>1, <2>2 DEF Members
<1>3. ASSUME NEW i \in 1 .. Len(Tail(s)) PROVE Tail(s)[i] \in Members(s)
  <2>1. i + 1 \in 1 .. Len(s) /\ Tail(s)[i] = s[i + 1]
    BY <1>1
  <2> QED
    BY <2>1 DEF Members
<1>4. 1 \in 1 .. Len(s)
  BY <1>1
<1>5. s[1] \in Members(s)
  BY <1>4 DEF Members
<1>6. s[1] \in S
  BY <1>4, ElementOfSeq
<1>7. Members(s) \subseteq {s[1]} \cup Members(Tail(s))
  BY <1>2 DEF Members
<1>8. Members(Tail(s)) \subseteq Members(s)
  BY <1>3 DEF Members
<1> QED
  BY <1>1, <1>5, <1>6, <1>7, <1>8

(* Asks is of the members, one by one.                                      *)
LEMMA AsksUnion ==
  ASSUME NEW A, NEW B, NEW fns
  PROVE  Asks(A \cup B, fns) = Asks(A, fns) \cup Asks(B, fns)
  BY DEF Asks

LEMMA AsksNone ==
  ASSUME NEW A, NEW fns, \A s \in A : ~(s.op = "netlink" /\ s.req \in fns)
  PROVE  Asks(A, fns) = {}
  BY DEF Asks

LEMMA AsksThree ==
  ASSUME NEW A, NEW B, NEW C, NEW fns
  PROVE  Asks((A \cup B) \cup C, fns) = (Asks(A, fns) \cup Asks(B, fns)) \cup Asks(C, fns)
<1>1. Asks((A \cup B) \cup C, fns) = Asks(A \cup B, fns) \cup Asks(C, fns)
  BY AsksUnion
<1>2. Asks(A \cup B, fns) = Asks(A, fns) \cup Asks(B, fns)
  BY AsksUnion
<1> QED
  BY <1>1, <1>2

NeverWaits(seq) == \A s \in Members(seq) : s.op # "kni_loop"

LEMMA WaitsConcat ==
  ASSUME NEW S, NEW s \in Seq(S), NEW t \in Seq(S)
  PROVE  /\ NeverWaits(s) /\ WaitsOnce(t) => WaitsOnce(s \o t)
         /\ WaitsOnce(s) /\ NeverWaits(t) => WaitsOnce(s \o t)
         /\ NeverWaits(s) /\ NeverWaits(t) => NeverWaits(s \o t)
         /\ EndsClosed(t) => EndsClosed(s \o t)
<1> DEFINE all == s \o t
<1>1. /\ all \in Seq(S) /\ Len(all) = Len(s) + Len(t) /\ Len(s) \in Nat /\ Len(t) \in Nat
      /\ \A i \in 1 .. Len(s) + Len(t) : all[i] = IF i <= Len(s) THEN s[i] ELSE t[i - Len(s)]
  BY ConcatProperties, LenProperties
<1>2. Members(all) = Members(s) \cup Members(t)
  BY MembersConcat
<1> HIDE DEF all
<1>3. ASSUME NeverWaits(s), WaitsOnce(t) PROVE WaitsOnce(all)
  <2> SUFFICES ASSUME NEW i \in 1 .. Len(all), NEW j \in 1 .. Len(all),
                      all[i].op = "kni_loop", all[j].op = "kni_loop"
               PROVE  i = j
    BY DEF WaitsOnce
  <2>1. ASSUME NEW k \in 1 .. Len(all), all[k].op = "kni_loop"
        PROVE  k - Len(s) \in 1 .. Len(t) /\ t[k - Len(s)].op = "kni_loop"
    <3>1. ~(k <= Len(s))
      <4> SUFFICES ASSUME k <= Len(s) PROVE FALSE
        OBVIOUS
      <4>1. k \in 1 .. Len(s) /\ all[k] = s[k]
        BY <1>1
      <4> QED
        BY <1>3, <2>1, <4>1 DEF NeverWaits, Members
    <3> QED
      BY <1>1, <2>1, <3>1
  <2>2. i - Len(s) = j - Len(s)
    BY <1>3, <2>1 DEF WaitsOnce
  <2> QED
    BY <1>1, <2>2
<1>4. ASSUME WaitsOnce(s), NeverWaits(t) PROVE WaitsOnce(all)
  <2> SUFFICES ASSUME NEW i \in 1 .. Len(all), NEW j \in 1 .. Len(all),
                      all[i].op = "kni_loop", all[j].op = "kni_loop"
               PROVE  i = j
    BY DEF WaitsOnce
  <2>1. ASSUME NEW k \in 1 .. Len(all), all[k].op = "kni_loop"
        PROVE  k \in 1 .. Len(s) /\ s[k].op = "kni_loop"
    <3>1. k <= Len(s)
      <4> SUFFICES ASSUME ~(k <= Len(s)) PROVE FALSE
        OBVIOUS
      <4>1. k - Len(s) \in 1 .. Len(t) /\ all[k] = t[k - Len(s)]
        BY <1>1
      <4> QED
        BY <1>4, <2>1, <4>1 DEF NeverWaits, Members
    <3> QED
      BY <1>1, <2>1, <3>1
  <2> QED
    BY <1>4, <2>1 DEF WaitsOnce
<1>5. NeverWaits(s) /\ NeverWaits(t) => NeverWaits(all)
  BY <1>2 DEF NeverWaits
<1>6. ASSUME EndsClosed(t) PROVE EndsClosed(all)
  <2>1. Len(all) \in 1 .. Len(s) + Len(t) /\ ~(Len(all) <= Len(s)) /\ Len(all) - Len(s) = Len(t) /\ Len(all) > 0
    BY <1>1, <1>6 DEF EndsClosed
  <2>2. all[Len(all)] = t[Len(t)]
    BY <1>1, <2>1
  <2> QED
    BY <1>6, <2>1, <2>2 DEF EndsClosed
<1> QED
  BY <1>3, <1>4, <1>5, <1>6 DEF all

LEMMA WaitsTail ==
  ASSUME NEW S, NEW s \in Seq(S), s # << >>, WaitsOnce(s), EndsClosed(s)
  PROVE  /\ WaitsOnce(Tail(s))
         /\ Head(s).op = "kni_loop" => NeverWaits(Tail(s))
         /\ IF Tail(s) = << >> THEN Head(s).op \in Closing ELSE EndsClosed(Tail(s))
<1> DEFINE t == Tail(s)
<1>1. /\ Len(s) \in Nat /\ Len(s) > 0 /\ Head(s) = s[1] /\ t \in Seq(S) /\ Len(t) = Len(s) - 1
      /\ \A i \in 1 .. Len(t) : t[i] = s[i + 1]
  BY HeadTailProperties, LenProperties, EmptySeq
<1> HIDE DEF t
<1>2. ASSUME NEW i \in 1 .. Len(t) PROVE i + 1 \in 1 .. Len(s) /\ t[i] = s[i + 1]
  BY <1>1
<1>3. WaitsOnce(t)
  <2> SUFFICES ASSUME NEW i \in 1 .. Len(t), NEW j \in 1 .. Len(t), t[i].op = "kni_loop", t[j].op = "kni_loop"
               PROVE  i = j
    BY DEF WaitsOnce
  <2>1. i + 1 = j + 1
    BY <1>2 DEF WaitsOnce
  <2> QED
    BY <1>1, <2>1
<1>4. ASSUME Head(s).op = "kni_loop" PROVE NeverWaits(t)
  <2> SUFFICES ASSUME NEW i \in 1 .. Len(t), t[i].op = "kni_loop" PROVE FALSE
    BY DEF NeverWaits, Members
  <2>1. 1 \in 1 .. Len(s) /\ s[1].op = "kni_loop" /\ s[i + 1].op = "kni_loop" /\ i + 1 \in 1 .. Len(s)
    BY <1>1, <1>2, <1>4
  <2>2. i + 1 = 1
    BY <2>1 DEF WaitsOnce
  <2> QED
    BY <1>1, <2>2
<1>5. ASSUME t = << >> PROVE Head(s).op \in Closing
  <2>1. Len(t) = 0
    BY <1>5
  <2>2. Len(s) = 1
    BY <1>1, <2>1
  <2> QED
    BY <1>1, <2>2 DEF EndsClosed
<1>6. ASSUME t # << >> PROVE EndsClosed(t)
  <2>1. Len(t) \in Nat /\ Len(t) # 0
    BY <1>1, <1>6, LenProperties, EmptySeq
  <2>2. Len(t) \in 1 .. Len(t) /\ Len(t) + 1 = Len(s) /\ Len(t) > 0
    BY <1>1, <2>1
  <2>3. t[Len(t)] = s[Len(s)]
    BY <1>1, <2>2
  <2> QED
    BY <2>2, <2>3 DEF EndsClosed
<1> QED
  BY <1>3, <1>4, <1>5, <1>6 DEF t

(* Every second word of the routes is a mask.                               *)
LEMMA RoutesAsks ==
  ASSUME NEW c \in Calls, c.rw
  PROVE  LET routes == setup_routes(c.routes, c.gw)
         IN  /\ routes \in Seq(Steps)
             /\ \A s \in Members(routes) : s.op = "netlink" /\ s.req = "add_route"
             /\ Asks(Members(routes), RouteFns) = RoutesAsked(c)
<1> DEFINE words == c.routes
           routes == setup_routes(words, c.gw)
           half == Len(words) \div 2
           step(i) == [op |-> "netlink", req |-> "add_route", member |-> "none",
                       val |-> <<words[2 * i - 1], words[2 * i], c.gw>>]
<1>1. words \in Seq(Nat) /\ c.gw \in Nat
  BY CallType
<1>2. routes \in Seq(Requests)
  BY <1>1, TameRoutes
<1>3. Requests \subseteq Steps
  BY DEF Steps
<1>4. routes \in Seq(Steps)
  <2> HIDE DEF Requests, Steps, routes
  <2> QED
    BY <1>2, <1>3
<1>5. Len(words) \in Nat /\ half \in Nat
  <2>1. Len(words) \in Nat
    BY <1>1, LenProperties
  <2> HIDE DEF words
  <2> QED
    BY <2>1
<1>6. routes = [i \in 1 .. half |-> step(i)]
  BY DEF setup_routes, Request
<1> HIDE DEF words
<1>7. Members(routes) = {step(i) : i \in 1 .. half}
  <2>1. DOMAIN routes = 1 .. half /\ \A i \in 1 .. half : routes[i] = step(i)
    BY <1>6
  <2>2. Len(routes) = half
    BY <1>5, <1>4, <2>1, LenProperties
  <2> HIDE DEF routes, step, half
  <2> QED
    BY <2>1, <2>2 DEF Members
<1>8. ASSUME NEW i \in 1 .. half
      PROVE  /\ step(i).op = "netlink" /\ step(i).req = "add_route"
             /\ Meant(step(i)) = <<words[2 * i - 1], words[2 * i], c.gw>>
  BY DEF Meant, RouteFns
<1> HIDE DEF routes, step
<1>9. Asks(Members(routes), RouteFns) = {<<words[2 * i - 1], words[2 * i], c.gw>> : i \in 1 .. half}
  <2>1. {x \in Members(routes) : x.op = "netlink" /\ x.req \in RouteFns} = Members(routes)
    BY <1>7, <1>8 DEF RouteFns
  <2>2. Asks(Members(routes), RouteFns) = {Meant(s) : s \in Members(routes)}
    BY <2>1 DEF Asks
  <2> HIDE DEF half
  <2> QED
    BY <1>7, <1>8, <2>2
<1>10. {<<words[2 * i - 1], words[2 * i], c.gw>> : i \in 1 .. half}
         = {<<words[i], words[i + 1], c.gw>> : i \in {j \in 1 .. Len(words) - 1 : j % 2 = 1}}
  <2>1. ASSUME NEW i \in 1 .. half
        PROVE  2 * i - 1 \in {j \in 1 .. Len(words) - 1 : j % 2 = 1} /\ (2 * i - 1) + 1 = 2 * i
    BY <1>5
  <2>2. ASSUME NEW j \in 1 .. Len(words) - 1, j % 2 = 1
        PROVE  \E i \in 1 .. half : 2 * i - 1 = j /\ 2 * i = j + 1
    <3>1. (j + 1) \div 2 \in 1 .. half /\ 2 * ((j + 1) \div 2) = j + 1
      BY <1>5, <2>2
    <3> QED
      BY <3>1
  <2> HIDE DEF half
  <2> QED
    BY <2>1, <2>2
<1> QED
  BY <1>4, <1>7, <1>8, <1>9, <1>10 DEF RoutesAsked, words, routes

(* One call is a sequence of one step.                                      *)
Is(seq, s) == seq \in Seq(Steps) /\ Members(seq) = {s}

LEMMA IsOne ==
  ASSUME NEW s \in Steps PROVE Is(<<s>>, s)
<1> HIDE DEF Steps
<1> QED
  BY MembersOne DEF Is

Req(fn, a, b, c) == [op |-> "netlink", req |-> fn, member |-> "none", val |-> <<a, b, c>>]

LEMMA OneCall ==
  /\ \A op \in SysOps : \E s \in Steps :
       s.op = op /\ s.req = op /\ Is(Sys(op), s)
  /\ \A req \in GetReqs : \E s \in Steps :
       s.op = "ioctl" /\ s.req = req /\ Is(Ioctl(req), s)
  /\ \A req \in AddrReqs, member \in {"addr", "hwaddr", "mtu", "flags"}, v \in Int : \E s \in Steps :
       s.op = "ioctl" /\ s.req = req /\ s.val = v /\ Is(IoctlWith(req, member, v), s)
  /\ \A fn \in LinkFns, a, b, c \in Int : Is(Request(fn, a, b, c), Req(fn, a, b, c)) /\ Req(fn, a, b, c) \in Steps
<1>1. ASSUME NEW op \in SysOps
      PROVE  \E s \in Steps : s.op = op /\ s.req = op /\ Is(Sys(op), s)
  <2>1. PICK s : s = [op |-> op, req |-> op, member |-> "none", val |-> 0]
    OBVIOUS
  <2>2. s \in Steps
    BY <2>1 DEF Steps
  <2>3. s.op = op /\ s.req = op /\ Is(Sys(op), s)
    BY <2>1, <2>2, IsOne DEF Sys
  <2> QED
    BY <2>2, <2>3
<1>2. ASSUME NEW req \in GetReqs
      PROVE  \E s \in Steps : s.op = "ioctl" /\ s.req = req /\ Is(Ioctl(req), s)
  <2>1. PICK s : s = [op |-> "ioctl", req |-> req, member |-> "none", val |-> 0]
    OBVIOUS
  <2>2. s \in Steps
    BY <2>1 DEF Steps
  <2>3. s.op = "ioctl" /\ s.req = req /\ Is(Ioctl(req), s)
    BY <2>1, <2>2, IsOne DEF Ioctl
  <2> QED
    BY <2>2, <2>3
<1>3. ASSUME NEW req \in AddrReqs, NEW member \in {"addr", "hwaddr", "mtu", "flags"}, NEW v \in Int
      PROVE  \E s \in Steps : s.op = "ioctl" /\ s.req = req /\ s.val = v /\ Is(IoctlWith(req, member, v), s)
  <2>1. PICK s : s = [op |-> "ioctl", req |-> req, member |-> member, val |-> v]
    OBVIOUS
  <2>2. s \in Steps
    BY <2>1 DEF Steps
  <2>3. s.op = "ioctl" /\ s.req = req /\ s.val = v /\ Is(IoctlWith(req, member, v), s)
    BY <2>1, <2>2, IsOne DEF IoctlWith
  <2> QED
    BY <2>2, <2>3
<1>4. ASSUME NEW fn \in LinkFns, NEW a \in Int, NEW b \in Int, NEW c \in Int
      PROVE  Is(Request(fn, a, b, c), Req(fn, a, b, c)) /\ Req(fn, a, b, c) \in Steps
  <2>1. Req(fn, a, b, c) \in Steps
    BY DEF Req, Steps, Requests
  <2> QED
    BY <2>1, IsOne DEF Request, Req
<1> QED
  BY <1>1, <1>2, <1>3, <1>4

LEMMA StepsConcat ==
  ASSUME NEW s \in Seq(Steps), NEW t \in Seq(Steps)
  PROVE  s \o t \in Seq(Steps) /\ Members(s \o t) = Members(s) \cup Members(t)
<1> HIDE DEF Steps
<1> QED
  BY MembersConcat

LEMMA IsMore ==
  ASSUME NEW s \in Seq(Steps), NEW e, NEW x, Is(e, x)
  PROVE  s \o e \in Seq(Steps) /\ Members(s \o e) = Members(s) \cup {x}
<1> HIDE DEF Steps
<1> QED
  BY MembersConcat DEF Is

(* Calls that send no request, do not wait for a KNI interface and configure *)
(* only what is wanted.                                                     *)
Plain(c) ==
    {s \in Steps : /\ s.op \notin {"netlink", "kni_loop"}
                   /\ s.req \in AddrReqs => Wants(c, s.req) /\ s.val = OptAsked(c, s.req)}

LEMMA PlainOne ==
  ASSUME NEW c
  PROVE  /\ \A op \in SysOps \ {"kni_loop"} : Sys(op) \in Seq(Plain(c))
         /\ \A req \in GetReqs : Ioctl(req) \in Seq(Plain(c))
         /\ \A req \in AddrReqs, member \in {"addr", "hwaddr", "mtu", "flags"}, v \in Int :
              Wants(c, req) /\ v = OptAsked(c, req) =>
                IoctlWith(req, member, v) \in Seq(Plain(c)) /\ Has(Members(IoctlWith(req, member, v)), req)
<1>1. ASSUME NEW seq, NEW s \in Plain(c), Is(seq, s) PROVE seq \in Seq(Plain(c))
  <2> HIDE DEF Plain, Steps
  <2> QED
    BY <1>1, MembersSeq DEF Is
<1>2. ASSUME NEW op \in SysOps \ {"kni_loop"} PROVE Sys(op) \in Seq(Plain(c))
  <2>1. PICK s \in Steps : s.op = op /\ s.req = op /\ Is(Sys(op), s)
    BY OneCall
  <2>2. s \in Plain(c)
    BY <2>1 DEF Plain, SysOps, AddrReqs
  <2> HIDE DEF Plain
  <2> QED
    BY <1>1, <2>1, <2>2
<1>3. ASSUME NEW req \in GetReqs PROVE Ioctl(req) \in Seq(Plain(c))
  <2>1. PICK s \in Steps : s.op = "ioctl" /\ s.req = req /\ Is(Ioctl(req), s)
    BY OneCall
  <2>2. s \in Plain(c)
    BY <2>1 DEF Plain, GetReqs, AddrReqs
  <2> HIDE DEF Plain
  <2> QED
    BY <1>1, <2>1, <2>2
<1>4. ASSUME NEW req \in AddrReqs, NEW member \in {"addr", "hwaddr", "mtu", "flags"}, NEW v \in Int,
             Wants(c, req), v = OptAsked(c, req)
      PROVE  IoctlWith(req, member, v) \in Seq(Plain(c)) /\ Has(Members(IoctlWith(req, member, v)), req)
  <2>1. PICK s \in Steps : s.op = "ioctl" /\ s.req = req /\ s.val = v /\ Is(IoctlWith(req, member, v), s)
    BY OneCall
  <2>2. s \in Plain(c)
    BY <1>4, <2>1 DEF Plain
  <2>3. Has(Members(IoctlWith(req, member, v)), req)
    BY <2>1 DEF Is, Has
  <2> HIDE DEF Plain
  <2> QED
    BY <1>1, <2>1, <2>2, <2>3
<1> QED
  BY <1>2, <1>3, <1>4

(* The ioctls for an address, when there is one.                            *)
LEMMA AddrSteps ==
  ASSUME NEW c \in Calls, c.rw
  PROVE  LET addrs == When(c.ipv4 # 0, Ioctl("SIOGIFINDEX")
                             \o IoctlWith("SIOCSIFADDR", "addr", c.ipv4)
                             \o IoctlWith("SIOCSIFDSTADDR", "addr", DstAddr(c.ipv4))
                             \o IoctlWith("SIOCSIFBRDADDR", "addr", BrdAddr(c.ipv4))
                             \o IoctlWith("SIOCSIFNETMASK", "addr", MASK))
         IN  /\ addrs \in Seq(Steps) /\ OptSteps(c, Members(addrs))
             /\ \A s \in Members(addrs) : s.op = "ioctl"
             /\ \A req \in V4Reqs : Wants(c, req) => Has(Members(addrs), req)
<1>1. c.ipv4 \in Int /\ DstAddr(c.ipv4) \in Int /\ BrdAddr(c.ipv4) \in Int /\ MASK \in Int
  <2>1. PICK n \in Nat : n = c.ipv4
    BY CallType
  <2>2. n \in Int /\ DstAddr(n) \in Int /\ BrdAddr(n) \in Int /\ MASK \in Int
    BY DEF DstAddr, BrdAddr, MASK
  <2> QED
    BY <2>1, <2>2
<1>2. /\ "SIOGIFINDEX" \in GetReqs
      /\ {"SIOCSIFADDR", "SIOCSIFDSTADDR", "SIOCSIFBRDADDR", "SIOCSIFNETMASK"} \subseteq AddrReqs
  BY DEF GetReqs, AddrReqs
<1>3. PICK s1 \in Steps : s1.op = "ioctl" /\ s1.req = "SIOGIFINDEX" /\ Is(Ioctl("SIOGIFINDEX"), s1)
  BY <1>2, OneCall
<1>4. PICK s2 \in Steps : /\ s2.op = "ioctl" /\ s2.req = "SIOCSIFADDR" /\ s2.val = c.ipv4
                          /\ Is(IoctlWith("SIOCSIFADDR", "addr", c.ipv4), s2)
  BY <1>1, <1>2, OneCall
<1>5. PICK s3 \in Steps : /\ s3.op = "ioctl" /\ s3.req = "SIOCSIFDSTADDR" /\ s3.val = DstAddr(c.ipv4)
                          /\ Is(IoctlWith("SIOCSIFDSTADDR", "addr", DstAddr(c.ipv4)), s3)
  BY <1>1, <1>2, OneCall
<1>6. PICK s4 \in Steps : /\ s4.op = "ioctl" /\ s4.req = "SIOCSIFBRDADDR" /\ s4.val = BrdAddr(c.ipv4)
                          /\ Is(IoctlWith("SIOCSIFBRDADDR", "addr", BrdAddr(c.ipv4)), s4)
  BY <1>1, <1>2, OneCall
<1>7. PICK s5 \in Steps : /\ s5.op = "ioctl" /\ s5.req = "SIOCSIFNETMASK" /\ s5.val = MASK
                          /\ Is(IoctlWith("SIOCSIFNETMASK", "addr", MASK), s5)
  BY <1>1, <1>2, OneCall
<1> DEFINE e1 == Ioctl("SIOGIFINDEX")
           e2 == IoctlWith("SIOCSIFADDR", "addr", c.ipv4)
           e3 == IoctlWith("SIOCSIFDSTADDR", "addr", DstAddr(c.ipv4))
           e4 == IoctlWith("SIOCSIFBRDADDR", "addr", BrdAddr(c.ipv4))
           e5 == IoctlWith("SIOCSIFNETMASK", "addr", MASK)
           all == e1 \o e2 \o e3 \o e4 \o e5
           addrs == When(c.ipv4 # 0, all)
<1>8. Is(e1, s1) /\ Is(e2, s2) /\ Is(e3, s3) /\ Is(e4, s4) /\ Is(e5, s5)
  BY <1>3, <1>4, <1>5, <1>6, <1>7
<1> HIDE DEF Steps, e1, e2, e3, e4, e5
<1>15. all \in Seq(Steps) /\ Members(all) = {s1, s2, s3, s4, s5}
  <2>1. e1 \in Seq(Steps) /\ Members(e1) = {s1}
    BY <1>8 DEF Is
  <2>2. e1 \o e2 \in Seq(Steps) /\ Members(e1 \o e2) = Members(e1) \cup {s2}
    BY <1>8, <2>1, IsMore
  <2>3. e1 \o e2 \o e3 \in Seq(Steps) /\ Members(e1 \o e2 \o e3) = Members(e1 \o e2) \cup {s3}
    BY <1>8, <2>2, IsMore
  <2>4. /\ e1 \o e2 \o e3 \o e4 \in Seq(Steps)
        /\ Members(e1 \o e2 \o e3 \o e4) = Members(e1 \o e2 \o e3) \cup {s4}
    BY <1>8, <2>3, IsMore
  <2>5. all \in Seq(Steps) /\ Members(all) = Members(e1 \o e2 \o e3 \o e4) \cup {s5}
    BY <1>8, <2>4, IsMore
  <2>6. Members(all) = {s1} \cup {s2} \cup {s3} \cup {s4} \cup {s5}
    BY <2>1, <2>2, <2>3, <2>4, <2>5, Zenon
  <2> QED
    BY ONLY <2>5, <2>6
<1> HIDE DEF all
<1>9. addrs \in Seq(Steps) /\ Members(addrs) = IF c.ipv4 # 0 THEN {s1, s2, s3, s4, s5} ELSE {}
  BY <1>15, MembersWhen
<1> HIDE DEF addrs
<1>10. c.ipv4 # 0 => OptSteps(c, {s1, s2, s3, s4, s5})
  <2>1. /\ OptAsked(c, "SIOCSIFADDR") = c.ipv4 /\ OptAsked(c, "SIOCSIFDSTADDR") = DstAddr(c.ipv4)
        /\ OptAsked(c, "SIOCSIFBRDADDR") = BrdAddr(c.ipv4) /\ OptAsked(c, "SIOCSIFNETMASK") = MASK
    BY DEF OptAsked
  <2>2. s1.req \notin AddrReqs
    BY <1>3 DEF AddrReqs
  <2>3. ASSUME c.ipv4 # 0, NEW s \in {s1, s2, s3, s4, s5}, s.req \in AddrReqs
        PROVE  Wants(c, s.req) /\ s.val = OptAsked(c, s.req)
    <3>1. s.req \in V4Reqs
      BY <1>4, <1>5, <1>6, <1>7, <2>2, <2>3 DEF V4Reqs
    <3>2. s.val = OptAsked(c, s.req)
      BY <1>4, <1>5, <1>6, <1>7, <2>1, <2>2, <2>3
    <3>3. Wants(c, s.req)
      BY <2>3, <3>1 DEF Wants
    <3> QED
      BY <3>2, <3>3
  <2> QED
    BY <2>3 DEF OptSteps
<1>11. OptSteps(c, Members(addrs))
  BY <1>9, <1>10 DEF OptSteps
<1>12. \A s \in Members(addrs) : s.op = "ioctl"
  BY <1>3, <1>4, <1>5, <1>6, <1>7, <1>9
<1>13. \A req \in V4Reqs : Wants(c, req) => Has(Members(addrs), req)
  <2>1. \A req \in V4Reqs : Wants(c, req) => c.ipv4 # 0
    BY DEF Wants, V4Reqs
  <2>2. c.ipv4 # 0 => \A req \in V4Reqs : \E s \in Members(addrs) : s.req = req
    BY <1>4, <1>5, <1>6, <1>7, <1>9 DEF V4Reqs
  <2> QED
    BY <2>1, <2>2 DEF Has
<1> QED
  BY <1>9, <1>11, <1>12, <1>13 DEF addrs, all, e1, e2, e3, e4, e5

LEMMA MeantAddr ==
  ASSUME NEW fn, fn \notin RouteFns, NEW a, NEW b, NEW c
  PROVE  Meant(Req(fn, a, b, c)) = <<a, b>>
  BY DEF Meant, Req

(* What the addresses ask for, one request for each that there is.          *)
LEMMA IpAsks ==
  ASSUME NEW c \in Calls, c.rw
  PROVE  LET ip == setup_ip(c.ipv4, c.loopback, c.ipv6)
         IN  /\ ip \in Seq(Steps) /\ OptSteps(c, Members(ip)) /\ NeverWaits(ip)
             /\ \A s \in Members(ip) : s.op = "netlink" => s.req \in AddrFns
             /\ \A req \in V4Reqs : Wants(c, req) => Has(Members(ip), req)
             /\ Asks(Members(ip), AddrFns) = AddrsAsked(c)
<1> DEFINE addrs == When(c.ipv4 # 0, Ioctl("SIOGIFINDEX")
                             \o IoctlWith("SIOCSIFADDR", "addr", c.ipv4)
                             \o IoctlWith("SIOCSIFDSTADDR", "addr", DstAddr(c.ipv4))
                             \o IoctlWith("SIOCSIFBRDADDR", "addr", BrdAddr(c.ipv4))
                             \o IoctlWith("SIOCSIFNETMASK", "addr", MASK))
           index == Ioctl("SIOGIFINDEX")
           r4 == Request("add_ipv4", c.loopback, 32, 0)
           r6 == Request("add_ipv6", c.ipv6, 64, 0)
           lo == When(c.loopback # 0, r4)
           v6 == When(c.ipv6 # 0, r6)
           ip == addrs \o index \o lo \o v6
<1>0. /\ c.loopback \in Int /\ c.ipv6 \in Int /\ 32 \in Int /\ 64 \in Int /\ 0 \in Int
      /\ "SIOGIFINDEX" \in GetReqs /\ "add_ipv4" \in LinkFns /\ "add_ipv6" \in LinkFns
  BY CallType DEF GetReqs, LinkFns
<1>1. /\ addrs \in Seq(Steps) /\ OptSteps(c, Members(addrs)) /\ \A s \in Members(addrs) : s.op = "ioctl"
      /\ \A req \in V4Reqs : Wants(c, req) => Has(Members(addrs), req)
  BY AddrSteps
<1>2. PICK x \in Steps : x.op = "ioctl" /\ x.req = "SIOGIFINDEX" /\ Is(index, x)
  BY <1>0, OneCall
<1> DEFINE s4 == Req("add_ipv4", c.loopback, 32, 0)
           s6 == Req("add_ipv6", c.ipv6, 64, 0)
<1>3. Is(r4, s4) /\ Is(r6, s6)
  BY <1>0, OneCall
<1>8. /\ s4.op = "netlink" /\ s4.req = "add_ipv4" /\ s6.op = "netlink" /\ s6.req = "add_ipv6"
  BY DEF Req
<1> HIDE DEF addrs, index, r4, r6, s4, s6, Steps
<1>4. lo \in Seq(Steps) /\ v6 \in Seq(Steps)
  BY <1>3, MembersWhen DEF Is
<1>5. Members(lo) = IF c.loopback # 0 THEN {s4} ELSE {}
  BY <1>3, MembersWhen DEF Is
<1>6. Members(v6) = IF c.ipv6 # 0 THEN {s6} ELSE {}
  BY <1>3, MembersWhen DEF Is
<1> HIDE DEF lo, v6
<1>7. ip \in Seq(Steps) /\ Members(ip) = Members(addrs) \cup {x} \cup Members(lo) \cup Members(v6)
  <2>1. addrs \o index \in Seq(Steps) /\ Members(addrs \o index) = Members(addrs) \cup {x}
    BY <1>1, <1>2, IsMore
  <2>2. addrs \o index \o lo \in Seq(Steps) /\ Members(addrs \o index \o lo) = Members(addrs \o index) \cup Members(lo)
    BY <1>4, <2>1, StepsConcat
  <2>3. ip \in Seq(Steps) /\ Members(ip) = Members(addrs \o index \o lo) \cup Members(v6)
    BY <1>4, <2>2, StepsConcat
  <2> QED
    BY <2>1, <2>2, <2>3, Zenon
<1> HIDE DEF ip
<1>9. \A s \in Members(ip) : s \in Members(addrs) \/ s = x \/ (s = s4 /\ c.loopback # 0) \/ (s = s6 /\ c.ipv6 # 0)
  BY <1>5, <1>6, <1>7
<1>10. OptSteps(c, Members(ip))
  BY <1>1, <1>2, <1>8, <1>9 DEF OptSteps, AddrReqs
<1>11. NeverWaits(ip) /\ \A s \in Members(ip) : s.op = "netlink" => s.req \in AddrFns
  BY <1>1, <1>2, <1>8, <1>9 DEF NeverWaits, AddrFns
<1>12. \A req \in V4Reqs : Wants(c, req) => Has(Members(ip), req)
  BY <1>1, <1>7 DEF Has
<1>13. Asks(Members(ip), AddrFns) = AddrsAsked(c)
  <2>1. Asks(Members(addrs), AddrFns) = {}
    BY <1>1, AsksNone
  <2>2. Asks({x}, AddrFns) = {}
    BY <1>2, AsksNone
  <2>3. Asks(Members(lo), AddrFns) = IF c.loopback # 0 THEN {<<c.loopback, 32>>} ELSE {}
    <3>1. Asks({s4}, AddrFns) = {<<c.loopback, 32>>}
      <4>1. "add_ipv4" \in AddrFns /\ "add_ipv4" \notin RouteFns
        BY DEF AddrFns, RouteFns
      <4>2. Meant(s4) = <<c.loopback, 32>>
        BY <4>1, MeantAddr DEF s4
      <4>3. Asks({s4}, AddrFns) = {Meant(s4)}
        BY <1>8, <4>1 DEF Asks
      <4> QED
        BY <4>2, <4>3
    <3>2. Asks({}, AddrFns) = {}
      BY AsksNone
    <3> QED
      BY <1>5, <3>1, <3>2, Zenon
  <2>4. Asks(Members(v6), AddrFns) = IF c.ipv6 # 0 THEN {<<c.ipv6, 64>>} ELSE {}
    <3>1. Asks({s6}, AddrFns) = {<<c.ipv6, 64>>}
      <4>1. "add_ipv6" \in AddrFns /\ "add_ipv6" \notin RouteFns
        BY DEF AddrFns, RouteFns
      <4>2. Meant(s6) = <<c.ipv6, 64>>
        BY <4>1, MeantAddr DEF s6
      <4>3. Asks({s6}, AddrFns) = {Meant(s6)}
        BY <1>8, <4>1 DEF Asks
      <4> QED
        BY <4>2, <4>3
    <3>2. Asks({}, AddrFns) = {}
      BY AsksNone
    <3> QED
      BY <1>6, <3>1, <3>2, Zenon
  <2>5. Asks(Members(ip), AddrFns)
          = ((Asks(Members(addrs), AddrFns) \cup Asks({x}, AddrFns)) \cup Asks(Members(lo), AddrFns))
              \cup Asks(Members(v6), AddrFns)
    <3>1. Asks(Members(ip), AddrFns)
            = Asks((Members(addrs) \cup {x}) \cup Members(lo), AddrFns) \cup Asks(Members(v6), AddrFns)
      BY <1>7, AsksUnion
    <3> QED
      BY <3>1, AsksThree
  <2>6. AddrsAsked(c) = (IF c.loopback # 0 THEN {<<c.loopback, 32>>} ELSE {})
                          \cup (IF c.ipv6 # 0 THEN {<<c.ipv6, 64>>} ELSE {})
    BY DEF AddrsAsked
  <2> QED
    BY <2>1, <2>2, <2>3, <2>4, <2>5, <2>6
<1> QED
  BY <1>7, <1>10, <1>11, <1>12, <1>13 DEF setup_ip, ip, addrs, index, lo, v6, r4, r6

(* All that is asked for is among some calls; reqs are the ioctls meant.     *)
Asked(c, seq, reqs) ==
    /\ seq \in Seq(Steps) /\ OwnRequests(Members(seq)) /\ OptSteps(c, Members(seq))
    /\ \A req \in reqs : Wants(c, req) => Has(Members(seq), req)
    /\ Asks(Members(seq), AddrFns) = AddrsAsked(c)
    /\ Asks(Members(seq), RouteFns) = RoutesAsked(c)

LEMMA SetupAsks ==
  ASSUME NEW c \in Calls, c.rw
  PROVE  LET all == Sys("socket") \o setup_ip(c.ipv4, c.loopback, c.ipv6)
                      \o Ioctl("SIOGIFINDEX") \o setup_routes(c.routes, c.gw) \o Sys("close")
         IN  Asked(c, all, V4Reqs) /\ NeverWaits(all) /\ EndsClosed(all)
<1> DEFINE ip == setup_ip(c.ipv4, c.loopback, c.ipv6)
           routes == setup_routes(c.routes, c.gw)
           open == Sys("socket")
           index == Ioctl("SIOGIFINDEX")
           close == Sys("close")
           all == open \o ip \o index \o routes \o close
<1>0. "socket" \in SysOps /\ "close" \in SysOps /\ "SIOGIFINDEX" \in GetReqs
  BY DEF SysOps, GetReqs
<1>1. /\ ip \in Seq(Steps) /\ OptSteps(c, Members(ip)) /\ NeverWaits(ip)
      /\ \A s \in Members(ip) : s.op = "netlink" => s.req \in AddrFns
      /\ \A req \in V4Reqs : Wants(c, req) => Has(Members(ip), req)
      /\ Asks(Members(ip), AddrFns) = AddrsAsked(c)
  BY IpAsks
<1>2. /\ routes \in Seq(Steps)
      /\ \A s \in Members(routes) : s.op = "netlink" /\ s.req = "add_route"
      /\ Asks(Members(routes), RouteFns) = RoutesAsked(c)
  BY RoutesAsks
<1>20. routes \in Seq(Steps)
  BY <1>2
<1>3. PICK x \in Steps : x.op = "socket" /\ x.req = "socket" /\ Is(open, x)
  BY <1>0, OneCall
<1>4. PICK y \in Steps : y.op = "ioctl" /\ y.req = "SIOGIFINDEX" /\ Is(index, y)
  BY <1>0, OneCall
<1>5. PICK z \in Steps : z.op = "close" /\ z.req = "close" /\ Is(close, z)
  BY <1>0, OneCall
<1>6. EndsClosed(close)
  BY DEF EndsClosed, Closing, Sys
<1> HIDE DEF ip, routes, open, index, close, Steps
<1> DEFINE most == open \o ip \o index \o routes
<1>7. most \in Seq(Steps) /\ Members(most) = {x} \cup Members(ip) \cup {y} \cup Members(routes)
  <2>1. open \o ip \in Seq(Steps) /\ Members(open \o ip) = Members(open) \cup Members(ip)
    BY <1>1, <1>3, MembersConcat DEF Is
  <2>2. open \o ip \o index \in Seq(Steps) /\ Members(open \o ip \o index) = Members(open \o ip) \cup {y}
    BY <1>4, <2>1, IsMore
  <2>3. most \in Seq(Steps) /\ Members(most) = Members(open \o ip \o index) \cup Members(routes)
    BY <1>20, <2>2, StepsConcat
  <2>4. Members(open) = {x}
    BY <1>3 DEF Is
  <2> QED
    BY <2>1, <2>2, <2>3, <2>4, Zenon
<1>8. /\ all \in Seq(Steps) /\ EndsClosed(all)
      /\ Members(all) = {x} \cup Members(ip) \cup {y} \cup Members(routes) \cup {z}
  <2> HIDE DEF most
  <2>1. all = most \o close
    BY DEF all, most
  <2> HIDE DEF all
  <2>2. all \in Seq(Steps) /\ Members(all) = Members(most) \cup {z}
    BY <1>5, <1>7, <2>1, IsMore
  <2>3. close \in Seq(Steps)
    BY <1>5 DEF Is
  <2>4. EndsClosed(all)
    BY <1>6, <1>7, <2>1, <2>3, WaitsConcat
  <2> QED
    BY <1>7, <2>2, <2>4, Zenon
<1> HIDE DEF all, most
<1>9. \A s \in Members(all) : s \in Members(ip) \/ s \in Members(routes) \/ s \in {x, y, z}
  BY <1>8
<1>10. \A s \in {x, y, z} : s.op \notin {"netlink", "kni_loop"} /\ s.req \notin AddrReqs
  BY <1>3, <1>4, <1>5 DEF AddrReqs
<1>11. OwnRequests(Members(all)) /\ NeverWaits(all)
  BY <1>1, <1>2, <1>9, <1>10 DEF OwnRequests, NeverWaits, RouteFns
<1>12. OptSteps(c, Members(all))
  BY <1>1, <1>2, <1>9, <1>10 DEF OptSteps, AddrReqs
<1>13. \A req \in V4Reqs : Wants(c, req) => Has(Members(all), req)
  BY <1>1, <1>8 DEF Has
<1>14. ASSUME NEW fns
       PROVE  Asks(Members(all), fns) = Asks(Members(ip), fns) \cup Asks(Members(routes), fns)
  <2>1. Asks({x}, fns) = {} /\ Asks({y}, fns) = {} /\ Asks({z}, fns) = {}
    BY <1>10, AsksNone
  <2>2. Asks(Members(all), fns)
          = ((Asks({x}, fns) \cup Asks(Members(ip), fns)) \cup Asks({y}, fns))
              \cup (Asks(Members(routes), fns) \cup Asks({z}, fns))
    <3>1. Members(all) = ((({x} \cup Members(ip)) \cup {y}) \cup Members(routes)) \cup {z}
      BY <1>8
    <3>2. Asks(Members(all), fns)
            = (Asks(({x} \cup Members(ip)) \cup {y}, fns) \cup Asks(Members(routes), fns)) \cup Asks({z}, fns)
      BY <3>1, AsksThree
    <3> QED
      BY <3>2, AsksThree
  <2> QED
    BY <2>1, <2>2
<1>15. Asks(Members(routes), AddrFns) = {}
  BY <1>2, AsksNone DEF AddrFns
<1>16. Asks(Members(ip), RouteFns) = {}
  BY <1>1, AsksNone DEF AddrFns, RouteFns
<1>17. Asks(Members(all), AddrFns) = AddrsAsked(c) /\ Asks(Members(all), RouteFns) = RoutesAsked(c)
  BY <1>1, <1>2, <1>14, <1>15, <1>16
<1>18. Asked(c, all, V4Reqs)
  BY <1>8, <1>11, <1>12, <1>13, <1>17 DEF Asked
<1> QED
  BY <1>8, <1>11, <1>18 DEF all, open, ip, index, routes, close

(* A set-up first creates the interface and then gives it its addresses.    *)
Creates(c, first) ==
    /\ first \in Seq(Steps) /\ WaitsOnce(first) /\ OptSteps(c, Members(first))
    /\ \A s \in Members(first) : s.op # "netlink"
    /\ \A req \in AddrReqs \ V4Reqs : Wants(c, req) => Has(Members(first), req)
    /\ first # << >> => EndsClosed(first)

Addresses4(c, then) ==
    IF c.rw THEN Asked(c, then, V4Reqs) /\ NeverWaits(then) /\ EndsClosed(then) ELSE then = << >>

LEMMA AskedAfter ==
  ASSUME NEW c, NEW first, NEW then, Creates(c, first), Addresses4(c, then)
  PROVE  /\ Asked(c, first \o then, AddrReqs) /\ WaitsOnce(first \o then)
         /\ NeverWaits(first) => NeverWaits(first \o then)
         /\ first \o then # << >> => EndsClosed(first \o then)
<1> DEFINE all == first \o then
<1>1. first \in Seq(Steps) /\ WaitsOnce(first)
  BY DEF Creates
<1>2. /\ then \in Seq(Steps) /\ NeverWaits(then) /\ OwnRequests(Members(then)) /\ OptSteps(c, Members(then))
      /\ Asks(Members(then), AddrFns) = AddrsAsked(c) /\ Asks(Members(then), RouteFns) = RoutesAsked(c)
  <2>1. CASE c.rw
    BY <2>1 DEF Addresses4, Asked
  <2>2. CASE ~c.rw
    <3>1. then = << >> /\ Members(then) = {}
      BY <2>2 DEF Addresses4, Members
    <3>2. Asks({}, AddrFns) = {} /\ Asks({}, RouteFns) = {}
      BY AsksNone
    <3>3. AddrsAsked(c) = {} /\ RoutesAsked(c) = {}
      BY <2>2 DEF AddrsAsked, RoutesAsked
    <3>4. << >> \in Seq(Steps)
      OBVIOUS
    <3> QED
      BY <3>1, <3>2, <3>3, <3>4 DEF NeverWaits, OwnRequests, OptSteps
  <2> QED
    BY <2>1, <2>2
<1> HIDE DEF Steps
<1>3. all \in Seq(Steps) /\ Members(all) = Members(first) \cup Members(then)
  BY <1>1, <1>2, MembersConcat
<1>4. WaitsOnce(all) /\ (NeverWaits(first) => NeverWaits(all)) /\ (EndsClosed(then) => EndsClosed(all))
  BY <1>1, <1>2, WaitsConcat
<1>5. all # << >> => EndsClosed(all)
  <2>1. CASE c.rw
    BY <1>4, <2>1 DEF Addresses4
  <2>2. CASE ~c.rw
    <3>1. then = << >>
      BY <2>2 DEF Addresses4
    <3>2. all = first
      BY <1>1, <3>1, ConcatEmptySeq
    <3> QED
      BY <3>2 DEF Creates
  <2> QED
    BY <2>1, <2>2
<1> HIDE DEF all
<1>6. OwnRequests(Members(all)) /\ OptSteps(c, Members(all))
  BY <1>2, <1>3 DEF Creates, OwnRequests, OptSteps
<1>7. ASSUME NEW req \in AddrReqs, Wants(c, req) PROVE Has(Members(all), req)
  <2>1. CASE req \in V4Reqs
    <3>1. c.rw
      BY <1>7, <2>1 DEF Wants, V4Reqs
    <3>2. Has(Members(then), req)
      BY <1>7, <2>1, <3>1 DEF Addresses4, Asked
    <3> QED
      BY <1>3, <3>2 DEF Has
  <2>2. CASE req \notin V4Reqs
    <3>1. Has(Members(first), req)
      BY <1>7, <2>2 DEF Creates
    <3> QED
      BY <1>3, <3>1 DEF Has
  <2> QED
    BY <2>1, <2>2
<1>8. ASSUME NEW fns PROVE Asks(Members(all), fns) = Asks(Members(then), fns)
  <2>1. Asks(Members(first), fns) = {}
    BY AsksNone DEF Creates
  <2>2. Asks(Members(all), fns) = Asks(Members(first), fns) \cup Asks(Members(then), fns)
    BY <1>3, AsksUnion
  <2> QED
    BY <2>1, <2>2
<1>9. Asks(Members(all), AddrFns) = AddrsAsked(c) /\ Asks(Members(all), RouteFns) = RoutesAsked(c)
  BY <1>2, <1>8
<1>10. Asked(c, all, AddrReqs)
  BY <1>3, <1>6, <1>7, <1>9 DEF Asked
<1> QED
  BY <1>4, <1>5, <1>10 DEF all

LEMMA PlainConcat ==
  ASSUME NEW c, NEW s \in Seq(Plain(c)), NEW t \in Seq(Plain(c))
  PROVE  /\ s \o t \in Seq(Plain(c))
         /\ \A req : Has(Members(s), req) \/ Has(Members(t), req) => Has(Members(s \o t), req)
<1> HIDE DEF Plain
<1>1. s \o t \in Seq(Plain(c)) /\ Members(s \o t) = Members(s) \cup Members(t)
  BY MembersConcat
<1> QED
  BY <1>1 DEF Has

(* tap_create makes the ioctls for the hardware address, the MTU and the    *)
(* flags, if they are wanted.                                               *)
LEMMA TapCreates ==
  ASSUME NEW c \in Calls, c.kind = "tap"
  PROVE  Creates(c, tap_create(c)) /\ NeverWaits(tap_create(c))
<1> DEFINE index == Ioctl("SIOGIFINDEX")
           hw == When(c.mac # 0, IoctlWith("SIOCSIFHWADDR", "hwaddr", c.mac))
           mt == When(c.mtu # 0, IoctlWith("SIOCSIFMTU", "mtu", c.mtu))
           up == IoctlWith("SIOCSIFFLAGS", "flags", UpFlags(c.rw))
           open == Sys("open")
           tun == Sys("TUNSETIFF")
           socket == Sys("socket")
           get == Ioctl("SIOCGIFFLAGS")
           mm == index \o hw \o mt
           s1 == open \o tun \o socket \o get
           s2 == s1 \o mm
           s3 == s2 \o index
           s4 == s3 \o up
           close == Sys("close")
           all == s4 \o close
<1>1. /\ index \in Seq(Plain(c)) /\ get \in Seq(Plain(c)) /\ open \in Seq(Plain(c))
      /\ tun \in Seq(Plain(c)) /\ socket \in Seq(Plain(c)) /\ close \in Seq(Plain(c))
  BY PlainOne DEF GetReqs, SysOps
<1>2. /\ "SIOCSIFHWADDR" \in AddrReqs /\ "SIOCSIFMTU" \in AddrReqs /\ "SIOCSIFFLAGS" \in AddrReqs
      /\ OptAsked(c, "SIOCSIFHWADDR") = c.mac /\ OptAsked(c, "SIOCSIFMTU") = c.mtu
      /\ OptAsked(c, "SIOCSIFFLAGS") = UpFlags(c.rw)
  BY DEF AddrReqs, OptAsked
<1>3. c.mac \in Int /\ c.mtu \in Int /\ UpFlags(c.rw) \in Int
  BY CallType DEF UpFlags, IFF_UP
<1>4. /\ c.mac # 0 => Wants(c, "SIOCSIFHWADDR")
      /\ c.mtu # 0 => Wants(c, "SIOCSIFMTU")
      /\ Wants(c, "SIOCSIFFLAGS")
  BY DEF Wants
<1>5. up \in Seq(Plain(c)) /\ Has(Members(up), "SIOCSIFFLAGS")
  BY <1>2, <1>3, <1>4, PlainOne
<1>6. hw \in Seq(Plain(c)) /\ (c.mac # 0 => Has(Members(hw), "SIOCSIFHWADDR"))
  <2>1. CASE c.mac # 0
    <3>1. /\ IoctlWith("SIOCSIFHWADDR", "hwaddr", c.mac) \in Seq(Plain(c))
          /\ Has(Members(IoctlWith("SIOCSIFHWADDR", "hwaddr", c.mac)), "SIOCSIFHWADDR")
      BY <1>2, <1>3, <1>4, <2>1, PlainOne
    <3> QED
      BY <2>1, <3>1 DEF When
  <2>2. CASE c.mac = 0
    BY <2>2 DEF When
  <2> QED
    BY <2>1, <2>2
<1>7. mt \in Seq(Plain(c)) /\ (c.mtu # 0 => Has(Members(mt), "SIOCSIFMTU"))
  <2>1. CASE c.mtu # 0
    <3>1. /\ IoctlWith("SIOCSIFMTU", "mtu", c.mtu) \in Seq(Plain(c))
          /\ Has(Members(IoctlWith("SIOCSIFMTU", "mtu", c.mtu)), "SIOCSIFMTU")
      BY <1>2, <1>3, <1>4, <2>1, PlainOne
    <3> QED
      BY <2>1, <3>1 DEF When
  <2>2. CASE c.mtu = 0
    BY <2>2 DEF When
  <2> QED
    BY <2>1, <2>2
<1>8. EndsClosed(close)
  BY DEF EndsClosed, Closing, Sys
<1>9. tap_create(c) = all
  BY DEF tap_create, set_mac_mtu
<1>10. \A req \in AddrReqs \ V4Reqs : Wants(c, req) =>
          \/ req = "SIOCSIFHWADDR" /\ c.mac # 0
          \/ req = "SIOCSIFMTU" /\ c.mtu # 0
          \/ req = "SIOCSIFFLAGS"
  BY DEF Wants
<1> HIDE DEF index, hw, mt, up, open, tun, socket, get, close
<1>11. /\ mm \in Seq(Plain(c))
       /\ c.mac # 0 => Has(Members(mm), "SIOCSIFHWADDR")
       /\ c.mtu # 0 => Has(Members(mm), "SIOCSIFMTU")
  <2>1. index \o hw \in Seq(Plain(c)) /\ (c.mac # 0 => Has(Members(index \o hw), "SIOCSIFHWADDR"))
    BY <1>1, <1>6, PlainConcat
  <2> QED
    BY <1>7, <2>1, PlainConcat
<1>12. s1 \in Seq(Plain(c))
  <2>1. open \o tun \in Seq(Plain(c))
    BY <1>1, PlainConcat
  <2>2. open \o tun \o socket \in Seq(Plain(c))
    BY <1>1, <2>1, PlainConcat
  <2> QED
    BY <1>1, <2>2, PlainConcat
<1> HIDE DEF mm, s1
<1>13. ASSUME NEW req
       PROVE  /\ all \in Seq(Plain(c)) /\ s4 \in Seq(Plain(c))
              /\ Has(Members(mm), req) \/ Has(Members(up), req) => Has(Members(all), req)
  <2>1. s2 \in Seq(Plain(c)) /\ (Has(Members(mm), req) => Has(Members(s2), req))
    BY <1>11, <1>12, PlainConcat
  <2> HIDE DEF s2
  <2>2. s3 \in Seq(Plain(c)) /\ (Has(Members(s2), req) => Has(Members(s3), req))
    BY <1>1, <2>1, PlainConcat
  <2> HIDE DEF s3
  <2>3. s4 \in Seq(Plain(c)) /\ (Has(Members(s3), req) \/ Has(Members(up), req) => Has(Members(s4), req))
    BY <1>5, <2>2, PlainConcat
  <2> HIDE DEF s4
  <2>4. all \in Seq(Plain(c)) /\ (Has(Members(s4), req) => Has(Members(all), req))
    BY <1>1, <2>3, PlainConcat
  <2> QED
    BY <2>1, <2>2, <2>3, <2>4
<1> HIDE DEF s4
<1>14. EndsClosed(all)
  <2> HIDE DEF Plain
  <2> QED
    BY <1>1, <1>8, <1>13, WaitsConcat
<1> HIDE DEF all
<1>15. all \in Seq(Steps) /\ Members(all) \subseteq Plain(c)
  <2>1. Plain(c) \subseteq Steps
    BY DEF Plain
  <2> HIDE DEF Plain, Steps
  <2> QED
    BY <1>13, <2>1, MembersType
<1>16. NeverWaits(all) /\ OptSteps(c, Members(all)) /\ \A s \in Members(all) : s.op # "netlink"
  BY <1>15 DEF Plain, NeverWaits, OptSteps
<1>17. \A req \in AddrReqs \ V4Reqs : Wants(c, req) => Has(Members(all), req)
  BY <1>5, <1>10, <1>11, <1>13
<1>18. WaitsOnce(all)
  BY <1>16 DEF NeverWaits, WaitsOnce, Members
<1>19. Creates(c, all)
  BY <1>14, <1>15, <1>16, <1>17, <1>18 DEF Creates
<1> QED
  BY <1>9, <1>16, <1>19

LEMMA KniCreates ==
  ASSUME NEW c \in Calls, c.kind = "kni"
  PROVE  Creates(c, kni_create(c))
<1> DEFINE x == Sys("rte_kni_alloc")
           y == Sys("socket")
           z == Sys("kni_loop")
           most == x \o y
           all == most \o z
<1>1. PICK a \in Steps : a.op = "rte_kni_alloc" /\ a.req = "rte_kni_alloc" /\ Is(x, a)
  BY OneCall DEF SysOps
<1>2. PICK b \in Steps : b.op = "socket" /\ b.req = "socket" /\ Is(y, b)
  BY OneCall DEF SysOps
<1>3. PICK d \in Steps : d.op = "kni_loop" /\ d.req = "kni_loop" /\ Is(z, d)
  BY OneCall DEF SysOps
<1>4. WaitsOnce(z) /\ EndsClosed(z)
  BY DEF WaitsOnce, EndsClosed, Closing, Sys
<1>5. kni_create(c) = IF c.port < RTE_MAX_ETHPORTS THEN all ELSE << >>
  BY DEF kni_create, When
<1>6. Creates(c, << >>)
  <2>1. << >> \in Seq(Steps) /\ WaitsOnce(<< >>) /\ Members(<< >>) = {}
    BY DEF WaitsOnce, Members
  <2>2. \A req \in AddrReqs \ V4Reqs : ~Wants(c, req)
    BY DEF Wants
  <2> QED
    BY <2>1, <2>2 DEF Creates, OptSteps
<1> HIDE DEF x, y, z, Steps
<1>7. x \in Seq(Steps) /\ Members(x) = {a} /\ z \in Seq(Steps) /\ Members(z) = {d}
  BY <1>1, <1>3 DEF Is
<1>8. most \in Seq(Steps) /\ Members(most) = {a, b}
  <2>1. most \in Seq(Steps) /\ Members(most) = Members(x) \cup {b}
    BY <1>2, <1>7, IsMore
  <2> QED
    BY <1>7, <2>1
<1>9. NeverWaits(most)
  BY <1>1, <1>2, <1>8 DEF NeverWaits
<1> HIDE DEF most
<1>10. all \in Seq(Steps) /\ Members(all) = {a, b, d}
  <2>1. all \in Seq(Steps) /\ Members(all) = Members(most) \cup {d}
    BY <1>3, <1>8, IsMore
  <2> QED
    BY <1>8, <2>1
<1>11. WaitsOnce(all) /\ EndsClosed(all)
  BY <1>4, <1>7, <1>8, <1>9, WaitsConcat
<1> HIDE DEF all
<1>12. \A s \in Members(all) : s.op # "netlink" /\ s.req \notin AddrReqs
  BY <1>1, <1>2, <1>3, <1>10 DEF AddrReqs
<1>13. \A req \in AddrReqs \ V4Reqs : ~Wants(c, req)
  BY DEF Wants
<1>14. Creates(c, all)
  BY <1>10, <1>11, <1>12, <1>13 DEF Creates, OptSteps
<1> QED
  BY <1>5, <1>6, <1>14

LEMMA AskedAtStart ==
  ASSUME NEW c \in Calls, Configures(c)
  PROVE  LET seq == setup_host(c)
         IN  /\ Asked(c, seq, AddrReqs) /\ WaitsOnce(seq)
             /\ c.kind # "kni" => NeverWaits(seq)
             /\ seq # << >> => EndsClosed(seq)
<1>1. c.kind \in {"tap", "kni"}
  <2>1. c.kind \in {"tap", "kni", "copy"}
    BY CallsAssumption
  <2> QED
    BY <2>1 DEF Configures
<1>2. Addresses4(c, When(c.rw, tap_setup_ip(c))) /\ Addresses4(c, When(c.rw, kni_setup_ip(c)))
  <2>1. CASE c.rw
    <3>1. /\ Asked(c, tap_setup_ip(c), V4Reqs) /\ NeverWaits(tap_setup_ip(c)) /\ EndsClosed(tap_setup_ip(c))
          /\ Asked(c, kni_setup_ip(c), V4Reqs) /\ NeverWaits(kni_setup_ip(c)) /\ EndsClosed(kni_setup_ip(c))
      BY <2>1, SetupAsks DEF tap_setup_ip, kni_setup_ip
    <3> QED
      BY <2>1, <3>1 DEF Addresses4, When
  <2>2. CASE ~c.rw
    BY <2>2 DEF Addresses4, When
  <2> QED
    BY <2>1, <2>2
<1>3. CASE c.kind = "tap"
  <2>1. setup_host(c) = tap_create(c) \o When(c.rw, tap_setup_ip(c))
    BY <1>3 DEF setup_host
  <2>2. Creates(c, tap_create(c)) /\ NeverWaits(tap_create(c))
    BY <1>3, TapCreates
  <2> QED
    BY <1>2, <2>1, <2>2, AskedAfter
<1>4. CASE c.kind = "kni"
  <2>1. setup_host(c) = kni_create(c) \o When(c.rw, kni_setup_ip(c))
    BY <1>4 DEF setup_host
  <2>2. Creates(c, kni_create(c))
    BY <1>4, KniCreates
  <2> QED
    BY <1>2, <1>4, <2>1, <2>2, AskedAfter
<1> QED
  BY <1>1, <1>3, <1>4

(* What the kernel reads from a request.                                    *)
LEMMA AddrReads ==
  ASSUME NEW family, NEW idx, NEW a, NEW b, NEW size \in {4, 16}
  PROVE  LET msg == NewAddr(family, idx, a, size, b)
         IN  msg.type = "RTM_NEWADDR" /\ msg.prefixlen = b /\ Value(msg, "IFA_LOCAL") = a
<1> DEFINE msg == NewAddr(family, idx, a, size, b)
           first == [at |-> 24, len |-> size + 4, type |-> "IFA_ADDRESS", data |-> a]
           second == [at |-> size + 28, len |-> size + 4, type |-> "IFA_LOCAL", data |-> a]
<1>1. msg = [type |-> "RTM_NEWADDR", family |-> family, prefixlen |-> b, scope |-> "RT_SCOPE_UNIVERSE",
             index |-> idx, len |-> 2 * size + 32, attrs |-> <<first, second>>]
  BY DEF NewAddr, Attribute, RTA_LENGTH, NLMSG_LENGTH, sizeof_ifaddrmsg
<1> HIDE DEF msg
<1>2. msg.type = "RTM_NEWADDR" /\ msg.prefixlen = b /\ msg.attrs = <<first, second>>
  BY <1>1
<1>3. first.type # "IFA_LOCAL" /\ second.type = "IFA_LOCAL" /\ second.data = a
  OBVIOUS
<1> HIDE DEF first, second
<1>4. {msg.attrs[i] : i \in 1 .. Len(msg.attrs)} = {first, second}
  <2>1. Len(msg.attrs) = 2 /\ msg.attrs[1] = first /\ msg.attrs[2] = second
    BY <1>2
  <2>2. 1 .. Len(msg.attrs) = {1, 2}
    BY <2>1
  <2> QED
    BY <2>1, <2>2
<1>5. Value(msg, "IFA_LOCAL") = a
  <2>1. (CHOOSE x \in {first, second} : x.type = "IFA_LOCAL") = second
    BY <1>3
  <2> QED
    BY <1>3, <1>4, <2>1 DEF Value
<1> QED
  BY <1>2, <1>5 DEF msg

LEMMA RouteReads ==
  ASSUME NEW idx, NEW a, NEW b, NEW c
  PROVE  LET msg == add_route(idx, c, a, b)
         IN  /\ msg.type = "RTM_NEWROUTE" /\ msg.prefixlen = b /\ Value(msg, "RTA_DST") = a
             /\ Value(msg, "RTA_GATEWAY") = c
<1> DEFINE gateway == Attr32(28, "RTA_GATEWAY", c)
           dst == Attr32(36, "RTA_DST", a)
           oif == Attr32(44, "RTA_OIF", idx)
           attrs == Append(Append(Append(<< >>, gateway), dst), oif)
           msg == add_route(idx, c, a, b)
<1>1. msg = RouteRequest("RT_SCOPE_UNIVERSE", b, 52, attrs)
  <2> DEFINE scope == "RT_SCOPE_UNIVERSE"
  <2>1. NewRoute(scope, b) = RouteRequest(scope, b, 28, << >>)
    BY DEF NewRoute, NLMSG_LENGTH, sizeof_rtmsg, RouteRequest
  <2>0. PICK none : none = << >>
    OBVIOUS
  <2>5. msg = nlattr_add(nlattr_add(nlattr_add(NewRoute(scope, b), "RTA_GATEWAY", c, 4), "RTA_DST", a, 4),
                         "RTA_OIF", idx, 4)
    BY DEF add_route, nlattr_add32
  <2> HIDE DEF gateway, dst, oif, scope, msg
  <2>2. nlattr_add(NewRoute(scope, b), "RTA_GATEWAY", c, 4) = RouteRequest(scope, b, 36, Append(<< >>, gateway))
    <3>1. nlattr_add(RouteRequest(scope, b, 28, none), "RTA_GATEWAY", c, 4)
            = RouteRequest(scope, b, 36, Append(none, gateway))
      BY RouteAdds DEF gateway
    <3> QED
      BY <2>1, <2>0, <3>1
  <2>3. nlattr_add(RouteRequest(scope, b, 36, Append(<< >>, gateway)), "RTA_DST", a, 4)
          = RouteRequest(scope, b, 44, Append(Append(<< >>, gateway), dst))
    BY RouteAdds DEF dst
  <2>4. nlattr_add(RouteRequest(scope, b, 44, Append(Append(<< >>, gateway), dst)), "RTA_OIF", idx, 4)
          = RouteRequest(scope, b, 52, attrs)
    BY RouteAdds DEF oif
  <2> QED
    BY <2>2, <2>3, <2>4, <2>5 DEF scope
<1> HIDE DEF msg
<1>2. /\ gateway.type # "RTA_DST" /\ dst.type = "RTA_DST" /\ oif.type # "RTA_DST" /\ dst.data = a
      /\ gateway.type = "RTA_GATEWAY" /\ dst.type # "RTA_GATEWAY" /\ oif.type # "RTA_GATEWAY"
      /\ gateway.data = c
  BY DEF Attr32
<1> HIDE DEF gateway, dst, oif
<1>3. Len(attrs) = 3 /\ attrs[1] = gateway /\ attrs[2] = dst /\ attrs[3] = oif
  BY ThreeOf
<1> HIDE DEF attrs
<1>4. msg.type = "RTM_NEWROUTE" /\ msg.prefixlen = b /\ msg.attrs = attrs
  BY <1>1 DEF RouteRequest
<1>5. {msg.attrs[i] : i \in 1 .. Len(msg.attrs)} = {gateway, dst, oif}
  <2>0. 1 .. 3 = {1, 2, 3}
    OBVIOUS
  <2>1. 1 .. Len(msg.attrs) = {1, 2, 3}
    BY <1>3, <1>4, <2>0, Zenon
  <2> QED
    BY <1>3, <1>4, <2>1
<1>6. (CHOOSE x \in {gateway, dst, oif} : x.type = "RTA_DST") = dst
  BY <1>2
<1>7. Value(msg, "RTA_DST") = a
  BY <1>2, <1>5, <1>6 DEF Value
<1>8. (CHOOSE x \in {gateway, dst, oif} : x.type = "RTA_GATEWAY") = gateway
  BY <1>2
<1>9. Value(msg, "RTA_GATEWAY") = c
  BY <1>2, <1>5, <1>8 DEF Value
<1> QED
  BY <1>4, <1>7, <1>9 DEF msg

LEMMA MessageReads ==
  ASSUME Step \in Requests
  PROVE  /\ Step.req \in AddrFns => /\ Message.type = "RTM_NEWADDR"
                                    /\ Value(Message, "IFA_LOCAL") = Step.val[1]
                                    /\ Message.prefixlen = Step.val[2]
         /\ Step.req \in RouteFns => /\ Message.type = "RTM_NEWROUTE"
                                     /\ Value(Message, "RTA_DST") = Step.val[1]
                                     /\ Message.prefixlen = Step.val[2]
                                     /\ Value(Message, "RTA_GATEWAY") = Step.val[3]
<1> DEFINE idx == ifr.val
           a == Step.val
<1>1. CASE Step.req = "add_ipv4"
  <2>1. Message = NewAddr("AF_INET", idx, a[1], 4, a[2])
    BY <1>1 DEF Message, add_ipv4
  <2> HIDE DEF Step
  <2>2. LET msg == NewAddr("AF_INET", idx, a[1], 4, a[2])
        IN  msg.type = "RTM_NEWADDR" /\ msg.prefixlen = a[2] /\ Value(msg, "IFA_LOCAL") = a[1]
    BY AddrReads
  <2> QED
    BY <1>1, <2>1, <2>2 DEF RouteFns
<1>2. CASE Step.req = "add_ipv6"
  <2>1. Message = NewAddr("AF_INET6", idx, a[1], 16, a[2])
    BY <1>2 DEF Message, add_ipv6
  <2> HIDE DEF Step
  <2>2. LET msg == NewAddr("AF_INET6", idx, a[1], 16, a[2])
        IN  msg.type = "RTM_NEWADDR" /\ msg.prefixlen = a[2] /\ Value(msg, "IFA_LOCAL") = a[1]
    BY AddrReads
  <2> QED
    BY <1>2, <2>1, <2>2 DEF RouteFns
<1>3. CASE Step.req = "add_route"
  <2>1. Message = add_route(idx, a[3], a[1], a[2])
    BY <1>3 DEF Message
  <2> HIDE DEF Step
  <2>2. LET msg == add_route(idx, a[3], a[1], a[2])
        IN  /\ msg.type = "RTM_NEWROUTE" /\ msg.prefixlen = a[2] /\ Value(msg, "RTA_DST") = a[1]
            /\ Value(msg, "RTA_GATEWAY") = a[3]
    BY RouteReads
  <2> QED
    BY <1>3, <2>1, <2>2 DEF AddrFns
<1> HIDE DEF Step
<1> QED
  BY <1>1, <1>2, <1>3 DEF AddrFns, RouteFns

(* The kernel has got this request now, or what it had before.              *)
Keeps(req) ==
    IF Step.req = req THEN req \in DOMAIN conf' /\ conf'[req] = Step.val
    ELSE /\ req \in DOMAIN conf' <=> req \in DOMAIN conf
         /\ req \in DOMAIN conf => conf'[req] = conf[req]

(* What a call does and what is left after it keep the invariant when the   *)
(* call is recorded as it was asked for.                                    *)
LEMMA AskedDone ==
  ASSUME TargetInv, SocketInv, AskedInv, prog # << >>, Done, call' = call,
         Step.op \in Closing => ~sock',
         leaked' = leaked \/ (Step.op = "kni_loop" /\ leaked' = leaked + 1),
         \A req \in AddrReqs : Keeps(req),
         ~lost' => /\ ~lost
                   /\ Addresses' = Addresses \cup Asks({Step}, AddrFns)
                   /\ Routes' = Routes \cup Asks({Step}, RouteFns)
  PROVE  SocketInv' /\ AskedInv'
<1>1. prog \in Seq(Steps) /\ prog' = Tail(prog) /\ Step = Head(prog)
      /\ status' = IF prog' = << >> THEN "loop" ELSE "run"
  BY DEF TargetInv, Done, Step
<1> HIDE DEF Steps, Step
<1>2. Step \in Members(prog) /\ Members(prog) = {Step} \cup Members(prog')
  BY <1>1, MembersTail
<1>3. /\ WaitsOnce(prog') /\ (Step.op = "kni_loop" => NeverWaits(prog'))
      /\ IF prog' = << >> THEN Step.op \in Closing ELSE EndsClosed(prog')
  BY <1>1, WaitsTail DEF SocketInv
<1>4. SocketInv'
  <2>1. Left("kni_loop")' => Step.op # "kni_loop" /\ Left("kni_loop")
    <3> SUFFICES ASSUME Left("kni_loop")' PROVE Step.op # "kni_loop" /\ Left("kni_loop")
      OBVIOUS
    <3>1. PICK s \in Members(prog') : s.op = "kni_loop"
      BY DEF Left, Members
    <3>2. Step.op # "kni_loop"
      BY <1>3, <3>1 DEF NeverWaits
    <3>3. s \in Members(prog)
      BY <1>2
    <3> QED
      BY <3>1, <3>2, <3>3 DEF Left, Members
  <2>2. Step.op = "kni_loop" => Left("kni_loop")
    BY <1>2 DEF Left, Members
  <2>3. /\ leaked' \in Nat
        /\ Left("kni_loop")' => call'.kind = "kni" /\ leaked' = 0
        /\ leaked' <= IF call'.kind = "kni" THEN 1 ELSE 0
    BY <2>1, <2>2 DEF SocketInv
  <2>4. status' = "loop" => prog' = << >>
    BY <1>1
  <2>5. IF prog' = << >> THEN ~sock' ELSE EndsClosed(prog')
    BY <1>3
  <2> QED
    BY <1>3, <2>3, <2>4, <2>5 DEF SocketInv
<1>5. OwnRequests(Members(prog')) /\ OptSteps(call, Members(prog'))
  BY <1>2 DEF AskedInv, OwnRequests, OptSteps
<1>6. ASSUME NEW req \in AddrReqs, Wants(call, req) PROVE OptDone(req)'
  <2>1. OptDone(req) /\ Keeps(req)
    BY <1>6 DEF AskedInv
  <2>2. CASE Step.req = req
    <3>1. Step.val = OptAsked(call, req)
      BY <1>2, <2>2 DEF AskedInv, OptSteps
    <3>2. req \in DOMAIN conf' /\ conf'[req] = OptAsked(call, req)
      BY <2>1, <2>2, <3>1 DEF Keeps
    <3> QED
      BY <3>2 DEF OptDone
  <2>3. CASE Step.req # req
    <3>1. CASE Has(Members(prog), req)
      <4>1. Has(Members(prog'), req)
        BY <1>2, <2>3, <3>1 DEF Has
      <4> QED
        BY <4>1 DEF OptDone
    <3>2. CASE req \in DOMAIN conf /\ conf[req] = OptAsked(call, req)
      <4>1. req \in DOMAIN conf' /\ conf'[req] = OptAsked(call, req)
        BY <2>1, <2>3, <3>2 DEF Keeps
      <4> QED
        BY <4>1 DEF OptDone
    <3> QED
      BY <2>1, <3>1, <3>2 DEF OptDone
  <2> QED
    BY <2>2, <2>3
<1>10. ASSUME NEW req \in AddrReqs, req \in DOMAIN conf' PROVE Wants(call, req)
  <2>1. Keeps(req)
    OBVIOUS
  <2>2. CASE Step.req = req
    BY <1>2, <2>2 DEF AskedInv, OptSteps
  <2>3. CASE Step.req # req
    BY <1>10, <2>1, <2>3 DEF AskedInv, Keeps
  <2> QED
    BY <2>2, <2>3
<1>7. ASSUME NEW fns PROVE Asks(Members(prog), fns) = Asks({Step}, fns) \cup Asks(Members(prog'), fns)
  BY <1>2, AsksUnion
<1>8. ASSUME ~lost'
      PROVE  /\ Addresses' \cup Asks(Members(prog'), AddrFns) = AddrsAsked(call)
             /\ Routes' \cup Asks(Members(prog'), RouteFns) = RoutesAsked(call)
  <2>1. /\ Addresses \cup Asks(Members(prog), AddrFns) = AddrsAsked(call)
        /\ Routes \cup Asks(Members(prog), RouteFns) = RoutesAsked(call)
    BY <1>8 DEF AskedInv
  <2>2. /\ Addresses' = Addresses \cup Asks({Step}, AddrFns)
        /\ Routes' = Routes \cup Asks({Step}, RouteFns)
    BY <1>8
  <2>3. /\ Asks(Members(prog), AddrFns) = Asks({Step}, AddrFns) \cup Asks(Members(prog'), AddrFns)
        /\ Asks(Members(prog), RouteFns) = Asks({Step}, RouteFns) \cup Asks(Members(prog'), RouteFns)
    BY <1>7
  <2> QED
    BY <2>1, <2>2, <2>3
<1>9. AskedInv'
  BY <1>5, <1>6, <1>8, <1>10 DEF AskedInv
<1> QED
  BY <1>4, <1>9

LEMMA AskedSame ==
  ASSUME SocketInv, AskedInv, UNCHANGED <<call, prog, leaked, conf, inbox, lost>>,
         prog = << >> => sock' = sock,
         status' = "loop" => status = "loop"
  PROVE  SocketInv' /\ AskedInv'
<1>1. SocketInv'
  BY DEF SocketInv, Left
<1>2. Addresses' = Addresses /\ Routes' = Routes
  BY DEF Addresses, Routes, Received
<1>3. AskedInv'
  BY <1>2 DEF AskedInv, OptDone
<1> QED
  BY <1>1, <1>3

(* A request that was received is one more address, or one more route.      *)
LEMMA ReceivedMore ==
  ASSUME TargetInv, Step \in Requests, Step.req \in AddrFns \cup RouteFns, inbox' = Append(inbox, Message)
  PROVE  /\ Addresses' = Addresses \cup Asks({Step}, AddrFns)
         /\ Routes' = Routes \cup Asks({Step}, RouteFns)
<1>1. Received' = Received \cup {Message}
  <2> DEFINE m == Message
  <2> HIDE DEF m
  <2>0. inbox' = Append(inbox, m)
    BY DEF m
  <2>1. inbox \in Seq(Targeted \cup {m})
    <3>1. inbox \in Seq(Targeted) /\ Targeted \subseteq Targeted \cup {m}
      BY DEF TargetInv
    <3> HIDE DEF Targeted
    <3> QED
      BY <3>1
  <2> HIDE DEF Targeted
  <2>2. /\ Len(inbox') = Len(inbox) + 1 /\ Len(inbox) \in Nat /\ inbox'[Len(inbox) + 1] = m
        /\ \A i \in 1 .. Len(inbox) : inbox'[i] = inbox[i]
    BY <2>0, <2>1, AppendProperties, LenProperties
  <2>3. 1 .. Len(inbox') = 1 .. Len(inbox) \cup {Len(inbox) + 1}
    BY <2>2
  <2>4. Received' = Received \cup {m}
    BY <2>2, <2>3 DEF Received
  <2> QED
    BY <2>4 DEF m
<1>2. Step.op = "netlink"
  BY DEF Requests
<1>3. CASE Step.req \in AddrFns
  <2>1. /\ Message.type = "RTM_NEWADDR" /\ Value(Message, "IFA_LOCAL") = Step.val[1]
        /\ Message.prefixlen = Step.val[2]
    BY <1>3, MessageReads
  <2>2. Asks({Step}, AddrFns) = {<<Step.val[1], Step.val[2]>>} /\ Asks({Step}, RouteFns) = {}
    <3> HIDE DEF Step
    <3>1. Step.req \notin RouteFns /\ Meant(Step) = <<Step.val[1], Step.val[2]>>
      BY <1>3 DEF AddrFns, RouteFns, Meant
    <3> QED
      BY <1>2, <1>3, <3>1 DEF Asks
  <2> HIDE DEF Message, Step
  <2> DEFINE m == Message
  <2>6. m.type = "RTM_NEWADDR" /\ Value(m, "IFA_LOCAL") = Step.val[1] /\ m.prefixlen = Step.val[2]
    BY <2>1
  <2>7. Received' = Received \cup {m}
    BY <1>1
  <2> HIDE DEF m
  <2>3. {q \in Received' : q.type = "RTM_NEWADDR"} = {q \in Received : q.type = "RTM_NEWADDR"} \cup {m}
    BY <2>6, <2>7
  <2>4. {q \in Received' : q.type = "RTM_NEWROUTE"} = {q \in Received : q.type = "RTM_NEWROUTE"}
    BY <2>6, <2>7
  <2>5. Addresses' = Addresses \cup {<<Step.val[1], Step.val[2]>>}
    BY <2>3, <2>6 DEF Addresses
  <2>8. Routes' = Routes
    BY <2>4 DEF Routes
  <2> QED
    BY <2>2, <2>5, <2>8
<1>4. CASE Step.req \in RouteFns
  <2>1. /\ Message.type = "RTM_NEWROUTE" /\ Value(Message, "RTA_DST") = Step.val[1]
        /\ Message.prefixlen = Step.val[2] /\ Value(Message, "RTA_GATEWAY") = Step.val[3]
    BY <1>4, MessageReads
  <2>2. Asks({Step}, RouteFns) = {<<Step.val[1], Step.val[2], Step.val[3]>>} /\ Asks({Step}, AddrFns) = {}
    <3> HIDE DEF Step
    <3>1. Step.req \notin AddrFns /\ Meant(Step) = <<Step.val[1], Step.val[2], Step.val[3]>>
      BY <1>4 DEF AddrFns, RouteFns, Meant
    <3> QED
      BY <1>2, <1>4, <3>1 DEF Asks
  <2> HIDE DEF Message, Step
  <2> DEFINE m == Message
  <2>6. /\ m.type = "RTM_NEWROUTE" /\ Value(m, "RTA_DST") = Step.val[1] /\ m.prefixlen = Step.val[2]
        /\ Value(m, "RTA_GATEWAY") = Step.val[3]
    BY <2>1
  <2>7. Received' = Received \cup {m}
    BY <1>1
  <2> HIDE DEF m
  <2>3. {q \in Received' : q.type = "RTM_NEWROUTE"} = {q \in Received : q.type = "RTM_NEWROUTE"} \cup {m}
    BY <2>6, <2>7
  <2>4. {q \in Received' : q.type = "RTM_NEWADDR"} = {q \in Received : q.type = "RTM_NEWADDR"}
    BY <2>6, <2>7
  <2>5. Routes' = Routes \cup {<<Step.val[1], Step.val[2], Step.val[3]>>}
    BY <2>3, <2>6 DEF Routes
  <2>8. Addresses' = Addresses
    BY <2>4 DEF Addresses
  <2> QED
    BY <2>2, <2>5, <2>8
<1> HIDE DEF Step
<1> QED
  BY <1>3, <1>4

LEMMA AskedInit == Init => ConfInv
<1> SUFFICES ASSUME Init PROVE ConfInv
  OBVIOUS
<1>1. TargetInv
  BY TargetInit
<1> SUFFICES ASSUME Configures(call) PROVE SocketInv /\ AskedInv
  BY <1>1 DEF ConfInv
<1>2. /\ call \in Calls /\ prog = setup_host(call) /\ status = "run" /\ sock = FALSE /\ leaked = 0
      /\ inbox = << >> /\ lost = FALSE
  BY DEF Init
<1>3. /\ Asked(call, prog, AddrReqs) /\ WaitsOnce(prog) /\ (call.kind # "kni" => NeverWaits(prog))
      /\ prog # << >> => EndsClosed(prog)
  BY <1>2, AskedAtStart
<1>5. Left("kni_loop") => call.kind = "kni"
  BY <1>3 DEF Left, NeverWaits, Members
<1>6. SocketInv
  BY <1>2, <1>3, <1>5 DEF SocketInv
<1>7. Received = {}
  BY <1>2 DEF Received
<1>8. Addresses = {} /\ Routes = {}
  BY <1>7 DEF Addresses, Routes
<1>9. \A req \in AddrReqs : req \notin DOMAIN conf
  BY DEF Init
<1>10. AskedInv
  BY <1>3, <1>8, <1>9 DEF Asked, AskedInv, OptDone
<1> QED
  BY <1>6, <1>10

LEMMA AskedStep ==
  ASSUME ConfInv, Configures(call), Setup PROVE SocketInv' /\ AskedInv'
<1>1. TargetInv /\ SocketInv /\ AskedInv
  BY DEF ConfInv
<1>2. call' = call
  BY SetupKeeps
<1>3. ASSUME NEW op, Doing(op)
      PROVE  /\ prog # << >> /\ Step.op = op /\ Step \in Steps /\ status # "loop"
             /\ Step \in Members(prog)
  <2>1. prog \in Seq(Steps) /\ prog # << >> /\ Step.op = op /\ status = "run"
    BY <1>1, <1>3 DEF Doing, TargetInv
  <2> HIDE DEF Steps
  <2> QED
    BY <2>1, MembersTail DEF Step
<1>4. CASE perror_exit
  <2>1. UNCHANGED <<prog, leaked, conf, inbox, lost, sock>> /\ status' # "loop"
    BY <1>4 DEF perror_exit
  <2> QED
    BY <1>1, <1>2, <2>1, AskedSame
<1>5. ASSUME UNCHANGED <<inbox, lost>>, Step.op # "netlink"
      PROVE  ~lost' => /\ ~lost
                       /\ Addresses' = Addresses \cup Asks({Step}, AddrFns)
                       /\ Routes' = Routes \cup Asks({Step}, RouteFns)
  <2>1. Received' = Received
    BY <1>5 DEF Received
  <2>2. Asks({Step}, AddrFns) = {} /\ Asks({Step}, RouteFns) = {}
    BY <1>5, AsksNone
  <2> QED
    BY <1>5, <2>1, <2>2 DEF Addresses, Routes
<1>6. ASSUME Step \in Steps, Step.op \in SysOps
      PROVE  Step.req \notin AddrReqs
  <2> HIDE DEF Step
  <2> QED
    BY <1>6 DEF Steps, SysOps, AddrReqs, Requests
<1>7. ASSUME NEW r, r \notin AddrReqs, NEW v, conf' = conf \/ conf' = Recorded(r, v), Step.req \notin AddrReqs
      PROVE  \A req \in AddrReqs : Keeps(req)
  BY <1>7 DEF Recorded, Keeps
<1>8. CASE MakeInterface /\ ~perror_exit
  <2>1. /\ Doing("open") \/ Doing("TUNSETIFF") \/ Doing("rte_kni_alloc")
        /\ Done /\ conf' = Recorded(Step.op, 1) /\ UNCHANGED <<sock, leaked, inbox, lost>>
    BY <1>8 DEF MakeInterface
  <2>2. prog # << >> /\ Step \in Steps /\ Step.op \in {"open", "TUNSETIFF", "rte_kni_alloc"}
    BY <1>3, <2>1
  <2>3. Step.req \notin AddrReqs /\ Step.op \notin AddrReqs /\ Step.op # "netlink" /\ Step.op \notin Closing
    BY <1>6, <2>2 DEF SysOps, AddrReqs, Closing
  <2> QED
    BY <1>1, <1>2, <1>5, <1>7, <2>1, <2>2, <2>3, AskedDone
<1>9. CASE Socket \/ Close
  <2>1. /\ Doing("socket") \/ (Doing("close") /\ ~sock')
        /\ Done /\ UNCHANGED <<leaked, conf, inbox, lost>>
    BY <1>9 DEF Socket, Close
  <2>2. prog # << >> /\ Step \in Steps /\ (Step.op = "socket" \/ (Step.op = "close" /\ ~sock'))
    BY <1>3, <2>1
  <2>3. Step.req \notin AddrReqs /\ Step.op # "netlink" /\ (Step.op \in Closing => ~sock')
    BY <1>6, <2>2 DEF SysOps, Closing
  <2>4. "socket" \notin AddrReqs
    BY DEF AddrReqs
  <2> QED
    BY <1>1, <1>2, <1>5, <1>7, <2>1, <2>2, <2>3, <2>4, AskedDone
<1>10. CASE ioctl /\ ~perror_exit
  <2>1. /\ Doing("ioctl") /\ Done /\ UNCHANGED <<sock, leaked, inbox, lost>>
        /\ IF Step.member = "none" THEN conf' = conf ELSE conf' = Recorded(Step.req, Step.val)
    BY <1>10 DEF ioctl
  <2>2. prog # << >> /\ Step \in Steps /\ Step.op = "ioctl"
    BY <1>3, <2>1
  <2>3. Step.member = "none" => Step.req \notin AddrReqs
    <3> HIDE DEF Step
    <3> QED
      BY <2>2 DEF Steps, SysOps, GetReqs, AddrReqs, Requests
  <2>4. \A req \in AddrReqs : Keeps(req)
    <3>1. CASE Step.member = "none"
      BY <2>1, <2>3, <3>1 DEF Keeps
    <3>2. CASE Step.member # "none"
      <4>1. conf' = Recorded(Step.req, Step.val)
        BY <2>1, <3>2
      <4> HIDE DEF Step
      <4> QED
        BY <4>1 DEF Recorded, Keeps
    <3> QED
      BY <3>1, <3>2
  <2>5. Step.op # "netlink" /\ Step.op \notin Closing
    BY <2>2 DEF Closing
  <2> QED
    BY <1>1, <1>2, <1>5, <2>1, <2>2, <2>4, <2>5, AskedDone
<1>11. CASE send_to_socket \/ tap_send_to_socket \/ netlink_send_to_socket
  <2>1. /\ Doing("netlink") /\ Done /\ UNCHANGED <<sock, leaked, conf>>
        /\ \/ inbox' = Append(inbox, Message) /\ lost' = lost
           \/ lost' = TRUE
    BY <1>11 DEF Send, send_to_socket, tap_send_to_socket, netlink_send_to_socket
  <2>2. prog # << >> /\ Step \in Steps /\ Step.op = "netlink" /\ Step.req \in AddrFns \cup RouteFns
    BY <1>1, <1>3, <2>1 DEF AskedInv, OwnRequests
  <2>3. Step \in Requests /\ Step.req \notin AddrReqs /\ Step.op \notin Closing
    <3> HIDE DEF Step
    <3> QED
      BY <2>2 DEF Steps, SysOps, AddrFns, RouteFns, AddrReqs, Closing
  <2>4. ~lost' => /\ ~lost
                  /\ Addresses' = Addresses \cup Asks({Step}, AddrFns)
                  /\ Routes' = Routes \cup Asks({Step}, RouteFns)
    BY <1>1, <2>1, <2>2, <2>3, ReceivedMore
  <2>5. \A req \in AddrReqs : Keeps(req)
    BY <2>1, <2>3 DEF Keeps
  <2> HIDE DEF Message
  <2> QED
    BY <1>1, <1>2, <2>1, <2>2, <2>3, <2>4, <2>5, AskedDone
<1>12. CASE rte_kni_handle_request \/ KniSetFlags \/ KniIsDown
  <2>1. UNCHANGED <<prog, status, sock, leaked, conf, inbox, lost>>
    BY <1>12 DEF rte_kni_handle_request, KniSetFlags, KniIsDown, KniRest
  <2> QED
    BY <1>1, <1>2, <2>1, AskedSame
<1>13. CASE KniGetFlags
  <2>1. /\ Doing("kni_loop") /\ UNCHANGED <<conf, inbox, lost>>
        /\ \/ Done /\ ~sock' /\ leaked' = IF sock THEN leaked + 1 ELSE leaked
           \/ UNCHANGED <<prog, status, sock, leaked>>
    BY <1>13 DEF KniGetFlags, InLoop, KniRest
  <2>2. prog # << >> /\ Step \in Steps /\ Step.op = "kni_loop" /\ status # "loop"
    BY <1>3, <2>1
  <2>3. Step.req \notin AddrReqs /\ Step.op # "netlink"
    BY <1>6, <2>2 DEF SysOps
  <2>4. CASE UNCHANGED <<prog, status, sock, leaked>>
    BY <1>1, <1>2, <2>1, <2>4, AskedSame
  <2>5. CASE Done /\ ~sock' /\ leaked' = IF sock THEN leaked + 1 ELSE leaked
    <3>1. "kni_loop" \notin AddrReqs
      BY DEF AddrReqs
    <3>2. leaked' = leaked \/ (Step.op = "kni_loop" /\ leaked' = leaked + 1)
      BY <2>2, <2>5
    <3> QED
      BY <1>1, <1>2, <1>5, <1>7, <2>1, <2>2, <2>3, <2>5, <3>1, <3>2, AskedDone
  <2> QED
    BY <2>1, <2>4, <2>5
<1> QED
  BY <1>4, <1>8, <1>9, <1>10, <1>11, <1>12, <1>13 DEF Setup

(* The kernel's record of a request, at the end of a set-up.                *)
LEMMA OptionAtEnd ==
  ASSUME AskedInv, prog = << >>, NEW req \in AddrReqs
  PROVE  Option(req, Wants(call, req), OptAsked(call, req))
<1>1. Members(prog) = {}
  BY DEF Members
<1>2. ~Has(Members(prog), req)
  BY <1>1 DEF Has
<1>3. CASE Wants(call, req)
  <2>1. OptDone(req)
    BY <1>3 DEF AskedInv
  <2> QED
    BY <1>2, <1>3, <2>1 DEF OptDone, Option
<1>4. CASE ~Wants(call, req)
  <2>1. req \notin DOMAIN conf
    BY <1>4 DEF AskedInv
  <2> QED
    BY <1>4, <2>1 DEF Option
<1> QED
  BY <1>3, <1>4

(* ConfiguredAsAsked: when a set-up of a host interface or of a mirror comes *)
(* to its end, the kernel has every hardware address, MTU, set of flags,    *)
(* address and netmask it was called for, with these values, and no others; *)
(* and, if no netlink request of ext_netlink.c was lost, the addresses and  *)
(* the routes with their gateway, and no others.  It left no socket open    *)
(* but the one that kni_create forgets.  For all arguments, and whatever    *)
(* calls fail; the direct calls of the two other netlink files are left out.*)
THEOREM HostConfiguredAsAsked == Spec => []ConfiguredAsAsked
<1>1. Init => ConfInv
  BY AskedInit
<1>2. ConfInv /\ [Next]_vars => ConfInv'
  <2> SUFFICES ASSUME ConfInv, [Next]_vars PROVE ConfInv'
    OBVIOUS
  <2>1. TargetInv'
    BY TargetNext DEF ConfInv
  <2>2. CASE Setup
    BY <2>1, <2>2, AskedStep, SetupKeeps DEF ConfInv, Configures
  <2>3. CASE KniDown \/ tap_rx_to_ring \/ kni_rx_to_ring \/ KniRetry \/ Worker \/ UNCHANGED vars
    <3>1. UNCHANGED <<call, prog, leaked, conf, inbox, lost, sock>> /\ (status' = "loop" => status = "loop")
      <4>1. CASE KniDown
        BY <4>1 DEF KniDown, KniRest
      <4>2. CASE tap_rx_to_ring \/ kni_rx_to_ring \/ KniRetry \/ Worker
        <5>1. UNCHANGED LoopRest
          BY <4>2, Zenon DEF tap_rx_to_ring, kni_rx_to_ring, KniRetry, Worker, WorkerTakes, WorkerFrees
        <5>2. status = "loop"
          BY <4>2, Zenon DEF tap_rx_to_ring, kni_rx_to_ring, KniRetry, Worker, WorkerTakes, WorkerFrees
        <5> QED
          BY <5>1, <5>2 DEF LoopRest
      <4>4. CASE UNCHANGED vars
        BY <4>4 DEF vars
      <4> QED
        BY <2>3, <4>1, <4>2, <4>4
    <3> QED
      BY <2>1, <3>1, AskedSame DEF ConfInv, Configures
  <2> QED
    BY <2>2, <2>3 DEF Next
<1>3. ConfInv => ConfiguredAsAsked
  <2> SUFFICES ASSUME ConfInv, status = "loop", Configures(call) PROVE ConfiguredAsAsked
    BY DEF ConfiguredAsAsked, Configures
  <2>1. SocketInv /\ AskedInv /\ call \in Calls
    BY DEF ConfInv, TargetInv
  <2>2. prog = << >>
    BY <2>1 DEF SocketInv
  <2>3. \A req \in AddrReqs : Option(req, Wants(call, req), OptAsked(call, req))
    BY <2>1, <2>2, OptionAtEnd
  <2>4. call.kind \in {"tap", "kni"}
    <3>1. call.kind \in {"tap", "kni", "copy"}
      BY <2>1, CallsAssumption
    <3> QED
      BY <3>1 DEF Configures
  <2>5. ~sock /\ leaked <= IF call.kind = "tap" THEN 0 ELSE 1
    BY <2>1, <2>2, <2>4 DEF SocketInv
  <2>6. /\ lost \/ Addresses = AddrsAsked(call)
        /\ lost \/ Routes = RoutesAsked(call)
    <3>1. Members(prog) = {}
      BY <2>2 DEF Members
    <3>2. Asks(Members(prog), AddrFns) = {} /\ Asks(Members(prog), RouteFns) = {}
      BY <3>1, AsksNone
    <3> QED
      BY <2>1, <3>2 DEF AskedInv
  <2>7. /\ Option("SIOCSIFHWADDR", call.kind = "tap" /\ call.mac # 0, call.mac)
        /\ Option("SIOCSIFMTU", call.kind = "tap" /\ call.mtu # 0, call.mtu)
        /\ Option("SIOCSIFFLAGS", call.kind = "tap", IF call.rw THEN IFF_UP ELSE IFF_UP + 128 + 256)
    BY <2>3 DEF AddrReqs, V4Reqs, Wants, OptAsked, UpFlags, Option
  <2>8. /\ Option("SIOCSIFADDR", call.rw /\ call.ipv4 # 0, call.ipv4)
        /\ Option("SIOCSIFDSTADDR", call.rw /\ call.ipv4 # 0, DstAddr(call.ipv4))
        /\ Option("SIOCSIFBRDADDR", call.rw /\ call.ipv4 # 0, BrdAddr(call.ipv4))
        /\ Option("SIOCSIFNETMASK", call.rw /\ call.ipv4 # 0, MASK)
    BY <2>3 DEF AddrReqs, V4Reqs, Wants, OptAsked, Option
  <2>9. /\ DstAddr(call.ipv4) = (call.ipv4 - (call.ipv4 % 4)) + 3 - (call.ipv4 % 4)
        /\ BrdAddr(call.ipv4) = (call.ipv4 - (call.ipv4 % 4)) + 3
    <3>1. PICK x \in Nat : x = call.ipv4
      BY <2>1, CallType
    <3>2. PICK r \in Nat : r = x % 4
      OBVIOUS
    <3>3. /\ x - 2 * r + 3 = (x - r) + 3 - r /\ x - r + 3 = (x - r) + 3
      OBVIOUS
    <3> QED
      BY <3>1, <3>2, <3>3 DEF DstAddr, BrdAddr
  <2> QED
    BY <2>5, <2>6, <2>7, <2>8, <2>9 DEF ConfiguredAsAsked, AddrsAsked, RoutesAsked
<1> QED
  BY <1>1, <1>2, <1>3, PTL DEF Spec
=============================================================================

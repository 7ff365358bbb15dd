------------------------ MODULE PacketOrderingProofs ------------------------
(***************************************************************************)
(* Proofs about PacketOrdering, for every number of workers and packets and *)
(* every size of the rings, of the bursts and of the reorder window: the   *)
(* threads of src/examples/packet_ordering.cr send the packets of a port   *)
(* in the order in which they were received, every packet received is at   *)
(* every moment in one place only or one of the packets sent too early,    *)
(* which are lost, and the counters tell how many are between the stages.  *)
(***************************************************************************)
EXTENDS PacketOrdering, SequenceTheorems, FiniteSetTheorems, TLAPS

(* Numbers that ascend, that are all below those of another sequence, and   *)
(* that are all below a bound.                                              *)
Ascends(s) == \A i, j \in 1 .. Len(s) : i < j => s[i] < s[j]
Below(s, t) == \A i \in 1 .. Len(s) : \A j \in 1 .. Len(t) : s[i] < t[j]
Under(s, n) == \A i \in 1 .. Len(s) : s[i] < n

Consecutive(s, n, k) == Len(s) = k /\ \A i \in 1 .. k : s[i] = n + (i - 1)

Prefix(s, t) == Len(s) <= Len(t) /\ \A i \in 1 .. Len(s) : s[i] = t[i]

(* What was sent through a port, or waits in its transmit buffer.           *)
Line(o) == wire[o] \o tx_buffer[o]

Queues ==
    /\ seqn \in 0 .. MaxPkts
    /\ recv \in Seq(Nat) /\ rx_to_workers \in Seq(Nat) /\ workers_to_tx \in Seq(Nat)
    /\ burst \in [Workers -> Seq(Nat)]
    /\ Len(rx_to_workers) <= RING_SIZE /\ Len(workers_to_tx) <= RING_SIZE

SendType ==
    /\ reorder \in [init : BOOLEAN, min : Nat, order : SUBSET Nat, ready : Seq(Nat)]
    /\ send \in [pc : {"dequeue", "insert", "overflow", "transmit"}, pkts : Seq(Nat)]
    /\ tx_buffer \in [Ports -> Seq(Nat)] /\ wire \in [Ports -> Seq(Nat)]

(* The entries of the reorder buffer lie in its window; while the window    *)
(* moves they stay behind the packet that is to be inserted.                *)
Window ==
    /\ \A p \in reorder.order : p \in reorder.min .. (reorder.min + REORDER_BUFFER_SIZE - 1)
    /\ ~reorder.init => reorder.min = 0 /\ reorder.order = {}
    /\ send.pc = "overflow" =>
         /\ send.pkts # << >> /\ reorder.init /\ reorder.min <= send.pkts[1]
         /\ \A p \in reorder.order : p < send.pkts[1]

(* What was sent is before what is being transmitted, that before what is   *)
(* ready, and that before the window.                                       *)
Ordered ==
    /\ Ascends(reorder.ready) /\ Under(reorder.ready, reorder.min)
    /\ \A o \in Ports : Ascends(Line(o)) /\ Under(Line(o), reorder.min) /\ Below(Line(o), reorder.ready)
    /\ send.pc = "transmit" =>
         /\ Ascends(send.pkts) /\ Under(send.pkts, reorder.min) /\ Below(send.pkts, reorder.ready)
         /\ \A o \in Ports : Below(Line(o), send.pkts)

(* The inductive invariant of the thread that restores the order.           *)
OrderInv == /\ portmask \subseteq Ports
            /\ Queues /\ SendType
            /\ disable_reorder => send.pc \in {"dequeue", "transmit"}
            /\ ~disable_reorder => Window /\ Ordered

-----------------------------------------------------------------------------
(* Minima of two numbers, and the pieces of a sequence.                     *)

LEMMA MinOfTwo ==
  ASSUME NEW a \in Int, NEW b \in Int
  PROVE  Min({a, b}) = IF a <= b THEN a ELSE b
<1> DEFINE m == IF a <= b THEN a ELSE b
<1>1. m \in {a, b} /\ \A y \in {a, b} : m <= y
  OBVIOUS
<1>2. \A x \in {a, b} : (\A y \in {a, b} : x <= y) => x = m
  OBVIOUS
<1> QED
  BY <1>1, <1>2 DEF Min

LEMMA FirstNParts ==
  ASSUME NEW s \in Seq(Nat), NEW n \in 0 .. Len(s)
  PROVE  /\ FirstN(s, n) \in Seq(Nat) /\ Len(FirstN(s, n)) = n
         /\ \A i \in 1 .. n : FirstN(s, n)[i] = s[i]
<1>1. Len(s) \in Nat
  BY LenProperties
<1>2. /\ SubSeq(s, 1, n) \in Seq(Nat)
      /\ Len(SubSeq(s, 1, n)) = IF 1 <= n THEN n - 1 + 1 ELSE 0
      /\ \A i \in 1 .. (n - 1 + 1) : SubSeq(s, 1, n)[i] = s[1 + i - 1]
  BY <1>1, SubSeqProperties
<1> QED
  BY <1>1, <1>2 DEF FirstN

LEMMA AfterNParts ==
  ASSUME NEW s \in Seq(Nat), NEW n \in 0 .. Len(s)
  PROVE  /\ AfterN(s, n) \in Seq(Nat) /\ Len(AfterN(s, n)) = Len(s) - n
         /\ \A i \in 1 .. (Len(s) - n) : AfterN(s, n)[i] = s[n + i]
<1>1. Len(s) \in Nat
  BY LenProperties
<1>2. /\ SubSeq(s, n + 1, Len(s)) \in Seq(Nat)
      /\ Len(SubSeq(s, n + 1, Len(s))) = Len(s) - n
      /\ \A i \in 1 .. (Len(s) - n) : SubSeq(s, n + 1, Len(s))[i] = s[n + i]
  BY <1>1, SubSeqProperties
<1> QED
  BY <1>1, <1>2 DEF AfterN

LEMMA TailParts ==
  ASSUME NEW s \in Seq(Nat), s # << >>
  PROVE  /\ Tail(s) \in Seq(Nat) /\ Len(Tail(s)) = Len(s) - 1 /\ s[1] \in Nat /\ Len(s) \in Nat \ {0}
         /\ \A i \in 1 .. (Len(s) - 1) : Tail(s)[i] = s[i + 1]
  BY HeadTailProperties, EmptySeq, LenProperties

LEMMA ConcatParts ==
  ASSUME NEW s \in Seq(Nat), NEW t \in Seq(Nat)
  PROVE  /\ s \o t \in Seq(Nat) /\ Len(s \o t) = Len(s) + Len(t)
         /\ \A i \in 1 .. Len(s) : (s \o t)[i] = s[i]
         /\ \A i \in 1 .. Len(t) : (s \o t)[Len(s) + i] = t[i]
<1>1. /\ s \o t \in Seq(Nat) /\ Len(s \o t) = Len(s) + Len(t)
      /\ \A i \in 1 .. (Len(s) + Len(t)) : (s \o t)[i] = IF i <= Len(s) THEN s[i] ELSE t[i - Len(s)]
  BY ConcatProperties
<1>2. Len(s) \in Nat /\ Len(t) \in Nat
  BY LenProperties
<1> QED
  BY <1>1, <1>2

LEMMA AppendParts ==
  ASSUME NEW s \in Seq(Nat), NEW p \in Nat
  PROVE  /\ Append(s, p) \in Seq(Nat) /\ Len(Append(s, p)) = Len(s) + 1
         /\ \A i \in 1 .. Len(s) : Append(s, p)[i] = s[i]
         /\ Append(s, p)[Len(s) + 1] = p
  BY AppendProperties, LenProperties

-----------------------------------------------------------------------------
(* What each call does to the order of the numbers.                         *)

LEMMA PrefixOrdered ==
  ASSUME NEW s \in Seq(Nat), NEW t \in Seq(Nat), Prefix(s, t)
  PROVE  /\ Ascends(t) => Ascends(s)
         /\ \A n \in Nat : Under(t, n) => Under(s, n)
         /\ \A u \in Seq(Nat) : Below(t, u) => Below(s, u)
<1>1. Len(s) \in Nat /\ Len(t) \in Nat /\ Len(s) <= Len(t) /\ \A i \in 1 .. Len(s) : i \in 1 .. Len(t) /\ s[i] = t[i]
  BY LenProperties DEF Prefix
<1>2. Ascends(t) => Ascends(s)
  BY <1>1 DEF Ascends
<1>3. ASSUME NEW n \in Nat, Under(t, n)
      PROVE  Under(s, n)
  BY <1>1, <1>3 DEF Under
<1>4. ASSUME NEW u \in Seq(Nat), Below(t, u)
      PROVE  Below(s, u)
  BY <1>1, <1>4 DEF Below
<1> QED
  BY <1>2, <1>3, <1>4

LEMMA AppendOrdered ==
  ASSUME NEW s \in Seq(Nat), NEW p \in Nat, Ascends(s), Under(s, p)
  PROVE  /\ Ascends(Append(s, p))
         /\ \A n \in Nat : Under(s, n) /\ p < n => Under(Append(s, p), n)
<1> DEFINE t == Append(s, p)
<1>1. /\ Len(s) \in Nat /\ Len(t) = Len(s) + 1 /\ t[Len(s) + 1] = p
      /\ \A i \in 1 .. Len(s) : t[i] = s[i]
  BY AppendParts, LenProperties
<1> HIDE DEF t
<1>2. \A i \in 1 .. Len(t) : (i \in 1 .. Len(s) /\ t[i] = s[i]) \/ (i = Len(s) + 1 /\ t[i] = p)
  BY <1>1
<1>3. Ascends(t)
  <2> SUFFICES ASSUME NEW i \in 1 .. Len(t), NEW j \in 1 .. Len(t), i < j
               PROVE  t[i] < t[j]
    BY DEF Ascends
  <2>1. i \in 1 .. Len(s) /\ t[i] = s[i]
    BY <1>1
  <2>2. CASE j \in 1 .. Len(s)
    BY <2>1, <2>2, <1>1 DEF Ascends
  <2>3. CASE j = Len(s) + 1
    BY <2>1, <2>3, <1>1 DEF Under
  <2> QED
    BY <2>2, <2>3, <1>2
<1>4. ASSUME NEW n \in Nat, Under(s, n), p < n
      PROVE  Under(t, n)
  BY <1>1, <1>2, <1>4 DEF Under
<1> QED
  BY <1>3, <1>4 DEF t

(* A packet handed to the transmit buffer leaves those behind it in order.  *)
LEMMA TransmitOrdered ==
  ASSUME NEW line \in Seq(Nat), NEW pkts \in Seq(Nat), pkts # << >>, NEW ready \in Seq(Nat), NEW min \in Nat,
         Ascends(line), Under(line, min), Below(line, ready), Below(line, pkts),
         Ascends(pkts), Under(pkts, min), Below(pkts, ready)
  PROVE  /\ Ascends(Append(line, pkts[1])) /\ Under(Append(line, pkts[1]), min)
         /\ Below(Append(line, pkts[1]), ready) /\ Below(Append(line, pkts[1]), Tail(pkts))
         /\ Below(line, Tail(pkts))
         /\ Ascends(Tail(pkts)) /\ Under(Tail(pkts), min) /\ Below(Tail(pkts), ready)
<1>0. PICK p \in Nat : p = pkts[1]
  BY TailParts
<1> DEFINE new == Append(line, p)  rest == Tail(pkts)
<1>1. /\ rest \in Seq(Nat) /\ Len(rest) = Len(pkts) - 1 /\ Len(pkts) \in Nat \ {0}
      /\ \A i \in 1 .. (Len(pkts) - 1) : rest[i] = pkts[i + 1]
  BY TailParts
<1>2. /\ Len(line) \in Nat /\ Len(new) = Len(line) + 1 /\ new[Len(line) + 1] = p
      /\ \A i \in 1 .. Len(line) : new[i] = line[i]
  BY <1>1, AppendParts, LenProperties
<1>3. Under(line, p) /\ p < min
  BY <1>0, <1>1 DEF Below, Under
<1>4. Ascends(new) /\ Under(new, min)
  BY <1>3, AppendOrdered
<1> HIDE DEF new, rest
<1>5. \A i \in 1 .. Len(new) : (i \in 1 .. Len(line) /\ new[i] = line[i]) \/ (i = Len(line) + 1 /\ new[i] = p)
  BY <1>2
<1>6. \A i \in 1 .. Len(rest) : i + 1 \in 1 .. Len(pkts) /\ rest[i] = pkts[i + 1] /\ p < rest[i]
  <2> SUFFICES ASSUME NEW i \in 1 .. Len(rest)
               PROVE  i + 1 \in 1 .. Len(pkts) /\ rest[i] = pkts[i + 1] /\ p < rest[i]
    OBVIOUS
  <2>1. 1 \in 1 .. Len(pkts) /\ i + 1 \in 1 .. Len(pkts) /\ 1 < i + 1 /\ rest[i] = pkts[i + 1]
    BY <1>1
  <2>2. pkts[1] < pkts[i + 1]
    BY <2>1 DEF Ascends
  <2> QED
    BY <1>0, <2>1, <2>2
<1>7. Below(new, ready)
  <2>1. \A j \in 1 .. Len(ready) : p < ready[j]
    BY <1>0, <1>1 DEF Below
  <2> QED
    BY <2>1, <1>5 DEF Below
<1>8. Below(line, rest)
  BY <1>6 DEF Below
<1>9. Below(new, rest)
  BY <1>5, <1>6, <1>8 DEF Below
<1>10. Ascends(rest)
  <2> SUFFICES ASSUME NEW i \in 1 .. Len(rest), NEW j \in 1 .. Len(rest), i < j
               PROVE  rest[i] < rest[j]
    BY DEF Ascends
  <2>1. i + 1 \in 1 .. Len(pkts) /\ j + 1 \in 1 .. Len(pkts) /\ i + 1 < j + 1
    BY <1>1
  <2>2. pkts[i + 1] < pkts[j + 1]
    BY <2>1 DEF Ascends
  <2> QED
    BY <2>2, <1>6
<1>11. Under(rest, min) /\ Below(rest, ready)
  BY <1>6 DEF Under, Below
<1> QED
  BY <1>0, <1>4, <1>7, <1>8, <1>9, <1>10, <1>11 DEF new, rest

(* The buffer flushed: what was sent is a prefix of what was in line.       *)
LEMMA FlushPrefix ==
  ASSUME NEW w \in Seq(Nat), NEW t \in Seq(Nat), NEW p \in Nat, NEW sent \in 0 .. (Len(t) + 1)
  PROVE  /\ w \o FirstN(Append(t, p), sent) \in Seq(Nat)
         /\ Prefix(w \o FirstN(Append(t, p), sent), Append(w \o t, p))
<1> DEFINE b == Append(t, p)  f == FirstN(b, sent)  l == w \o t  n == w \o f  a == Append(l, p)
<1>1. Len(w) \in Nat /\ Len(t) \in Nat
  BY LenProperties
<1>2. b \in Seq(Nat) /\ Len(b) = Len(t) + 1 /\ (\A i \in 1 .. Len(t) : b[i] = t[i]) /\ b[Len(t) + 1] = p
  BY AppendParts
<1>3. f \in Seq(Nat) /\ Len(f) = sent /\ \A i \in 1 .. sent : f[i] = b[i]
  BY <1>2, FirstNParts
<1>4. /\ l \in Seq(Nat) /\ Len(l) = Len(w) + Len(t)
      /\ \A i \in 1 .. Len(w) : l[i] = w[i]
      /\ \A i \in 1 .. Len(t) : l[Len(w) + i] = t[i]
  BY ConcatParts
<1>5. a \in Seq(Nat) /\ Len(a) = Len(l) + 1 /\ (\A i \in 1 .. Len(l) : a[i] = l[i]) /\ a[Len(l) + 1] = p
  BY <1>4, AppendParts
<1>6. /\ n \in Seq(Nat) /\ Len(n) = Len(w) + Len(f)
      /\ \A i \in 1 .. Len(w) : n[i] = w[i]
      /\ \A i \in 1 .. Len(f) : n[Len(w) + i] = f[i]
  BY <1>3, ConcatParts
<1> HIDE DEF b, f, l, n, a
<1>7. \A i \in 1 .. Len(w) : n[i] = a[i]
  BY <1>1, <1>4, <1>5, <1>6
<1>8. ASSUME NEW i \in 1 .. Len(f)
      PROVE  n[Len(w) + i] = a[Len(w) + i]
  <2>1. CASE i <= Len(t)
    <3>1. n[Len(w) + i] = t[i]
      BY <2>1, <1>1, <1>2, <1>3, <1>6
    <3>2. Len(w) + i \in 1 .. Len(l) /\ l[Len(w) + i] = t[i]
      <4>1. i \in 1 .. Len(t)
        BY <2>1, <1>1
      <4>2. Len(w) + i \in 1 .. (Len(w) + Len(t))
        BY <4>1, <1>1
      <4> QED
        BY <4>1, <4>2, <1>4
    <3> QED
      BY <3>1, <3>2, <1>5
  <2>2. CASE i = Len(t) + 1
    BY <2>2, <1>1, <1>2, <1>3, <1>4, <1>5, <1>6
  <2> QED
    BY <2>1, <2>2, <1>1, <1>3
<1>9. ASSUME NEW i \in 1 .. Len(n)
      PROVE  n[i] = a[i]
  <2>1. CASE i <= Len(w)
    BY <2>1, <1>1, <1>7
  <2>2. CASE i > Len(w)
    <3>1. i - Len(w) \in 1 .. Len(f) /\ Len(w) + (i - Len(w)) = i
      BY <2>2, <1>1, <1>3, <1>6
    <3> QED
      BY <3>1, <1>8
  <2> QED
    BY <2>1, <2>2, <1>1
<1>10. Prefix(n, a)
  BY <1>1, <1>3, <1>4, <1>5, <1>6, <1>9 DEF Prefix
<1> QED
  BY <1>6, <1>10 DEF n, f, b, a, l

(* What rte_reorder_drain hands out comes before what stays behind.         *)
LEMMA DrainOrdered ==
  ASSUME NEW ready \in Seq(Nat), NEW min \in Nat, NEW n \in 0 .. Len(ready), NEW r \in Nat,
         r > 0 => n = Len(ready), Ascends(ready), Under(ready, min),
         NEW run \in Seq(Nat), Consecutive(run, min, r)
  PROVE  LET out == FirstN(ready, n) \o run
             rest == AfterN(ready, n)
         IN  /\ out \in Seq(Nat) /\ rest \in Seq(Nat)
             /\ Ascends(out) /\ Under(out, min + r) /\ Below(out, rest)
             /\ Ascends(rest) /\ Under(rest, min + r)
             /\ \A line \in Seq(Nat) : Under(line, min) /\ Below(line, ready) =>
                  Under(line, min + r) /\ Below(line, out) /\ Below(line, rest)
<1> DEFINE first == FirstN(ready, n)  out == first \o run  rest == AfterN(ready, n)
<1>1. Len(ready) \in Nat /\ n \in Nat
  BY LenProperties
<1>2. first \in Seq(Nat) /\ Len(first) = n /\ \A i \in 1 .. n : first[i] = ready[i]
  BY FirstNParts
<1>3. rest \in Seq(Nat) /\ Len(rest) = Len(ready) - n /\ \A i \in 1 .. (Len(ready) - n) : rest[i] = ready[n + i]
  BY AfterNParts
<1>4. /\ out \in Seq(Nat) /\ Len(out) = n + r
      /\ \A i \in 1 .. Len(first) : out[i] = first[i]
      /\ \A i \in 1 .. Len(run) : out[Len(first) + i] = run[i]
  BY <1>2, ConcatParts DEF Consecutive
<1> HIDE DEF first, out, rest
<1>5. ASSUME NEW i \in 1 .. Len(out)
      PROVE  \/ i \in 1 .. n /\ i \in 1 .. Len(ready) /\ out[i] = ready[i]
             \/ i > n /\ n = Len(ready) /\ out[i] = min + ((i - n) - 1) /\ i <= n + r
  <2>1. CASE i <= n
    <3>1. i \in 1 .. n /\ i \in 1 .. Len(ready)
      BY <2>1, <1>1
    <3>2. out[i] = first[i] /\ first[i] = ready[i]
      BY <3>1, <1>2, <1>4
    <3> QED
      BY <3>1, <3>2
  <2>2. CASE i > n
    <3>1. i - n \in 1 .. r /\ n + (i - n) = i /\ r > 0
      BY <2>2, <1>1, <1>4
    <3>2. out[i] = run[i - n]
      BY <3>1, <1>2, <1>4 DEF Consecutive
    <3>3. run[i - n] = min + ((i - n) - 1)
      BY <3>1 DEF Consecutive
    <3> QED
      BY <3>1, <3>2, <3>3, <2>2, <1>1
  <2> QED
    BY <2>1, <2>2, <1>1
<1>6. \A i \in 1 .. Len(rest) : n + i \in 1 .. Len(ready) /\ rest[i] = ready[n + i] /\ r = 0
  <2> SUFFICES ASSUME NEW i \in 1 .. Len(rest)
               PROVE  n + i \in 1 .. Len(ready) /\ rest[i] = ready[n + i] /\ r = 0
    OBVIOUS
  <2>1. i \in 1 .. (Len(ready) - n) /\ n # Len(ready)
    BY <1>1, <1>3
  <2>2. n + i \in 1 .. Len(ready)
    BY <2>1, <1>1
  <2> QED
    BY <2>1, <2>2, <1>3
<1>7. \A i \in 1 .. Len(ready) : ready[i] \in Nat /\ ready[i] < min
  BY ElementOfSeq DEF Under
<1>8. Ascends(out)
  <2> SUFFICES ASSUME NEW i \in 1 .. Len(out), NEW j \in 1 .. Len(out), i < j
               PROVE  out[i] < out[j]
    BY DEF Ascends
  <2>1. CASE j <= n
    <3>1. i \in 1 .. Len(ready) /\ j \in 1 .. Len(ready) /\ out[i] = ready[i] /\ out[j] = ready[j]
      BY <2>1, <1>1, <1>5
    <3> QED
      BY <3>1 DEF Ascends
  <2>2. CASE j > n
    <3>1. out[j] = min + ((j - n) - 1)
      BY <2>2, <1>1, <1>5
    <3>2. \/ i \in 1 .. Len(ready) /\ out[i] = ready[i]
          \/ out[i] = min + ((i - n) - 1)
      BY <1>5
    <3> QED
      BY <3>1, <3>2, <2>2, <1>1, <1>7
  <2> QED
    BY <2>1, <2>2, <1>1
<1>9. Under(out, min + r)
  <2> SUFFICES ASSUME NEW i \in 1 .. Len(out)
               PROVE  out[i] < min + r
    BY DEF Under
  <2>1. CASE i <= n
    <3>1. out[i] \in Nat /\ out[i] < min
      BY <2>1, <1>1, <1>5, <1>7
    <3> QED
      BY <3>1
  <2>2. CASE i > n
    BY <2>2, <1>1, <1>5
  <2> QED
    BY <2>1, <2>2, <1>1
<1>10. Below(out, rest)
  <2> SUFFICES ASSUME NEW i \in 1 .. Len(out), NEW j \in 1 .. Len(rest)
               PROVE  out[i] < rest[j]
    BY DEF Below
  <2>1. n + j \in 1 .. Len(ready) /\ rest[j] = ready[n + j] /\ r = 0
    BY <1>6
  <2>2. i \in 1 .. Len(ready) /\ out[i] = ready[i] /\ i < n + j
    BY <2>1, <1>1, <1>5
  <2> QED
    BY <2>1, <2>2 DEF Ascends
<1>11. Ascends(rest)
  <2> SUFFICES ASSUME NEW i \in 1 .. Len(rest), NEW j \in 1 .. Len(rest), i < j
               PROVE  rest[i] < rest[j]
    BY DEF Ascends
  <2>1. n + i \in 1 .. Len(ready) /\ n + j \in 1 .. Len(ready) /\ n + i < n + j
    BY <1>1, <1>6
  <2> QED
    BY <2>1, <1>6 DEF Ascends
<1>12. Under(rest, min + r)
  <2> SUFFICES ASSUME NEW i \in 1 .. Len(rest)
               PROVE  rest[i] < min + r
    BY DEF Under
  <2>1. rest[i] \in Nat /\ rest[i] < min
    BY <1>6, <1>7
  <2> QED
    BY <2>1
<1>13. ASSUME NEW line \in Seq(Nat), Under(line, min), Below(line, ready)
       PROVE  Under(line, min + r) /\ Below(line, out) /\ Below(line, rest)
  <2>1. \A k \in 1 .. Len(line) : line[k] \in Nat /\ line[k] < min
    BY <1>13, ElementOfSeq DEF Under
  <2>2. Under(line, min + r)
    <3> SUFFICES ASSUME NEW k \in 1 .. Len(line)
                 PROVE  line[k] < min + r
      BY DEF Under
    <3> QED
      BY <2>1
  <2>3. Below(line, rest)
    BY <1>6, <1>13 DEF Below
  <2>4. Below(line, out)
    <3> SUFFICES ASSUME NEW k \in 1 .. Len(line), NEW i \in 1 .. Len(out)
                 PROVE  line[k] < out[i]
      BY DEF Below
    <3>1. CASE i <= n
      BY <3>1, <1>1, <1>5, <1>13 DEF Below
    <3>2. CASE i > n
      BY <3>2, <1>1, <1>5, <2>1
    <3> QED
      BY <3>1, <3>2, <1>1
  <2> QED
    BY <2>2, <2>3, <2>4
<1> QED
  BY <1>3, <1>4, <1>8, <1>9, <1>10, <1>11, <1>12, <1>13 DEF out, rest, first

(* The entries that follow one another from min on, of a buffer with        *)
(* finitely many entries.                                                   *)
LEMMA RunCounts ==
  ASSUME NEW b \in [init : BOOLEAN, min : Nat, order : SUBSET Nat, ready : Seq(Nat)],
         \A p \in b.order : p \in b.min .. (b.min + REORDER_BUFFER_SIZE - 1)
  PROVE  /\ Cardinality(Run(b)) \in Nat
         /\ FromReady(b) \in 0 .. Len(b.ready) /\ FromRun(b) \in Nat
         /\ FromRun(b) <= Cardinality(Run(b))
         /\ FromRun(b) > 0 => FromReady(b) = Len(b.ready)
<1>1. REORDER_BUFFER_SIZE \in Nat \ {0} /\ MAX_PKTS_BURST \in Nat \ {0}
  BY OrderingAssumption
<1>2. IsFiniteSet(b.min .. (b.min + REORDER_BUFFER_SIZE - 1))
  BY <1>1, FS_Interval
<1>3. Run(b) \subseteq b.min .. (b.min + REORDER_BUFFER_SIZE - 1)
  BY DEF Run
<1>4. IsFiniteSet(Run(b))
  BY <1>2, <1>3, FS_Subset
<1>5. Cardinality(Run(b)) \in Nat
  BY <1>4, FS_CardinalityType
<1>6. PICK r \in Nat : r = Cardinality(Run(b))
  BY <1>5
<1>7. PICK l \in Nat : l = Len(b.ready)
  BY LenProperties
<1>8. FromReady(b) = IF MAX_PKTS_BURST <= l THEN MAX_PKTS_BURST ELSE l
  BY <1>1, <1>7, MinOfTwo DEF FromReady
<1>9. FromRun(b) = IF MAX_PKTS_BURST - FromReady(b) <= r THEN MAX_PKTS_BURST - FromReady(b) ELSE r
  <2>1. MAX_PKTS_BURST - FromReady(b) \in Int
    BY <1>1, <1>8
  <2> QED
    BY <1>6, <2>1, MinOfTwo DEF FromRun
<1> HIDE DEF FromReady, FromRun
<1> QED
  BY <1>1, <1>6, <1>7, <1>8, <1>9

-----------------------------------------------------------------------------
(* The bursts in and out of a ring stay within it.                          *)

LEMMA RoomFits ==
  ASSUME NEW ring \in Seq(Nat), Len(ring) <= RING_SIZE, NEW n \in Nat
  PROVE  Room(ring, n) \in 0 .. n /\ Len(ring) + Room(ring, n) <= RING_SIZE
<1>1. RING_SIZE \in Nat /\ Len(ring) \in Nat
  BY OrderingAssumption, LenProperties
<1>2. Room(ring, n) = IF n <= RING_SIZE - Len(ring) THEN n ELSE RING_SIZE - Len(ring)
  BY <1>1, MinOfTwo DEF Room
<1> QED
  BY <1>1, <1>2

LEMMA BurstFits ==
  ASSUME NEW ring \in Seq(Nat)
  PROVE  Burst(ring) \in 0 .. Len(ring)
<1>1. MAX_PKTS_BURST \in Nat /\ Len(ring) \in Nat
  BY OrderingAssumption, LenProperties
<1>2. Burst(ring) = IF MAX_PKTS_BURST <= Len(ring) THEN MAX_PKTS_BURST ELSE Len(ring)
  BY <1>1, MinOfTwo DEF Burst
<1> QED
  BY <1>1, <1>2

LEMMA EnqueueFits ==
  ASSUME NEW ring \in Seq(Nat), Len(ring) <= RING_SIZE, NEW ps \in Seq(Nat)
  PROVE  LET ret == Room(ring, Len(ps)) IN
         ring \o FirstN(ps, ret) \in Seq(Nat) /\ Len(ring \o FirstN(ps, ret)) <= RING_SIZE
<1> DEFINE ret == Room(ring, Len(ps))
<1>1. Len(ps) \in Nat
  BY LenProperties
<1>2. ret \in 0 .. Len(ps) /\ Len(ring) + ret <= RING_SIZE
  BY <1>1, RoomFits
<1> HIDE DEF ret
<1>3. FirstN(ps, ret) \in Seq(Nat) /\ Len(FirstN(ps, ret)) = ret
  BY <1>2, FirstNParts
<1>4. ring \o FirstN(ps, ret) \in Seq(Nat) /\ Len(ring \o FirstN(ps, ret)) = Len(ring) + ret
  <2>1. PICK first \in Seq(Nat) : first = FirstN(ps, ret) /\ Len(first) = ret
    BY <1>3
  <2>2. ring \o first \in Seq(Nat) /\ Len(ring \o first) = Len(ring) + Len(first)
    BY ConcatParts
  <2> QED
    BY <2>1, <2>2
<1> QED
  BY <1>2, <1>4 DEF ret

LEMMA DequeueFits ==
  ASSUME NEW ring \in Seq(Nat), Len(ring) <= RING_SIZE
  PROVE  /\ FirstN(ring, Burst(ring)) \in Seq(Nat) /\ AfterN(ring, Burst(ring)) \in Seq(Nat)
         /\ Len(AfterN(ring, Burst(ring))) <= RING_SIZE
<1>1. RING_SIZE \in Nat /\ Len(ring) \in Nat
  BY OrderingAssumption, LenProperties
<1>2. PICK n \in 0 .. Len(ring) : n = Burst(ring)
  BY BurstFits
<1>3. FirstN(ring, n) \in Seq(Nat) /\ AfterN(ring, n) \in Seq(Nat) /\ Len(AfterN(ring, n)) = Len(ring) - n
  BY FirstNParts, AfterNParts
<1> QED
  BY <1>1, <1>2, <1>3

-----------------------------------------------------------------------------
(* The threads before send_thread.                                          *)

SendVars == <<reorder, send, tx_buffer, wire, args>>

LEMMA OrderKept == OrderInv /\ Queues' /\ UNCHANGED SendVars => OrderInv'
  BY DEF OrderInv, SendVars, SendType, Window, Ordered, Line, args

LEMMA RxStep == OrderInv /\ (RxNone \/ RxBurst \/ RxEnqueue) => OrderInv'
<1> SUFFICES ASSUME OrderInv, RxNone \/ RxBurst \/ RxEnqueue
             PROVE  OrderInv'
  OBVIOUS
<1>1. UNCHANGED SendVars
  BY DEF SendVars, RxNone, RxBurst, RxEnqueue
<1>2. MaxPkts \in Nat /\ MAX_PKTS_BURST \in Nat \ {0}
  BY OrderingAssumption
<1>3. Queues
  BY DEF OrderInv
<1>4. ASSUME RxNone
      PROVE  Queues'
  BY <1>3, <1>4 DEF RxNone, Queues
<1>5. ASSUME RxBurst
      PROVE  Queues'
  <2>1. PICK nb \in 1 .. Min({MAX_PKTS_BURST, MaxPkts - seqn}) :
          /\ recv' = [i \in 1 .. nb |-> seqn + i - 1]
          /\ seqn' = seqn + nb
    BY <1>5 DEF RxBurst
  <2>2. seqn \in Nat /\ seqn <= MaxPkts
    BY <1>3, <1>2 DEF Queues
  <2>3. Min({MAX_PKTS_BURST, MaxPkts - seqn}) = IF MAX_PKTS_BURST <= MaxPkts - seqn THEN MAX_PKTS_BURST
                                                                                   ELSE MaxPkts - seqn
    BY <1>2, <2>2, MinOfTwo
  <2>4. nb \in Nat /\ nb <= MaxPkts - seqn
    BY <1>2, <2>2, <2>3
  <2>5. recv' \in Seq(Nat)
    <3>1. \A i \in 1 .. nb : seqn + i - 1 \in Nat
      BY <2>2, <2>4
    <3> QED
      BY <2>1, <2>4, <3>1
  <2> QED
    BY <1>2, <1>3, <1>5, <2>1, <2>2, <2>4, <2>5 DEF RxBurst, Queues
<1>6. ASSUME RxEnqueue
      PROVE  Queues'
  <2>1. rx_to_workers' \in Seq(Nat) /\ Len(rx_to_workers') <= RING_SIZE
    BY <1>3, <1>6, EnqueueFits DEF RxEnqueue, Queues
  <2>2. recv' \in Seq(Nat)
    BY <1>6 DEF RxEnqueue
  <2> QED
    BY <1>3, <1>6, <2>1, <2>2 DEF RxEnqueue, Queues
<1> QED
  BY <1>1, <1>4, <1>5, <1>6, OrderKept

LEMMA WorkerStep ==
  ASSUME OrderInv, NEW w \in Workers, WorkerDequeue(w) \/ WorkerEnqueue(w)
  PROVE  OrderInv'
<1>1. UNCHANGED SendVars
  BY DEF SendVars, WorkerDequeue, WorkerEnqueue
<1>2. Queues
  BY DEF OrderInv
<1>3. ASSUME WorkerDequeue(w)
      PROVE  Queues'
  <2>1. /\ FirstN(rx_to_workers, Burst(rx_to_workers)) \in Seq(Nat)
        /\ rx_to_workers' \in Seq(Nat) /\ Len(rx_to_workers') <= RING_SIZE
    BY <1>2, <1>3, DequeueFits DEF WorkerDequeue, Queues
  <2>2. burst' \in [Workers -> Seq(Nat)]
    BY <1>2, <1>3, <2>1 DEF WorkerDequeue, Queues
  <2> QED
    BY <1>2, <1>3, <2>1, <2>2 DEF WorkerDequeue, Queues
<1>4. ASSUME WorkerEnqueue(w)
      PROVE  Queues'
  <2>1. workers_to_tx' \in Seq(Nat) /\ Len(workers_to_tx') <= RING_SIZE
    BY <1>2, <1>4, EnqueueFits DEF WorkerEnqueue, Queues
  <2>2. burst' \in [Workers -> Seq(Nat)]
    BY <1>2, <1>4 DEF WorkerEnqueue, Queues
  <2> QED
    BY <1>2, <1>4, <2>1, <2>2 DEF WorkerEnqueue, Queues
<1> QED
  BY <1>1, <1>3, <1>4, OrderKept

-----------------------------------------------------------------------------
(* send_thread.                                                             *)

Buffers == [init : BOOLEAN, min : Nat, order : SUBSET Nat, ready : Seq(Nat)]

LEMMA UnderRaised ==
  ASSUME NEW s \in Seq(Nat), NEW m \in Nat, NEW n \in Nat, m <= n, Under(s, m)
  PROVE  Under(s, n)
<1> SUFFICES ASSUME NEW i \in 1 .. Len(s)
             PROVE  s[i] < n
  BY DEF Under
<1>1. s[i] \in Nat /\ s[i] < m
  BY ElementOfSeq DEF Under
<1> QED
  BY <1>1

LEMMA LineType ==
  ASSUME SendType, NEW o \in Ports
  PROVE  wire[o] \in Seq(Nat) /\ tx_buffer[o] \in Seq(Nat) /\ Line(o) \in Seq(Nat)
<1>1. wire[o] \in Seq(Nat) /\ tx_buffer[o] \in Seq(Nat)
  BY DEF SendType
<1> QED
  BY <1>1, ConcatParts DEF Line

LEMMA StartedBuffer ==
  ASSUME NEW b \in Buffers, NEW p \in Nat
  PROVE  /\ Started(b, p) \in Buffers
         /\ Started(b, p).init /\ Started(b, p).order = b.order /\ Started(b, p).ready = b.ready
         /\ Started(b, p).min = IF b.init THEN b.min ELSE p
<1>1. CASE b.init
  BY <1>1 DEF Started, Buffers
<1>2. CASE ~b.init
  BY <1>2 DEF Started, Buffers
<1> QED
  BY <1>1, <1>2

LEMMA PutBuffer ==
  ASSUME NEW b \in Buffers, NEW p \in Nat
  PROVE  /\ Put(b, p) \in Buffers
         /\ Put(b, p).init = b.init /\ Put(b, p).min = b.min /\ Put(b, p).ready = b.ready
         /\ Put(b, p).order = b.order \cup {p}
  BY DEF Put, Buffers

(* The window moves up, nothing becomes ready or is handed out.             *)
LEMMA OrderedRaised ==
  ASSUME SendType, Ordered, reorder' \in Buffers, reorder'.ready = reorder.ready,
         reorder'.min >= reorder.min, UNCHANGED <<tx_buffer, wire>>, send'.pc # "transmit"
  PROVE  Ordered'
<1>1. reorder.min \in Nat /\ reorder'.min \in Nat /\ reorder.ready \in Seq(Nat)
  BY DEF SendType, Buffers
<1>2. PICK m \in Nat : m = reorder.min
  BY <1>1
<1>3. PICK n \in Nat : n = reorder'.min /\ m <= n
  BY <1>1, <1>2
<1>4. PICK r \in Seq(Nat) : r = reorder.ready /\ r = reorder'.ready
  BY <1>1
<1>5. Ascends(r) /\ Under(r, n)
  BY <1>2, <1>3, <1>4, UnderRaised DEF Ordered
<1>6. ASSUME NEW o \in Ports
      PROVE  Ascends(Line(o)') /\ Under(Line(o)', n) /\ Below(Line(o)', r)
  <2>1. PICK l \in Seq(Nat) : l = Line(o) /\ l = Line(o)'
    BY LineType DEF Line
  <2>2. Ascends(l) /\ Under(l, m) /\ Below(l, r)
    BY <2>1, <1>2, <1>4 DEF Ordered
  <2> QED
    BY <2>1, <2>2, <1>3, UnderRaised
<1> QED
  BY <1>3, <1>4, <1>5, <1>6 DEF Ordered

LEMMA DequeueStep == OrderInv /\ SendDequeue => OrderInv'
<1> SUFFICES ASSUME OrderInv, SendDequeue
             PROVE  OrderInv'
  OBVIOUS
<1>1. Queues /\ SendType /\ portmask' \subseteq Ports
  BY DEF OrderInv, SendDequeue, args
<1>2. /\ FirstN(workers_to_tx, Burst(workers_to_tx)) \in Seq(Nat)
      /\ workers_to_tx' \in Seq(Nat) /\ Len(workers_to_tx') <= RING_SIZE
  BY <1>1, DequeueFits DEF SendDequeue, Queues
<1>3. Queues'
  BY <1>1, <1>2 DEF SendDequeue, Queues
<1>4. SendType'
  BY <1>1, <1>2 DEF SendDequeue, SendType
<1>5. ASSUME ~disable_reorder'
      PROVE  Window' /\ Ordered'
  <2>1. ~disable_reorder /\ Window /\ Ordered
    BY <1>5 DEF OrderInv, SendDequeue, args
  <2>2. send'.pc = "insert" /\ UNCHANGED <<reorder, tx_buffer, wire>>
    BY <2>1 DEF SendDequeue
  <2>3. Window'
    BY <2>1, <2>2 DEF Window
  <2>4. Ordered'
    BY <2>1, <2>2 DEF Ordered, Line
  <2> QED
    BY <2>3, <2>4
<1> QED
  BY <1>1, <1>3, <1>4, <1>5 DEF OrderInv, SendDequeue, args

LEMMA InsertStep == OrderInv /\ Insert => OrderInv'
<1> SUFFICES ASSUME OrderInv, Insert
             PROVE  OrderInv'
  OBVIOUS
<1>1. Queues /\ SendType /\ portmask' \subseteq Ports /\ reorder \in Buffers
  BY DEF OrderInv, Insert, args, SendType, Buffers
<1>2. Queues'
  BY <1>1 DEF Insert, Queues
<1>3. /\ send.pc = "insert" /\ send.pkts \in Seq(Nat) /\ send.pkts # << >>
      /\ UNCHANGED <<tx_buffer, wire, args>>
  BY <1>1 DEF SendType, Insert
<1>4. PICK p \in Nat : p = send.pkts[1]
  BY <1>3, TailParts
<1>5. PICK b \in Buffers : b = Started(reorder, p)
  BY <1>1, StartedBuffer
<1>6. /\ b.init /\ b.order = reorder.order /\ b.ready = reorder.ready
      /\ b.min = IF reorder.init THEN reorder.min ELSE p
  BY <1>1, <1>5, StartedBuffer
<1>7. REORDER_BUFFER_SIZE \in Nat \ {0} /\ b.min \in Nat /\ reorder.min \in Nat
      /\ reorder.order \subseteq Nat
  BY <1>1, OrderingAssumption DEF Buffers
<1>8. \/ /\ p - b.min \in 0 .. (REORDER_BUFFER_SIZE - 1)
         /\ reorder' = Put(b, p) /\ send' = [send EXCEPT !.pkts = Tail(@)]
      \/ /\ reorder' = b /\ send' = [send EXCEPT !.pkts = Tail(@)]
      \/ /\ p - b.min \in REORDER_BUFFER_SIZE .. (2 * REORDER_BUFFER_SIZE - 1)
         /\ reorder' = b /\ send' = [send EXCEPT !.pc = "overflow"]
  BY <1>4, <1>5 DEF Insert
<1>9. Tail(send.pkts) \in Seq(Nat)
  BY <1>3, TailParts
<1>10. reorder' \in Buffers /\ reorder'.min = b.min /\ reorder'.ready = reorder.ready /\ reorder'.init
  BY <1>5, <1>6, <1>8, PutBuffer
<1>11. send' \in [pc : {"dequeue", "insert", "overflow", "transmit"}, pkts : Seq(Nat)]
       /\ send'.pc \in {"insert", "overflow"}
  BY <1>1, <1>3, <1>8, <1>9 DEF SendType
<1>12. SendType'
  BY <1>1, <1>3, <1>10, <1>11 DEF SendType, Buffers
<1>13. ASSUME ~disable_reorder'
       PROVE  Window' /\ Ordered'
  <2>1. Window /\ Ordered
    BY <1>3, <1>13 DEF OrderInv, args
  <2>2. b.min >= reorder.min
    BY <2>1, <1>6, <1>7 DEF Window
  <2>3. Ordered'
    BY <2>1, <2>2, <1>1, <1>3, <1>10, <1>11, OrderedRaised
  <2>4. \A q \in b.order : q \in b.min .. (b.min + REORDER_BUFFER_SIZE - 1)
    BY <2>1, <1>6 DEF Window
  <2>5. \A q \in reorder'.order : q \in b.min .. (b.min + REORDER_BUFFER_SIZE - 1)
    <3>1. CASE p - b.min \in 0 .. (REORDER_BUFFER_SIZE - 1) /\ reorder' = Put(b, p)
      <4>1. p \in b.min .. (b.min + REORDER_BUFFER_SIZE - 1)
        BY <3>1, <1>7
      <4>2. reorder'.order = b.order \cup {p}
        BY <3>1, PutBuffer
      <4> QED
        BY <4>1, <4>2, <2>4
    <3>2. CASE reorder' = b
      BY <3>2, <2>4
    <3> QED
      BY <1>8, <3>1, <3>2
  <2>6. ASSUME send'.pc = "overflow"
        PROVE  /\ send'.pkts # << >> /\ reorder'.min <= send'.pkts[1]
               /\ \A q \in reorder'.order : q < send'.pkts[1]
    <3>1. /\ p - b.min \in REORDER_BUFFER_SIZE .. (2 * REORDER_BUFFER_SIZE - 1)
          /\ reorder' = b /\ send' = [send EXCEPT !.pc = "overflow"]
      BY <2>6, <1>1, <1>3, <1>8 DEF SendType
    <3>2. send'.pkts = send.pkts
      BY <3>1, <1>1 DEF SendType
    <3>3. b.min + REORDER_BUFFER_SIZE <= p
      BY <3>1, <1>7
    <3>4. \A q \in b.order : q < p
      BY <3>3, <2>4, <1>7
    <3> QED
      BY <3>1, <3>2, <3>3, <3>4, <1>3, <1>4, <1>7
  <2>7. Window'
    BY <2>5, <2>6, <1>10 DEF Window
  <2> QED
    BY <2>3, <2>7
<1> QED
  BY <1>1, <1>2, <1>3, <1>12, <1>13 DEF OrderInv, args

Moved(b, m, o, r) == [b EXCEPT !.min = m, !.order = o, !.ready = r]

LEMMA MovedBuffer ==
  ASSUME NEW b \in Buffers, NEW m \in Nat, NEW o \in SUBSET Nat, NEW r \in Seq(Nat)
  PROVE  /\ Moved(b, m, o, r) \in Buffers /\ Moved(b, m, o, r).init = b.init
         /\ Moved(b, m, o, r).min = m /\ Moved(b, m, o, r).order = o /\ Moved(b, m, o, r).ready = r
<1>1. Moved(b, m, o, r) \in Buffers
  BY DEF Buffers, Moved
<1>2. /\ Moved(b, m, o, r).init = b.init
      /\ Moved(b, m, o, r).min = m /\ Moved(b, m, o, r).order = o /\ Moved(b, m, o, r).ready = r
  BY DEF Buffers, Moved
<1> QED
  BY <1>1, <1>2

LEMMA TakeBuffer ==
  ASSUME NEW b \in Buffers
  PROVE  /\ Take(b) \in Buffers /\ Take(b).init = b.init /\ Take(b).min = b.min + 1
         /\ Take(b).order = b.order \ {b.min} /\ Take(b).ready = Append(b.ready, b.min)
<1>1. b.min \in Nat /\ b.ready \in Seq(Nat) /\ b.order \ {b.min} \in SUBSET Nat
  BY DEF Buffers
<1>2. Append(b.ready, b.min) \in Seq(Nat) /\ b.min + 1 \in Nat
  BY <1>1, AppendParts
<1>3. Take(b) = Moved(b, b.min + 1, b.order \ {b.min}, Append(b.ready, b.min))
  BY Zenon DEF Take, Moved
<1>4. PICK m \in Nat, o \in SUBSET Nat, r \in Seq(Nat) :
        m = b.min + 1 /\ o = b.order \ {b.min} /\ r = Append(b.ready, b.min)
  BY <1>1, <1>2, Zenon
<1>5. Take(b) = Moved(b, m, o, r)
  BY <1>3, <1>4, Zenon
<1>6. /\ Moved(b, m, o, r) \in Buffers /\ Moved(b, m, o, r).init = b.init
      /\ Moved(b, m, o, r).min = m /\ Moved(b, m, o, r).order = o /\ Moved(b, m, o, r).ready = r
  BY MovedBuffer
<1> QED
  BY <1>4, <1>5, <1>6, Zenon

LEMMA SkipBuffer ==
  ASSUME NEW b \in Buffers
  PROVE  /\ Skip(b) \in Buffers /\ Skip(b).init = b.init /\ Skip(b).min = b.min + 1
         /\ Skip(b).order = b.order /\ Skip(b).ready = b.ready
<1>1. Skip(b) = [init |-> b.init, min |-> b.min + 1, order |-> b.order, ready |-> b.ready]
  BY DEF Skip, Buffers
<1> QED
  BY <1>1 DEF Buffers

(* The first entry of the window becomes ready.                             *)
LEMMA OrderedTake ==
  ASSUME SendType, Ordered, reorder' = Take(reorder), UNCHANGED <<tx_buffer, wire>>, send'.pc # "transmit"
  PROVE  Ordered'
<1>1. reorder \in Buffers
  BY DEF SendType, Buffers
<1>2. PICK m \in Nat, r \in Seq(Nat) : m = reorder.min /\ r = reorder.ready
  BY <1>1 DEF Buffers
<1>3. reorder'.min = m + 1 /\ reorder'.ready = Append(r, m)
  BY <1>1, <1>2, TakeBuffer
<1>4. Ascends(r) /\ Under(r, m)
  BY <1>2 DEF Ordered
<1>5. Under(r, m + 1)
  BY <1>4, UnderRaised
<1>6. Ascends(Append(r, m)) /\ Under(Append(r, m), m + 1)
  BY <1>4, <1>5, AppendOrdered
<1>7. ASSUME NEW o \in Ports
      PROVE  Ascends(Line(o)') /\ Under(Line(o)', m + 1) /\ Below(Line(o)', Append(r, m))
  <2>1. PICK l \in Seq(Nat) : l = Line(o) /\ l = Line(o)'
    BY LineType DEF Line
  <2>2. Ascends(l) /\ Under(l, m) /\ Below(l, r)
    BY <2>1, <1>2 DEF Ordered
  <2>3. Under(l, m + 1)
    BY <2>2, UnderRaised
  <2>4. Below(l, Append(r, m))
    <3> DEFINE a == Append(r, m)
    <3>1. /\ Len(r) \in Nat /\ Len(a) = Len(r) + 1 /\ a[Len(r) + 1] = m
          /\ \A i \in 1 .. Len(r) : a[i] = r[i]
      BY AppendParts, LenProperties
    <3> HIDE DEF a
    <3>2. \A i \in 1 .. Len(a) : (i \in 1 .. Len(r) /\ a[i] = r[i]) \/ a[i] = m
      BY <3>1
    <3>3. Below(l, a)
      BY <2>2, <3>2 DEF Below, Under
    <3> QED
      BY <3>3 DEF a
  <2> QED
    BY <2>1, <2>2, <2>3, <2>4
<1> QED
  BY <1>3, <1>6, <1>7 DEF Ordered

LEMMA OverflowStep == OrderInv /\ rte_reorder_fill_overflow => OrderInv'
<1> SUFFICES ASSUME OrderInv, rte_reorder_fill_overflow
             PROVE  OrderInv'
  OBVIOUS
<1>1. /\ Queues /\ SendType /\ portmask' \subseteq Ports /\ reorder \in Buffers
      /\ send.pc = "overflow" /\ UNCHANGED <<send, tx_buffer, wire, args>>
  BY DEF OrderInv, rte_reorder_fill_overflow, args, SendType, Buffers
<1>2. Queues'
  BY <1>1 DEF rte_reorder_fill_overflow, Queues
<1>3. \/ Due(reorder) /\ reorder' = Take(reorder)
      \/ Behind(reorder) /\ ~Due(reorder) /\ reorder' = Skip(reorder)
  BY DEF rte_reorder_fill_overflow
<1>4. /\ reorder' \in Buffers /\ reorder'.min = reorder.min + 1 /\ reorder'.init = reorder.init
      /\ reorder'.order \subseteq reorder.order /\ reorder.min \notin reorder'.order
  <2>1. CASE reorder' = Take(reorder)
    BY <1>1, <2>1, TakeBuffer
  <2>2. CASE ~Due(reorder) /\ reorder' = Skip(reorder)
    BY <1>1, <2>2, SkipBuffer DEF Due
  <2> QED
    BY <1>3, <2>1, <2>2
<1>5. SendType'
  BY <1>1, <1>4 DEF SendType, Buffers
<1>6. REORDER_BUFFER_SIZE \in Nat \ {0} /\ reorder.min \in Nat /\ reorder.order \subseteq Nat
  BY <1>1, OrderingAssumption DEF Buffers
<1>7. ASSUME ~disable_reorder'
      PROVE  Window' /\ Ordered'
  <2>1. Window /\ Ordered
    BY <1>1, <1>7 DEF OrderInv, args
  <2>2. Ordered'
    <3>1. CASE reorder' = Take(reorder)
      BY <3>1, <2>1, <1>1, OrderedTake
    <3>2. CASE reorder' = Skip(reorder)
      BY <3>2, <2>1, <1>1, <1>4, <1>6, SkipBuffer, OrderedRaised
    <3> QED
      BY <1>3, <3>1, <3>2
  <2>3. send.pkts \in Seq(Nat) /\ send.pkts # << >> /\ reorder.init
    BY <2>1, <1>1 DEF Window, SendType
  <2>4. PICK p \in Nat : p = send.pkts[1]
    BY <2>3, TailParts
  <2>5. reorder.min < p /\ \A q \in reorder.order : q < p
    BY <2>1, <2>4, <1>1, <1>3, <1>6 DEF Window, Due, Behind
  <2>6. \A q \in reorder'.order : q \in (reorder.min + 1) .. (reorder.min + 1 + REORDER_BUFFER_SIZE - 1) /\ q < p
    <3> SUFFICES ASSUME NEW q \in reorder'.order
                 PROVE  q \in (reorder.min + 1) .. (reorder.min + 1 + REORDER_BUFFER_SIZE - 1) /\ q < p
      OBVIOUS
    <3>1. q \in reorder.min .. (reorder.min + REORDER_BUFFER_SIZE - 1) /\ q # reorder.min /\ q < p
      BY <2>1, <2>5, <1>4 DEF Window
    <3> QED
      BY <3>1, <1>6
  <2>7. Window'
    BY <2>3, <2>4, <2>5, <2>6, <1>1, <1>4, <1>6 DEF Window
  <2> QED
    BY <2>2, <2>7
<1> QED
  BY <1>1, <1>2, <1>5, <1>7 DEF OrderInv, args

LEMMA InsertMovedStep == OrderInv /\ InsertMoved => OrderInv'
<1> SUFFICES ASSUME OrderInv, InsertMoved
             PROVE  OrderInv'
  OBVIOUS
<1>1. /\ Queues /\ SendType /\ portmask' \subseteq Ports /\ reorder \in Buffers
      /\ send.pc = "overflow" /\ UNCHANGED <<tx_buffer, wire, args>>
      /\ send' = [pc |-> "insert", pkts |-> Tail(send.pkts)] /\ send.pkts \in Seq(Nat)
  BY DEF OrderInv, InsertMoved, args, SendType, Buffers
<1>2. Queues'
  BY <1>1 DEF InsertMoved, Queues
<1>3. \/ Behind(reorder) /\ reorder' = reorder
      \/ ~Behind(reorder) /\ reorder' = Put(reorder, send.pkts[1])
  BY DEF InsertMoved
<1>4. send.pkts # << >>
  BY <1>1 DEF OrderInv, Window
<1>5. PICK p \in Nat : p = send.pkts[1] /\ Tail(send.pkts) \in Seq(Nat)
  BY <1>1, <1>4, TailParts
<1>6. /\ reorder' \in Buffers /\ reorder'.min = reorder.min /\ reorder'.init = reorder.init
      /\ reorder'.ready = reorder.ready
  <2>1. CASE reorder' = reorder
    BY <2>1, <1>1
  <2>2. CASE reorder' = Put(reorder, p)
    <3>1. PICK b \in Buffers : b = reorder
      BY <1>1
    <3>2. reorder' = Put(b, p)
      BY <2>2, <3>1
    <3> QED
      BY <3>1, <3>2, PutBuffer
  <2> QED
    BY <2>1, <2>2, <1>3, <1>5
<1>7. SendType' /\ send'.pc = "insert"
  BY <1>1, <1>5, <1>6 DEF SendType, Buffers
<1>8. REORDER_BUFFER_SIZE \in Nat \ {0} /\ reorder.min \in Nat /\ reorder.order \subseteq Nat
  BY <1>1, OrderingAssumption DEF Buffers
<1>9. ASSUME ~disable_reorder'
      PROVE  Window' /\ Ordered'
  <2>1. Window /\ Ordered
    BY <1>1, <1>9 DEF OrderInv, args
  <2>2. Ordered'
    BY <2>1, <1>1, <1>6, <1>7, <1>8, OrderedRaised
  <2>3. reorder.min <= p /\ reorder.init
    BY <2>1, <1>1, <1>5 DEF Window
  <2>4. \A q \in reorder'.order : q \in reorder.min .. (reorder.min + REORDER_BUFFER_SIZE - 1)
    <3>1. CASE reorder' = reorder
      BY <3>1, <2>1 DEF Window
    <3>2. CASE ~Behind(reorder) /\ reorder' = Put(reorder, p)
      <4>1. p \in reorder.min .. (reorder.min + REORDER_BUFFER_SIZE - 1)
        BY <3>2, <2>3, <1>5, <1>8 DEF Behind
      <4>2. reorder'.order = reorder.order \cup {p}
        BY <3>2, <1>1, PutBuffer
      <4> QED
        BY <4>1, <4>2, <2>1 DEF Window
    <3> QED
      BY <1>3, <1>5, <3>1, <3>2
  <2>5. Window'
    BY <2>3, <2>4, <1>6, <1>7 DEF Window
  <2> QED
    BY <2>2, <2>5
<1> QED
  BY <1>1, <1>2, <1>7, <1>9 DEF OrderInv, args

(* What rte_reorder_drain returns, and the buffer it leaves.                *)
LEMMA DrainedParts ==
  ASSUME NEW b \in Buffers,
         \A p \in b.order : p \in b.min .. (b.min + REORDER_BUFFER_SIZE - 1)
  PROVE  \E n \in 0 .. Len(b.ready), r \in Nat, run \in Seq(Nat) :
           /\ n = FromReady(b) /\ r = FromRun(b)
           /\ r > 0 => n = Len(b.ready)
           /\ Consecutive(run, b.min, r)
           /\ Drained(b).out = FirstN(b.ready, n) \o run
           /\ Drained(b).b \in Buffers /\ Drained(b).b.init = b.init
           /\ Drained(b).b.min = b.min + r
           /\ Drained(b).b.order = b.order \ (b.min .. (b.min + r - 1))
           /\ Drained(b).b.ready = AfterN(b.ready, n)
<1>1. b.min \in Nat /\ b.ready \in Seq(Nat) /\ b.order \in SUBSET Nat
  BY DEF Buffers
<1>2. FromReady(b) \in 0 .. Len(b.ready) /\ FromRun(b) \in Nat /\ (FromRun(b) > 0 => FromReady(b) = Len(b.ready))
  BY RunCounts DEF Buffers
<1>3. PICK n \in 0 .. Len(b.ready), r \in Nat : n = FromReady(b) /\ r = FromRun(b)
  BY <1>2
<1>4. PICK m \in Nat : m = b.min
  BY <1>1
<1> DEFINE run == [i \in 1 .. r |-> m + i - 1]
<1>5. run \in Seq(Nat) /\ Len(run) = r /\ \A i \in 1 .. r : run[i] = m + (i - 1)
  <2>1. \A i \in 1 .. r : m + i - 1 \in Nat /\ m + i - 1 = m + (i - 1)
    BY <1>3, <1>4
  <2> QED
    BY <2>1, <1>3
<1>6. Consecutive(run, b.min, r)
  BY <1>4, <1>5 DEF Consecutive
<1>7. Drained(b).out = FirstN(b.ready, n) \o run
  BY <1>3, <1>4 DEF Drained
<1>8. PICK min \in Nat, o \in SUBSET Nat, rest \in Seq(Nat) :
        min = b.min + r /\ o = b.order \ (b.min .. (b.min + r - 1)) /\ rest = AfterN(b.ready, n)
  <2>1. b.min + r \in Nat /\ b.order \ (b.min .. (b.min + r - 1)) \in SUBSET Nat
    BY <1>1, <1>3
  <2>2. AfterN(b.ready, n) \in Seq(Nat)
    BY <1>1, AfterNParts
  <2> QED
    BY <2>1, <2>2, Zenon
<1>9. Drained(b).b = Moved(b, min, o, rest)
  <2>1. Drained(b).b = [b EXCEPT !.min = @ + FromRun(b), !.order = @ \ (b.min .. (b.min + FromRun(b) - 1)),
                                 !.ready = AfterN(@, FromReady(b))]
    BY DEF Drained
  <2> QED
    BY <2>1, <1>3, <1>8, Zenon DEF Moved
<1>10. /\ Moved(b, min, o, rest) \in Buffers /\ Moved(b, min, o, rest).init = b.init
       /\ Moved(b, min, o, rest).min = min /\ Moved(b, min, o, rest).order = o
       /\ Moved(b, min, o, rest).ready = rest
  BY MovedBuffer
<1>11. /\ Drained(b).b \in Buffers /\ Drained(b).b.init = b.init /\ Drained(b).b.min = b.min + r
       /\ Drained(b).b.order = b.order \ (b.min .. (b.min + r - 1))
       /\ Drained(b).b.ready = AfterN(b.ready, n)
  BY <1>8, <1>9, <1>10, Zenon
<1> HIDE DEF run
<1>12. r > 0 => n = Len(b.ready)
  BY <1>2, <1>3
<1> QED
  BY <1>3, <1>5, <1>6, <1>7, <1>11, <1>12

LEMMA DrainStep == OrderInv /\ Drain => OrderInv'
<1> SUFFICES ASSUME OrderInv, Drain
             PROVE  OrderInv'
  OBVIOUS
<1>1. /\ Queues /\ SendType /\ portmask' \subseteq Ports /\ reorder \in Buffers
      /\ send.pc = "insert" /\ UNCHANGED <<tx_buffer, wire, args>>
      /\ send' = [pc |-> "transmit", pkts |-> Drained(reorder).out] /\ reorder' = Drained(reorder).b
  BY DEF OrderInv, Drain, args, SendType, Buffers
<1>2. Queues'
  BY <1>1 DEF Drain, Queues
<1>3. Window /\ Ordered /\ ~disable_reorder
  BY <1>1 DEF OrderInv
<1>4. PICK n \in 0 .. Len(reorder.ready), r \in Nat, run \in Seq(Nat) :
           /\ r = FromRun(reorder)
           /\ r > 0 => n = Len(reorder.ready)
           /\ Consecutive(run, reorder.min, r)
           /\ Drained(reorder).out = FirstN(reorder.ready, n) \o run
           /\ Drained(reorder).b \in Buffers /\ Drained(reorder).b.init = reorder.init
           /\ Drained(reorder).b.min = reorder.min + r
           /\ Drained(reorder).b.order = reorder.order \ (reorder.min .. (reorder.min + r - 1))
           /\ Drained(reorder).b.ready = AfterN(reorder.ready, n)
  BY <1>1, <1>3, DrainedParts DEF Window
<1>5. PICK m \in Nat, rd \in Seq(Nat) : m = reorder.min /\ rd = reorder.ready
  BY <1>1 DEF Buffers
<1> DEFINE out == FirstN(rd, n) \o run  rest == AfterN(rd, n)
<1>6. /\ reorder'.min = m + r /\ reorder'.ready = rest /\ send'.pkts = out
      /\ reorder' \in Buffers /\ reorder'.init = reorder.init /\ send'.pc = "transmit"
      /\ reorder'.order = reorder.order \ (m .. (m + r - 1))
  BY <1>1, <1>4, <1>5
<1>7. Ascends(rd) /\ Under(rd, m)
  BY <1>3, <1>5 DEF Ordered
<1>8. /\ out \in Seq(Nat) /\ rest \in Seq(Nat)
      /\ Ascends(out) /\ Under(out, m + r) /\ Below(out, rest)
      /\ Ascends(rest) /\ Under(rest, m + r)
      /\ \A line \in Seq(Nat) : Under(line, m) /\ Below(line, rd) =>
           Under(line, m + r) /\ Below(line, out) /\ Below(line, rest)
  BY <1>4, <1>5, <1>7, DrainOrdered
<1> HIDE DEF out, rest
<1>9. SendType'
  <2>1. send' \in [pc : {"dequeue", "insert", "overflow", "transmit"}, pkts : Seq(Nat)]
    BY <1>1, <1>6, <1>8
  <2> QED
    BY <2>1, <1>1, <1>6 DEF SendType, Buffers
<1>10. ASSUME NEW o \in Ports
       PROVE  /\ Ascends(Line(o)') /\ Under(Line(o)', m + r) /\ Below(Line(o)', out) /\ Below(Line(o)', rest)
  <2>1. PICK l \in Seq(Nat) : l = Line(o) /\ l = Line(o)'
    BY <1>1, LineType DEF Line
  <2>2. Ascends(l) /\ Under(l, m) /\ Below(l, rd)
    BY <2>1, <1>3, <1>5 DEF Ordered
  <2> QED
    BY <2>1, <2>2, <1>8
<1>11. Ordered'
  BY <1>6, <1>8, <1>10 DEF Ordered
<1>12. Window'
  <2>1. REORDER_BUFFER_SIZE \in Nat \ {0} /\ reorder.order \subseteq Nat
    BY <1>1, OrderingAssumption DEF Buffers
  <2>2. ASSUME NEW q \in reorder'.order
        PROVE  q \in (m + r) .. (m + r + REORDER_BUFFER_SIZE - 1)
    <3>1. q \in m .. (m + REORDER_BUFFER_SIZE - 1) /\ q \notin m .. (m + r - 1)
      BY <1>3, <1>5, <1>6 DEF Window
    <3> QED
      BY <3>1, <2>1
  <2>3. ASSUME ~reorder'.init
        PROVE  reorder'.min = 0 /\ reorder'.order = {}
    <3>1. m = 0 /\ reorder.order = {}
      BY <2>3, <1>3, <1>5, <1>6 DEF Window
    <3>2. r = 0
      <4>1. Run(reorder) = {}
        BY <3>1 DEF Run
      <4>2. FromRun(reorder) <= 0
        BY <4>1, <1>1, <1>3, RunCounts, FS_EmptySet DEF Window, Buffers
      <4> QED
        BY <4>2, <1>4
    <3> QED
      BY <3>1, <3>2, <1>6
  <2> QED
    BY <2>2, <2>3, <1>6 DEF Window
<1> QED
  BY <1>1, <1>2, <1>3, <1>9, <1>11, <1>12 DEF OrderInv, args

(* A port's line after a packet was handed to it: the packet is last in it, *)
(* or what the driver refused is gone from its end.                         *)
LEMMA TransmitLine ==
  ASSUME SendType, Transmit, portmask \subseteq Ports, NEW o \in Ports
  PROVE  /\ Line(o)' \in Seq(Nat) /\ wire'[o] \in Seq(Nat) /\ tx_buffer'[o] \in Seq(Nat)
         /\ Line(o)' = Line(o) \/ Prefix(Line(o)', Append(Line(o), send.pkts[1]))
<1>1. send.pkts \in Seq(Nat) /\ send.pkts # << >>
  BY DEF SendType, Transmit
<1>2. PICK p \in Nat : p = send.pkts[1]
  BY <1>1, TailParts
<1>3. wire \in [Ports -> Seq(Nat)] /\ tx_buffer \in [Ports -> Seq(Nat)]
  BY DEF SendType
<1>4. PICK w \in Seq(Nat), t \in Seq(Nat) : w = wire[o] /\ t = tx_buffer[o]
  BY <1>3
<1>5. Append(t, p) \in Seq(Nat) /\ Len(Append(t, p)) = Len(t) + 1 /\ Len(t) \in Nat
  BY AppendParts, LenProperties
<1>6. Line(o) = w \o t /\ Line(o)' = wire'[o] \o tx_buffer'[o]
  BY <1>4 DEF Line
<1>7. CASE wire'[o] = wire[o] /\ tx_buffer'[o] = tx_buffer[o]
  BY <1>4, <1>6, <1>7, ConcatParts
<1>8. CASE wire'[o] = wire[o] /\ tx_buffer'[o] = Append(t, p)
  <2>1. w \o Append(t, p) = Append(w \o t, p)
    OBVIOUS
  <2>2. w \o t \in Seq(Nat) /\ Append(w \o t, p) \in Seq(Nat)
    BY ConcatParts, AppendParts
  <2>3. Len(Append(w \o t, p)) \in Nat
    BY <2>2, LenProperties
  <2>4. Prefix(Append(w \o t, p), Append(w \o t, p))
    BY <2>3 DEF Prefix
  <2>5. Line(o)' = Append(w \o t, p)
    BY <2>1, <1>4, <1>6, <1>8
  <2> QED
    BY <2>2, <2>4, <2>5, <1>2, <1>4, <1>5, <1>6, <1>8
<1>9. CASE \E sent \in 0 .. (Len(t) + 1) : wire'[o] = w \o FirstN(Append(t, p), sent) /\ tx_buffer'[o] = << >>
  <2>1. PICK sent \in 0 .. (Len(t) + 1) : wire'[o] = w \o FirstN(Append(t, p), sent) /\ tx_buffer'[o] = << >>
    BY <1>9
  <2>2. /\ wire'[o] \in Seq(Nat)
        /\ Prefix(wire'[o], Append(w \o t, p))
    BY <2>1, FlushPrefix
  <2>3. Line(o)' = wire'[o]
    BY <2>1, <2>2, <1>6
  <2> QED
    BY <2>1, <2>2, <2>3, <1>2, <1>6
<1>10. \/ wire'[o] = wire[o] /\ tx_buffer'[o] = tx_buffer[o]
       \/ wire'[o] = wire[o] /\ tx_buffer'[o] = Append(t, p)
       \/ \E sent \in 0 .. (Len(t) + 1) : wire'[o] = w \o FirstN(Append(t, p), sent) /\ tx_buffer'[o] = << >>
  <2> DEFINE q == port[send.pkts[1]]  buffered == Append(tx_buffer[q], send.pkts[1])
  <2>1. CASE UNCHANGED <<tx_buffer, wire>>
    BY <2>1
  <2>2. CASE /\ q \in portmask /\ tx_buffer' = [tx_buffer EXCEPT ![q] = buffered] /\ wire' = wire
    BY <2>2, <1>2, <1>3, <1>4
  <2>3. CASE /\ q \in portmask
             /\ \E sent \in 0 .. Len(buffered) : wire' = [wire EXCEPT ![q] = @ \o FirstN(buffered, sent)]
             /\ tx_buffer' = [tx_buffer EXCEPT ![q] = << >>]
    <3>1. PICK sent \in 0 .. Len(buffered) : wire' = [wire EXCEPT ![q] = @ \o FirstN(buffered, sent)]
      BY <2>3
    <3>2. CASE q = o
      <4>1. buffered = Append(t, p) /\ sent \in 0 .. (Len(t) + 1)
        BY <3>2, <1>2, <1>4, <1>5
      <4>2. wire'[o] = w \o FirstN(Append(t, p), sent)
        BY <3>1, <3>2, <4>1, <1>3, <1>4
      <4>3. tx_buffer'[o] = << >>
        BY <2>3, <3>2, <1>3
      <4> QED
        BY <4>1, <4>2, <4>3
    <3>3. CASE q # o
      BY <3>1, <3>3, <2>3, <1>3
    <3> QED
      BY <3>2, <3>3
  <2>4. \/ UNCHANGED <<tx_buffer, wire>>
        \/ q \in portmask /\ tx_buffer' = [tx_buffer EXCEPT ![q] = buffered] /\ wire' = wire
        \/ /\ q \in portmask
           /\ \E sent \in 0 .. Len(buffered) : wire' = [wire EXCEPT ![q] = @ \o FirstN(buffered, sent)]
           /\ tx_buffer' = [tx_buffer EXCEPT ![q] = << >>]
    BY DEF Transmit
  <2> QED
    BY <2>1, <2>2, <2>3, <2>4
<1> QED
  BY <1>7, <1>8, <1>9, <1>10

LEMMA TransmitStep == OrderInv /\ Transmit => OrderInv'
<1> SUFFICES ASSUME OrderInv, Transmit
             PROVE  OrderInv'
  OBVIOUS
<1>1. /\ Queues /\ SendType /\ portmask \subseteq Ports /\ portmask' \subseteq Ports /\ reorder \in Buffers
      /\ send.pc = "transmit" /\ UNCHANGED <<reorder, args>> /\ send' = [send EXCEPT !.pkts = Tail(@)]
      /\ send.pkts \in Seq(Nat) /\ send.pkts # << >>
  BY DEF OrderInv, Transmit, args, SendType, Buffers
<1>2. Queues'
  BY <1>1 DEF Transmit, Queues
<1>3. PICK pkts \in Seq(Nat) : pkts = send.pkts /\ pkts # << >>
  BY <1>1
<1>4. Tail(pkts) \in Seq(Nat) /\ pkts[1] \in Nat
  BY <1>3, TailParts
<1>5. /\ send' \in [pc : {"dequeue", "insert", "overflow", "transmit"}, pkts : Seq(Nat)]
      /\ send'.pc = "transmit" /\ send'.pkts = Tail(pkts)
  BY <1>1, <1>3, <1>4 DEF SendType
<1>6. wire' \in [Ports -> Seq(Nat)] /\ tx_buffer' \in [Ports -> Seq(Nat)]
  <2>1. \A o \in Ports : wire'[o] \in Seq(Nat) /\ tx_buffer'[o] \in Seq(Nat)
    BY <1>1, TransmitLine
  <2>2. wire' = [o \in Ports |-> wire'[o]] /\ tx_buffer' = [o \in Ports |-> tx_buffer'[o]]
    BY <1>1 DEF Transmit, SendType
  <2> QED
    BY <2>1, <2>2
<1>7. SendType'
  BY <1>1, <1>5, <1>6 DEF SendType
<1>8. ASSUME ~disable_reorder'
      PROVE  Window' /\ Ordered'
  <2>1. Window /\ Ordered
    BY <1>1, <1>8 DEF OrderInv, args
  <2>2. PICK m \in Nat, r \in Seq(Nat) : m = reorder.min /\ r = reorder.ready /\ m = reorder'.min /\ r = reorder'.ready
    BY <1>1 DEF Buffers
  <2>3. Ascends(r) /\ Under(r, m) /\ Ascends(pkts) /\ Under(pkts, m) /\ Below(pkts, r)
    BY <2>1, <2>2, <1>1, <1>3 DEF Ordered
  <2>4. ASSUME NEW o \in Ports
        PROVE  /\ Ascends(Line(o)') /\ Under(Line(o)', m) /\ Below(Line(o)', r) /\ Below(Line(o)', Tail(pkts))
               /\ Ascends(Tail(pkts)) /\ Under(Tail(pkts), m) /\ Below(Tail(pkts), r)
    <3>1. PICK l \in Seq(Nat) : l = Line(o)
      BY <1>1, LineType
    <3>2. PICK n \in Seq(Nat) : n = Line(o)'
      BY <1>1, TransmitLine
    <3>3. n = l \/ Prefix(n, Append(l, pkts[1]))
      BY <3>1, <3>2, <1>1, <1>3, TransmitLine
    <3>4. Ascends(l) /\ Under(l, m) /\ Below(l, r) /\ Below(l, pkts)
      BY <3>1, <2>1, <2>2, <1>1, <1>3 DEF Ordered
    <3>5. /\ Ascends(Append(l, pkts[1])) /\ Under(Append(l, pkts[1]), m)
          /\ Below(Append(l, pkts[1]), r) /\ Below(Append(l, pkts[1]), Tail(pkts))
          /\ Below(l, Tail(pkts))
          /\ Ascends(Tail(pkts)) /\ Under(Tail(pkts), m) /\ Below(Tail(pkts), r)
      BY <3>4, <2>3, <1>3, TransmitOrdered
    <3>6. Append(l, pkts[1]) \in Seq(Nat)
      BY <1>4, AppendParts
    <3>7. Ascends(n) /\ Under(n, m) /\ Below(n, r) /\ Below(n, Tail(pkts))
      <4>1. CASE n = l
        BY <4>1, <3>4, <3>5
      <4>2. CASE Prefix(n, Append(l, pkts[1]))
        BY <4>2, <3>5, <3>6, <1>4, PrefixOrdered
      <4> QED
        BY <3>3, <4>1, <4>2
    <3> QED
      BY <3>2, <3>5, <3>7
  <2>5. Window'
    BY <2>1, <1>1, <1>5 DEF Window
  <2>6. \E o \in Ports : TRUE
    BY OrderingAssumption
  <2>7. Ordered'
    BY <2>2, <2>3, <2>4, <2>6, <1>5 DEF Ordered
  <2> QED
    BY <2>5, <2>7
<1> QED
  BY <1>1, <1>2, <1>5, <1>7, <1>8 DEF OrderInv, args

LEMMA LoopStep == OrderInv /\ (SendLoop \/ signal_handler) => OrderInv'
<1>1. ASSUME OrderInv, signal_handler
      PROVE  OrderInv'
  <2>1. Queues' /\ UNCHANGED SendVars
    BY <1>1 DEF OrderInv, signal_handler, Queues, SendVars
  <2> QED
    BY <1>1, <2>1, OrderKept
<1>2. ASSUME OrderInv, SendLoop
      PROVE  OrderInv'
  <2>1. /\ SendType /\ Queues' /\ UNCHANGED <<reorder, tx_buffer, wire, args>> /\ portmask' \subseteq Ports
        /\ send' = [send EXCEPT !.pc = "dequeue"]
    BY <1>2 DEF OrderInv, SendLoop, Queues, args
  <2>2. SendType' /\ send'.pc = "dequeue"
    BY <2>1 DEF SendType
  <2>3. ASSUME ~disable_reorder'
        PROVE  Window' /\ Ordered'
    <3>1. Window /\ Ordered
      BY <1>2, <2>1, <2>3 DEF OrderInv, args
    <3>2. Window'
      BY <3>1, <2>1, <2>2 DEF Window
    <3>3. Ordered'
      BY <3>1, <2>1, <2>2 DEF Ordered, Line
    <3> QED
      BY <3>2, <3>3
  <2> QED
    BY <2>1, <2>2, <2>3 DEF OrderInv
<1> QED
  BY <1>1, <1>2

LEMMA OrderInit == Init => OrderInv
<1> SUFFICES ASSUME Init
             PROVE  OrderInv
  OBVIOUS
<1>1. portmask \subseteq Ports
  BY DEF Init
<1>2. Queues
  <2>1. RING_SIZE \in Nat /\ MaxPkts \in Nat
    BY OrderingAssumption
  <2> QED
    BY <2>1 DEF Init, Queues
<1>3. SendType
  BY DEF Init, SendType, NoBuffer
<1>4. send.pc = "dequeue" /\ reorder.ready = << >> /\ reorder.order = {} /\ reorder.min = 0
  BY DEF Init, NoBuffer
<1>5. Window
  BY <1>4 DEF Window
<1>6. \A o \in Ports : Line(o) = << >>
  BY DEF Init, Line
<1>7. Ordered
  BY <1>4, <1>6 DEF Ordered, Ascends, Under, Below
<1> QED
  BY <1>1, <1>2, <1>3, <1>4, <1>5, <1>7 DEF OrderInv

LEMMA OrderNext == OrderInv /\ [Next]_vars => OrderInv'
<1> SUFFICES ASSUME OrderInv, [Next]_vars
             PROVE  OrderInv'
  OBVIOUS
<1>1. CASE UNCHANGED vars
  <2>1. Queues' /\ UNCHANGED SendVars
    BY <1>1 DEF OrderInv, vars, Queues, SendVars
  <2> QED
    BY <2>1, OrderKept
<1>2. CASE \E w \in Workers : WorkerDequeue(w) \/ WorkerEnqueue(w)
  BY <1>2, WorkerStep
<1> QED
  BY <1>1, <1>2, RxStep, DequeueStep, InsertStep, OverflowStep, InsertMovedStep, DrainStep, TransmitStep,
     LoopStep DEF Next

(* The invariant of send_thread holds: the packets on the wire come before  *)
(* those in the transmit buffers, these before the ones handed out by       *)
(* rte_reorder_drain, and those before what is left in the reorder buffer.  *)
THEOREM OrderingInvariant == Spec => []OrderInv
<1>1. Init => OrderInv
  BY OrderInit
<1>2. OrderInv /\ [Next]_vars => OrderInv'
  BY OrderNext
<1> QED
  BY <1>1, <1>2, PTL DEF Spec

(* However the workers overtake one another, whatever the rings and the     *)
(* driver refuse and wherever the window moves, the packets that            *)
(* send_thread transmits on a port leave it in the order of their arrival.  *)
THEOREM OrderingRestored == Spec => []RestoredOrder
<1>1. ASSUME OrderInv
      PROVE  RestoredOrder
  <2> SUFFICES ASSUME ~disable_reorder, NEW o \in Ports, NEW i \in DOMAIN wire[o], NEW j \in DOMAIN wire[o], i < j
               PROVE  wire[o][i] < wire[o][j]
    BY DEF RestoredOrder
  <2>1. PICK w \in Seq(Nat), t \in Seq(Nat) : w = wire[o] /\ t = tx_buffer[o]
    BY <1>1 DEF OrderInv, SendType
  <2>2. Ascends(w \o t)
    BY <1>1, <2>1 DEF OrderInv, Ordered, Line
  <2>3. i \in 1 .. Len(w) /\ j \in 1 .. Len(w) /\ Len(w) \in Nat /\ Len(t) \in Nat
    BY <2>1, LenProperties
  <2>4. i \in 1 .. Len(w \o t) /\ j \in 1 .. Len(w \o t) /\ (w \o t)[i] = w[i] /\ (w \o t)[j] = w[j]
    BY <2>3, ConcatParts
  <2> QED
    BY <2>1, <2>2, <2>4 DEF Ascends
<1>2. Spec => []OrderInv
  BY OrderingInvariant
<1> QED
  BY <1>1, <1>2, PTL

-----------------------------------------------------------------------------
(* How often a packet is in a sequence.                                     *)

At(s, p) == {i \in DOMAIN s : s[i] = p}

LEMMA InType ==
  ASSUME NEW s \in Seq(Nat), NEW p \in Nat
  PROVE  In(s, p) \in Nat /\ IsFiniteSet(At(s, p)) /\ In(s, p) = Cardinality(At(s, p))
         /\ At(s, p) = {i \in 1 .. Len(s) : s[i] = p}
<1>1. DOMAIN s = 1 .. Len(s) /\ Len(s) \in Nat
  BY LenProperties
<1>2. IsFiniteSet(1 .. Len(s))
  BY <1>1, FS_Interval
<1>3. At(s, p) \subseteq 1 .. Len(s)
  BY <1>1 DEF At
<1>4. IsFiniteSet(At(s, p))
  BY <1>2, <1>3, FS_Subset
<1>5. Cardinality(At(s, p)) \in Nat
  BY <1>4, FS_CardinalityType
<1>6. In(s, p) = Cardinality(At(s, p))
  BY DEF In, At
<1>7. At(s, p) = {i \in 1 .. Len(s) : s[i] = p}
  BY <1>1 DEF At
<1> QED
  BY <1>4, <1>5, <1>6, <1>7

(* A sequence in two parts.                                                 *)
Parts(u, s, t) ==
    /\ Len(u) = Len(s) + Len(t)
    /\ \A i \in 1 .. Len(s) : u[i] = s[i]
    /\ \A i \in 1 .. Len(t) : u[Len(s) + i] = t[i]

LEMMA InParts ==
  ASSUME NEW u \in Seq(Nat), NEW s \in Seq(Nat), NEW t \in Seq(Nat), Parts(u, s, t), NEW p \in Nat
  PROVE  In(u, p) = In(s, p) + In(t, p)
<1> DEFINE S == {i \in 1 .. Len(s) : s[i] = p}
           T == {i \in 1 .. Len(t) : t[i] = p}
           V == {i \in (Len(s) + 1) .. Len(u) : u[i] = p}
           f == [i \in T |-> Len(s) + i]
<1>1. Len(s) \in Nat /\ Len(t) \in Nat /\ Len(u) = Len(s) + Len(t)
  BY LenProperties DEF Parts
<1>2. At(u, p) = S \cup V
  <2>1. At(u, p) = {i \in 1 .. Len(u) : u[i] = p}
    BY InType
  <2>2. 1 .. Len(u) = (1 .. Len(s)) \cup ((Len(s) + 1) .. Len(u))
    BY <1>1
  <2>3. \A i \in 1 .. Len(s) : u[i] = s[i]
    BY DEF Parts
  <2> QED
    BY <2>1, <2>2, <2>3
<1>3. S \cap V = {}
  BY <1>1
<1>4. f \in Injection(T, V)
  <2>1. \A i \in T : Len(s) + i \in V
    BY <1>1 DEF Parts
  <2>2. f \in [T -> V]
    BY <2>1
  <2>3. \A i, j \in T : f[i] = f[j] => i = j
    BY <1>1
  <2> QED
    BY <2>2, <2>3 DEF Injection, IsInjective
<1>5. f \in Surjection(T, V)
  <2>1. ASSUME NEW v \in V
        PROVE  \E i \in T : f[i] = v
    <3>1. v - Len(s) \in 1 .. Len(t) /\ Len(s) + (v - Len(s)) = v
      BY <1>1
    <3>2. t[v - Len(s)] = p
      BY <3>1 DEF Parts
    <3>3. v - Len(s) \in T
      BY <3>1, <3>2
    <3> QED
      BY <3>1, <3>3
  <2>2. f \in [T -> V]
    BY <1>4 DEF Injection
  <2> QED
    BY <2>1, <2>2 DEF Surjection
<1>6. ExistsBijection(T, V)
  <2> HIDE DEF f, T, V
  <2>1. f \in Bijection(T, V)
    BY <1>4, <1>5 DEF Bijection
  <2> QED
    BY <2>1 DEF ExistsBijection
<1>7. /\ IsFiniteSet(S) /\ IsFiniteSet(T) /\ In(s, p) = Cardinality(S) /\ In(t, p) = Cardinality(T)
      /\ In(u, p) = Cardinality(At(u, p))
  <2>1. At(s, p) = S /\ At(t, p) = T
    BY InType
  <2> QED
    BY <2>1, InType
<1> HIDE DEF S, T, V, f
<1>8. IsFiniteSet(V) /\ Cardinality(V) = Cardinality(T)
  BY <1>6, <1>7, FS_Bijection
<1>9. Cardinality(S \cup V) = Cardinality(S) + Cardinality(V) - Cardinality({})
  <2>1. Cardinality(S \cup V) = Cardinality(S) + Cardinality(V) - Cardinality(S \cap V)
    BY <1>7, <1>8, FS_Union
  <2> QED
    BY <2>1, <1>3
<1>10. In(s, p) \in Nat /\ In(t, p) \in Nat /\ Cardinality({}) = 0
  BY InType, FS_EmptySet
<1> QED
  BY <1>2, <1>7, <1>8, <1>9, <1>10

LEMMA InNone == \A p \in Nat : In(<< >>, p) = 0
<1>1. \A p \in Nat : {i \in DOMAIN << >> : << >>[i] = p} = {}
  OBVIOUS
<1> QED
  BY <1>1, FS_EmptySet DEF In

LEMMA InConcat ==
  ASSUME NEW s \in Seq(Nat), NEW t \in Seq(Nat), NEW p \in Nat
  PROVE  In(s \o t, p) = In(s, p) + In(t, p)
<1>1. PICK u \in Seq(Nat) : u = s \o t
  BY ConcatParts
<1>2. Parts(u, s, t)
  BY <1>1, ConcatParts DEF Parts
<1>3. In(u, p) = In(s, p) + In(t, p)
  BY <1>2, InParts
<1> QED
  BY <1>1, <1>3

LEMMA InCut ==
  ASSUME NEW s \in Seq(Nat), NEW n \in 0 .. Len(s), NEW p \in Nat
  PROVE  In(s, p) = In(FirstN(s, n), p) + In(AfterN(s, n), p)
<1>1. /\ FirstN(s, n) \in Seq(Nat) /\ Len(FirstN(s, n)) = n
      /\ \A i \in 1 .. n : FirstN(s, n)[i] = s[i]
  BY FirstNParts
<1>2. /\ AfterN(s, n) \in Seq(Nat) /\ Len(AfterN(s, n)) = Len(s) - n
      /\ \A i \in 1 .. (Len(s) - n) : AfterN(s, n)[i] = s[n + i]
  BY AfterNParts
<1>3. Len(s) \in Nat
  BY LenProperties
<1>4. PICK f \in Seq(Nat), a \in Seq(Nat) : f = FirstN(s, n) /\ a = AfterN(s, n)
  BY <1>1, <1>2
<1>5. Parts(s, f, a)
  <2>1. Len(f) = n /\ Len(a) = Len(s) - n /\ n \in Nat /\ Len(s) = Len(f) + Len(a)
    <3>1. Len(f) = n /\ Len(a) = Len(s) - n
      BY <1>1, <1>2, <1>4, Zenon
    <3>2. n \in Nat /\ n + (Len(s) - n) = Len(s)
      BY <1>3
    <3> QED
      BY <3>1, <3>2
  <2>2. \A i \in 1 .. Len(f) : s[i] = f[i]
    BY <2>1, <1>1, <1>4
  <2>3. \A i \in 1 .. Len(a) : s[Len(f) + i] = a[i]
    BY <2>1, <1>2, <1>4
  <2> QED
    BY <2>1, <2>2, <2>3 DEF Parts
<1>6. In(s, p) = In(f, p) + In(a, p)
  BY <1>5, InParts
<1> QED
  BY <1>4, <1>6

LEMMA InOne ==
  ASSUME NEW x \in Nat, NEW p \in Nat
  PROVE  In(<<x>>, p) = One(x = p)
<1>1. DOMAIN <<x>> = {1} /\ <<x>>[1] = x
  OBVIOUS
<1>2. CASE x = p
  <2>1. {i \in DOMAIN <<x>> : <<x>>[i] = p} = {1}
    BY <1>1, <1>2
  <2> QED
    BY <1>2, <2>1, FS_Singleton DEF In, One
<1>3. CASE x # p
  <2>1. {i \in DOMAIN <<x>> : <<x>>[i] = p} = {}
    BY <1>1, <1>3
  <2> QED
    BY <1>3, <2>1, FS_EmptySet DEF In, One
<1> QED
  BY <1>2, <1>3

LEMMA InTail ==
  ASSUME NEW s \in Seq(Nat), s # << >>, NEW p \in Nat
  PROVE  In(s, p) = One(s[1] = p) + In(Tail(s), p)
<1>1. /\ Tail(s) \in Seq(Nat) /\ Len(Tail(s)) = Len(s) - 1 /\ s[1] \in Nat /\ Len(s) \in Nat \ {0}
      /\ \A i \in 1 .. (Len(s) - 1) : Tail(s)[i] = s[i + 1]
  BY TailParts
<1>2. <<s[1]>> \in Seq(Nat) /\ Len(<<s[1]>>) = 1 /\ <<s[1]>>[1] = s[1]
  BY <1>1
<1>3. PICK f \in Seq(Nat), a \in Seq(Nat) : f = <<s[1]>> /\ a = Tail(s)
  BY <1>1, <1>2
<1>4. Parts(s, f, a)
  BY <1>1, <1>2, <1>3 DEF Parts
<1>5. In(s, p) = In(f, p) + In(a, p)
  BY <1>4, InParts
<1>6. In(f, p) = One(s[1] = p)
  BY <1>1, <1>3, InOne
<1> QED
  BY <1>3, <1>5, <1>6

LEMMA InAppend ==
  ASSUME NEW s \in Seq(Nat), NEW x \in Nat, NEW p \in Nat
  PROVE  In(Append(s, x), p) = In(s, p) + One(x = p)
<1>1. /\ Append(s, x) \in Seq(Nat) /\ Len(Append(s, x)) = Len(s) + 1
      /\ \A i \in 1 .. Len(s) : Append(s, x)[i] = s[i]
      /\ Append(s, x)[Len(s) + 1] = x
  BY AppendParts
<1>2. <<x>> \in Seq(Nat) /\ Len(<<x>>) = 1 /\ <<x>>[1] = x
  OBVIOUS
<1>3. PICK u \in Seq(Nat), f \in Seq(Nat) : u = Append(s, x) /\ f = <<x>>
  BY <1>1, <1>2
<1>4. Parts(u, s, f)
  BY <1>1, <1>2, <1>3 DEF Parts
<1>5. In(u, p) = In(s, p) + In(f, p)
  BY <1>4, InParts
<1>6. In(f, p) = One(x = p)
  BY <1>3, InOne
<1> QED
  BY <1>3, <1>5, <1>6

LEMMA InConsecutive ==
  ASSUME NEW s \in Seq(Nat), NEW n \in Nat, NEW k \in Nat, Consecutive(s, n, k), NEW p \in Nat
  PROVE  In(s, p) = One(p \in n .. (n + k - 1))
<1>1. At(s, p) = {i \in 1 .. k : n + (i - 1) = p} /\ In(s, p) = Cardinality(At(s, p))
  <2>1. At(s, p) = {i \in 1 .. Len(s) : s[i] = p} /\ In(s, p) = Cardinality(At(s, p))
    BY InType
  <2> QED
    BY <2>1 DEF Consecutive
<1>2. CASE p \in n .. (n + k - 1)
  <2>1. At(s, p) = {(p - n) + 1}
    <3>1. (p - n) + 1 \in 1 .. k /\ n + (((p - n) + 1) - 1) = p
      BY <1>2
    <3>2. \A i \in 1 .. k : n + (i - 1) = p => i = (p - n) + 1
      BY <1>2
    <3> QED
      BY <3>1, <3>2, <1>1
  <2> QED
    BY <1>1, <1>2, <2>1, FS_Singleton DEF One
<1>3. CASE p \notin n .. (n + k - 1)
  <2>1. At(s, p) = {}
    BY <1>1, <1>3
  <2> QED
    BY <1>1, <1>3, <2>1, FS_EmptySet DEF One
<1> QED
  BY <1>2, <1>3

(* Two sets that differ at most in w.                                       *)
LEMMA CountsDiffer ==
  ASSUME NEW A, NEW B, NEW w, IsFiniteSet(A), IsFiniteSet(B), A \ {w} = B \ {w}
  PROVE  /\ Cardinality(A) \in Nat /\ Cardinality(B) \in Nat
         /\ Cardinality(A) + One(w \in B) = Cardinality(B) + One(w \in A)
<1>1. Cardinality(A) \in Nat /\ Cardinality(B) \in Nat
  BY FS_CardinalityType
<1>2. Cardinality(A \ {w}) = IF w \in A THEN Cardinality(A) - 1 ELSE Cardinality(A)
  BY FS_RemoveElement
<1>3. Cardinality(B \ {w}) = IF w \in B THEN Cardinality(B) - 1 ELSE Cardinality(B)
  BY FS_RemoveElement
<1> QED
  BY <1>1, <1>2, <1>3 DEF One

(* The run that rte_reorder_drain hands out is in the buffer.               *)
LEMMA RunInOrder ==
  ASSUME NEW b \in Buffers, \A p \in b.order : p \in b.min .. (b.min + REORDER_BUFFER_SIZE - 1),
         NEW r \in Nat, r <= Cardinality(Run(b))
  PROVE  b.min .. (b.min + r - 1) \subseteq b.order
<1> SUFFICES ASSUME NEW x \in b.min .. (b.min + r - 1), x \notin b.order
             PROVE  FALSE
  OBVIOUS
<1>1. PICK m \in Nat : m = b.min
  BY DEF Buffers
<1>2. REORDER_BUFFER_SIZE \in Nat /\ x \in Nat /\ m <= x /\ x < m + r
  BY <1>1, OrderingAssumption
<1>3. \A p \in b.order : p \in Nat /\ m <= p
  BY <1>1, <1>2
<1>4. Run(b) \subseteq m .. (x - 1)
  <2> SUFFICES ASSUME NEW p \in Run(b)
               PROVE  p \in m .. (x - 1)
    OBVIOUS
  <2>1. p \in b.order /\ m .. p \subseteq b.order
    BY <1>1 DEF Run
  <2>2. x \notin m .. p
    BY <2>1
  <2> QED
    BY <2>1, <2>2, <1>2, <1>3
<1>5. IsFiniteSet(m .. (x - 1)) /\ Cardinality(m .. (x - 1)) = x - m
  <2>1. PICK y \in Int : y = x - 1
    BY <1>2
  <2>2. m \in Int
    OBVIOUS
  <2>3. IsFiniteSet(m .. y) /\ Cardinality(m .. y) = IF m > y THEN 0 ELSE y - m + 1
    BY <2>2, FS_Interval
  <2> QED
    BY <2>1, <2>3, <1>2
<1>6. Cardinality(Run(b)) <= x - m
  BY <1>4, <1>5, FS_Subset
<1>7. Cardinality(Run(b)) \in Nat
  BY RunCounts DEF Buffers
<1> QED
  BY <1>2, <1>6, <1>7

-----------------------------------------------------------------------------
(* Every packet is in one place.                                            *)

HeldBy(p) == {w \in Workers : In(burst[w], p) > 0}
SentBy(p) == {o \in Ports : In(tx_buffer[o], p) + In(wire[o], p) > 0}
Held(p) == Cardinality(HeldBy(p))
Sent(p) == Cardinality(SentBy(p))
Waits(p) == One(p \in reorder.order) + In(reorder.ready, p)
Gone(p) == One(p \in astray) + freed[p]
Received(p) == One(p < seqn)

(* Never twice where the count of the places cannot tell.                   *)
Single(p) ==
    /\ \A w \in Workers : In(burst[w], p) <= 1
    /\ \A o \in Ports : In(tx_buffer[o], p) + In(wire[o], p) <= 1

(* As often as rx_thread has received it.                                   *)
Placed(p) ==
    /\ In(recv, p) + In(rx_to_workers, p) + In(workers_to_tx, p) + In(send.pkts, p)
       + Held(p) + Waits(p) + Sent(p) + Gone(p) = Received(p)
    /\ Single(p)

AccountInv ==
    /\ OrderInv /\ freed \in [Pkts -> Nat]
    /\ send.pc = "dequeue" => send.pkts = << >>
    /\ \A p \in Pkts : Placed(p)

LEMMA PktsNat == Pkts \subseteq Nat
  BY OrderingAssumption DEF Pkts

LEMMA MemberCounts ==
  ASSUME NEW A, NEW w, IsFiniteSet(A)
  PROVE  Cardinality(A) \in Nat /\ One(w \in A) <= Cardinality(A)
<1>1. Cardinality(A) \in Nat /\ (Cardinality(A) = 0 <=> A = {})
  BY FS_CardinalityType, FS_EmptySet
<1> QED
  BY <1>1 DEF One

LEMMA HolderSets ==
  ASSUME NEW p
  PROVE  IsFiniteSet(HeldBy(p)) /\ IsFiniteSet(SentBy(p)) /\ Held(p) \in Nat /\ Sent(p) \in Nat
<1>1. IsFiniteSet(Workers) /\ HeldBy(p) \subseteq Workers
  BY OrderingAssumption DEF HeldBy
<1>2. IsFiniteSet(Ports) /\ SentBy(p) \subseteq Ports
  <2>1. IsFiniteSet({0}) /\ IsFiniteSet({0} \cup {1})
    BY FS_Singleton, FS_AddElement
  <2>2. {0, 1} = {0} \cup {1}
    OBVIOUS
  <2> QED
    BY <2>1, <2>2, OrderingAssumption DEF SentBy
<1>3. IsFiniteSet(HeldBy(p)) /\ IsFiniteSet(SentBy(p))
  BY <1>1, <1>2, FS_Subset
<1> QED
  BY <1>3, FS_CardinalityType DEF Held, Sent

LEMMA TermTypes ==
  ASSUME OrderInv, freed \in [Pkts -> Nat], NEW p \in Pkts
  PROVE  /\ In(recv, p) \in Nat /\ In(rx_to_workers, p) \in Nat /\ In(workers_to_tx, p) \in Nat
         /\ In(send.pkts, p) \in Nat /\ Held(p) \in Nat /\ Sent(p) \in Nat /\ Waits(p) \in Nat
         /\ Gone(p) \in Nat /\ In(reorder.ready, p) \in Nat /\ freed[p] \in Nat
<1>1. p \in Nat
  BY PktsNat
<1>2. /\ recv \in Seq(Nat) /\ rx_to_workers \in Seq(Nat) /\ workers_to_tx \in Seq(Nat)
      /\ send.pkts \in Seq(Nat) /\ reorder.ready \in Seq(Nat)
  BY DEF OrderInv, Queues, SendType
<1>3. /\ In(recv, p) \in Nat /\ In(rx_to_workers, p) \in Nat /\ In(workers_to_tx, p) \in Nat
      /\ In(send.pkts, p) \in Nat /\ In(reorder.ready, p) \in Nat
  BY <1>1, <1>2, InType
<1>4. freed[p] \in Nat
  OBVIOUS
<1> QED
  BY <1>3, <1>4, HolderSets DEF Waits, Gone, One

(* Freeing a burst counts each of its packets.                              *)
LEMMA DropCounts ==
  ASSUME NEW ps, freed \in [Pkts -> Nat], Drop(ps), NEW p \in Pkts
  PROVE  freed'[p] = freed[p] + In(ps, p)
  BY DEF Drop, In

LEMMA DropType ==
  ASSUME NEW ps \in Seq(Nat), freed \in [Pkts -> Nat], Drop(ps)
  PROVE  freed' \in [Pkts -> Nat]
<1>1. \A p \in Pkts : In(ps, p) \in Nat
  BY InType, PktsNat
<1> QED
  BY <1>1 DEF Drop, In

(* The terms of the count before a step, and after it.                      *)
Counts(p, a, b, c, d, e, f, g, h) ==
    /\ In(recv, p) = a /\ In(rx_to_workers, p) = b /\ In(workers_to_tx, p) = c /\ In(send.pkts, p) = d
    /\ Held(p) = e /\ Waits(p) = f /\ Sent(p) = g /\ Gone(p) = h

LEMMA CountBefore ==
  ASSUME AccountInv, NEW p \in Pkts
  PROVE  \E a, b, c, d, e, f, g, h \in Nat :
           /\ Counts(p, a, b, c, d, e, f, g, h)
           /\ a + b + c + d + e + f + g + h = Received(p)
<1>1. /\ In(recv, p) \in Nat /\ In(rx_to_workers, p) \in Nat /\ In(workers_to_tx, p) \in Nat
      /\ In(send.pkts, p) \in Nat /\ Held(p) \in Nat /\ Sent(p) \in Nat /\ Waits(p) \in Nat
      /\ Gone(p) \in Nat
  BY TermTypes DEF AccountInv
<1>2. In(recv, p) + In(rx_to_workers, p) + In(workers_to_tx, p) + In(send.pkts, p)
       + Held(p) + Waits(p) + Sent(p) + Gone(p) = Received(p)
  BY DEF AccountInv, Placed
<1> QED
  BY <1>1, <1>2, Zenon DEF Counts

LEMMA CountAfter ==
  ASSUME NEW p \in Pkts, NEW a, NEW b, NEW c, NEW d, NEW e, NEW f, NEW g, NEW h,
         Counts(p, a, b, c, d, e, f, g, h)', a + b + c + d + e + f + g + h = Received(p)', Single(p)'
  PROVE  Placed(p)'
  BY Zenon DEF Placed, Counts

LEMMA ReceivedType == \A p : Received(p) \in {0, 1}
  BY DEF Received, One

LEMMA RxPlaced ==
  ASSUME AccountInv, RxBurst, NEW p \in Pkts
  PROVE  Placed(p)'
<1>1. PICK a, b, c, d, e, f, g, h \in Nat :
        /\ Counts(p, a, b, c, d, e, f, g, h)
        /\ a + b + c + d + e + f + g + h = Received(p)
  BY CountBefore
<1>2. MaxPkts \in Nat /\ MAX_PKTS_BURST \in Nat \ {0} /\ p \in Nat
  BY OrderingAssumption, PktsNat
<1>3. PICK n \in Nat : n = seqn /\ n <= MaxPkts
  BY <1>2 DEF AccountInv, OrderInv, Queues
<1>4. PICK nb \in 1 .. Min({MAX_PKTS_BURST, MaxPkts - seqn}) :
        recv' = [i \in 1 .. nb |-> seqn + i - 1] /\ seqn' = seqn + nb
  BY DEF RxBurst
<1>5. nb \in Nat
  <2>1. Min({MAX_PKTS_BURST, MaxPkts - seqn}) \in Int
    BY <1>2, <1>3, MinOfTwo
  <2> QED
    BY <2>1
<1>6. PICK s \in Seq(Nat) : s = recv' /\ Consecutive(s, n, nb)
  <2>1. \A i \in 1 .. nb : n + i - 1 \in Nat /\ n + i - 1 = n + (i - 1)
    BY <1>3, <1>5
  <2>2. recv' \in Seq(Nat) /\ Len(recv') = nb /\ \A i \in 1 .. nb : recv'[i] = n + (i - 1)
    BY <2>1, <1>3, <1>4, <1>5
  <2> QED
    BY <2>2 DEF Consecutive
<1>7. PICK k \in {0, 1} : k = One(p \in n .. (n + nb - 1)) /\ In(recv', p) = k
  <2>1. In(s, p) = One(p \in n .. (n + nb - 1))
    BY <1>2, <1>5, <1>6, InConsecutive
  <2> QED
    BY <2>1, <1>6 DEF One
<1>8. Received(p)' = Received(p) + k
  BY <1>2, <1>3, <1>4, <1>5, <1>7 DEF One, Received
<1>9. a = 0
  BY <1>1, <1>2, InNone DEF RxBurst, Polls, Counts
<1>10. Counts(p, k, b, c, d, e, f, g, h)' /\ UNCHANGED <<burst, tx_buffer, wire>>
  BY <1>1, <1>7 DEF RxBurst, Held, HeldBy, Sent, SentBy, Waits, Gone, Counts
<1>11. k + b + c + d + e + f + g + h = Received(p)'
  <2>1. PICK r \in {0, 1} : r = Received(p)
    BY ReceivedType
  <2>2. k + b + c + d + e + f + g + h = r + k
    BY <2>1, <1>1, <1>9
  <2> QED
    BY <2>1, <2>2, <1>8
<1>12. Single(p)'
  BY <1>10 DEF AccountInv, Placed, Single
<1> QED
  BY <1>10, <1>11, <1>12, CountAfter

(* A step that receives nothing moves packets from place to place.          *)
LEMMA CountKept ==
  ASSUME NEW p \in Pkts, UNCHANGED seqn, Single(p)', NEW k, k = Received(p),
         NEW a, NEW b, NEW c, NEW d, NEW e, NEW f, NEW g, NEW h,
         Counts(p, a, b, c, d, e, f, g, h)', a + b + c + d + e + f + g + h = k
  PROVE  Placed(p)'
<1>1. Received(p)' = Received(p)
  BY DEF Received
<1> QED
  BY <1>1, CountAfter

LEMMA GoneDrop ==
  ASSUME freed \in [Pkts -> Nat], UNCHANGED astray, NEW ps, Drop(ps), NEW p \in Pkts, NEW y \in Nat, In(ps, p) = y
  PROVE  Gone(p)' = Gone(p) + y
<1>1. freed'[p] = freed[p] + y /\ freed[p] \in Nat
  BY DropCounts
<1> QED
  BY <1>1 DEF Gone, One

(* One worker's burst changes.                                              *)
LEMMA HeldChanges ==
  ASSUME NEW p \in Pkts, NEW w \in Workers, burst \in [Workers -> Seq(Nat)], NEW s,
         burst' = [burst EXCEPT ![w] = s], NEW z \in {0, 1}, NEW y \in {0, 1},
         In(burst[w], p) = z, In(s, p) = y
  PROVE  Held(p)' \in Nat /\ Held(p)' + z = Held(p) + y
<1>1. burst'[w] = s /\ \A x \in Workers : x # w => burst'[x] = burst[x]
  OBVIOUS
<1> DEFINE A == HeldBy(p)  B == {x \in Workers : In(burst'[x], p) > 0}
<1>2. IsFiniteSet(A) /\ IsFiniteSet(B)
  <2>1. IsFiniteSet(Workers) /\ B \subseteq Workers
    BY OrderingAssumption
  <2> QED
    BY <2>1, HolderSets, FS_Subset
<1>3. A \ {w} = B \ {w}
  BY <1>1 DEF HeldBy
<1>4. One(w \in A) = z /\ One(w \in B) = y
  BY <1>1 DEF HeldBy, One
<1>5. Held(p) = Cardinality(A) /\ Held(p)' = Cardinality(B)
  BY DEF Held, HeldBy
<1> HIDE DEF A, B
<1>6. /\ Cardinality(A) \in Nat /\ Cardinality(B) \in Nat
      /\ Cardinality(A) + One(w \in B) = Cardinality(B) + One(w \in A)
  BY <1>2, <1>3, CountsDiffer
<1> QED
  BY <1>4, <1>5, <1>6

LEMMA RxEnqueuePlaced ==
  ASSUME AccountInv, RxEnqueue, NEW p \in Pkts
  PROVE  Placed(p)'
<1>1. PICK a, b, c, d, e, f, g, h \in Nat :
        /\ Counts(p, a, b, c, d, e, f, g, h)
        /\ a + b + c + d + e + f + g + h = Received(p)
  BY CountBefore
<1>2. p \in Nat
  BY PktsNat
<1>3. PICK s \in Seq(Nat), ring \in Seq(Nat) : s = recv /\ ring = rx_to_workers /\ Len(ring) <= RING_SIZE
  BY DEF AccountInv, OrderInv, Queues
<1>4. PICK ret \in 0 .. Len(s) : ret = Room(ring, Len(s))
  BY <1>3, RoomFits, LenProperties
<1>5. PICK first \in Seq(Nat), rest \in Seq(Nat) : first = FirstN(s, ret) /\ rest = AfterN(s, ret)
  BY FirstNParts, AfterNParts
<1>6. PICK x \in Nat, y \in Nat : x = In(first, p) /\ y = In(rest, p)
  BY <1>2, InType
<1>7. a = x + y
  <2>1. a = In(s, p)
    BY <1>1, <1>3 DEF Counts
  <2>2. In(s, p) = x + y
    BY <1>2, <1>4, <1>5, <1>6, InCut
  <2> QED
    BY <2>1, <2>2
<1>8. rx_to_workers' = ring \o first /\ Drop(rest) /\ recv' = << >>
  BY <1>3, <1>4, <1>5 DEF RxEnqueue
<1>9. In(rx_to_workers', p) = b + x
  <2>1. In(ring, p) = b
    BY <1>1, <1>3 DEF Counts
  <2>2. In(ring \o first, p) = In(ring, p) + In(first, p)
    BY <1>2, InConcat
  <2> QED
    BY <2>1, <2>2, <1>6, <1>8
<1>10. Gone(p)' = h + y
  BY <1>1, <1>6, <1>8, GoneDrop DEF Counts, AccountInv, RxEnqueue
<1>11. In(recv', p) = 0
  BY <1>2, <1>8, InNone
<1>12. UNCHANGED <<workers_to_tx, send, burst, reorder, tx_buffer, wire, seqn>>
  BY DEF RxEnqueue
<1>13. Counts(p, 0, b + x, c, d, e, f, g, h + y)'
  BY <1>1, <1>9, <1>10, <1>11, <1>12 DEF Counts, Held, HeldBy, Sent, SentBy, Waits
<1>14. 0 + (b + x) + c + d + e + f + g + (h + y) = Received(p)
  <2>1. PICK r \in {0, 1} : r = Received(p)
    BY ReceivedType
  <2> QED
    BY <2>1, <1>1, <1>7
<1>15. Single(p)'
  BY <1>12 DEF AccountInv, Placed, Single
<1> QED
  BY <1>12, <1>13, <1>14, <1>15, CountKept

LEMMA WorkerDequeuePlaced ==
  ASSUME AccountInv, NEW w \in Workers, WorkerDequeue(w), NEW p \in Pkts
  PROVE  Placed(p)'
<1>1. PICK a, b, c, d, e, f, g, h \in Nat :
        /\ Counts(p, a, b, c, d, e, f, g, h)
        /\ a + b + c + d + e + f + g + h = Received(p)
  BY CountBefore
<1>2. p \in Nat
  BY PktsNat
<1>3. PICK ring \in Seq(Nat) : ring = rx_to_workers
  BY DEF AccountInv, OrderInv, Queues
<1>4. PICK n \in 0 .. Len(ring) : n = Burst(ring)
  BY BurstFits
<1>5. PICK first \in Seq(Nat), rest \in Seq(Nat) : first = FirstN(ring, n) /\ rest = AfterN(ring, n)
  BY FirstNParts, AfterNParts
<1>6. PICK x \in Nat, y \in Nat : x = In(first, p) /\ y = In(rest, p)
  BY <1>2, InType
<1>7. b = x + y
  <2>1. b = In(ring, p)
    BY <1>1, <1>3 DEF Counts
  <2>2. In(ring, p) = x + y
    BY <1>2, <1>4, <1>5, <1>6, InCut
  <2> QED
    BY <2>1, <2>2
<1>8. PICK r \in {0, 1} : r = Received(p)
  BY ReceivedType
<1>9. x \in {0, 1}
  BY <1>1, <1>7, <1>8
<1>10. /\ rx_to_workers' = rest /\ burst' = [burst EXCEPT ![w] = first] /\ burst[w] = << >>
       /\ UNCHANGED <<recv, workers_to_tx, send, reorder, tx_buffer, wire, seqn, astray, freed>>
  BY <1>3, <1>4, <1>5 DEF WorkerDequeue
<1>11. burst \in [Workers -> Seq(Nat)]
  BY DEF AccountInv, OrderInv, Queues
<1>12. Held(p)' = e + x
  <2>1. In(burst[w], p) = 0
    BY <1>2, <1>10, InNone
  <2>2. Held(p)' \in Nat /\ Held(p)' + 0 = Held(p) + x
    BY <2>1, <1>6, <1>9, <1>10, <1>11, HeldChanges
  <2> QED
    BY <2>2, <1>1 DEF Counts
<1>13. Counts(p, a, y, c, d, e + x, f, g, h)'
  BY <1>1, <1>6, <1>10, <1>12 DEF Counts, Sent, SentBy, Waits, Gone
<1>14. a + y + c + d + (e + x) + f + g + h = Received(p)
  BY <1>1, <1>7, <1>8
<1>15. Single(p)'
  <2>1. \A v \in Workers : In(burst'[v], p) <= 1
    BY <1>6, <1>9, <1>10, <1>11 DEF AccountInv, Placed, Single
  <2> QED
    BY <2>1, <1>10 DEF AccountInv, Placed, Single
<1> QED
  BY <1>10, <1>13, <1>14, <1>15, CountKept

LEMMA WorkerEnqueuePlaced ==
  ASSUME AccountInv, NEW w \in Workers, WorkerEnqueue(w), NEW p \in Pkts
  PROVE  Placed(p)'
<1>1. PICK a, b, c, d, e, f, g, h \in Nat :
        /\ Counts(p, a, b, c, d, e, f, g, h)
        /\ a + b + c + d + e + f + g + h = Received(p)
  BY CountBefore
<1>2. p \in Nat /\ burst \in [Workers -> Seq(Nat)]
  BY PktsNat DEF AccountInv, OrderInv, Queues
<1>3. PICK s \in Seq(Nat), ring \in Seq(Nat) : s = burst[w] /\ ring = workers_to_tx /\ Len(ring) <= RING_SIZE
  BY DEF AccountInv, OrderInv, Queues
<1>4. PICK ret \in 0 .. Len(s) : ret = Room(ring, Len(s))
  BY <1>3, RoomFits, LenProperties
<1>5. PICK first \in Seq(Nat), rest \in Seq(Nat) : first = FirstN(s, ret) /\ rest = AfterN(s, ret)
  BY FirstNParts, AfterNParts
<1>6. PICK x \in Nat, y \in Nat : x = In(first, p) /\ y = In(rest, p)
  BY <1>2, InType
<1>7. In(s, p) = x + y /\ x + y \in {0, 1}
  <2>1. In(s, p) = x + y
    BY <1>2, <1>5, <1>6, InCut
  <2>2. In(s, p) <= 1
    BY <1>3 DEF AccountInv, Placed, Single
  <2> QED
    BY <2>1, <2>2
<1>8. PICK r \in {0, 1} : r = Received(p)
  BY ReceivedType
<1>9. /\ workers_to_tx' = ring \o first /\ Drop(rest) /\ burst' = [burst EXCEPT ![w] = << >>]
      /\ UNCHANGED <<recv, rx_to_workers, send, reorder, tx_buffer, wire, seqn, astray>>
  BY <1>3, <1>4, <1>5 DEF WorkerEnqueue
<1>10. In(workers_to_tx', p) = c + x
  <2>1. In(ring, p) = c
    BY <1>1, <1>3 DEF Counts
  <2>2. In(ring \o first, p) = In(ring, p) + In(first, p)
    BY <1>2, InConcat
  <2> QED
    BY <2>1, <2>2, <1>6, <1>9
<1>11. Gone(p)' = h + y
  BY <1>1, <1>6, <1>9, GoneDrop DEF Counts, AccountInv
<1>12. PICK e1 \in Nat : e1 = Held(p)' /\ e1 + (x + y) = e
  <2>1. PICK z \in {0, 1} : z = x + y /\ In(burst[w], p) = z
    BY <1>3, <1>7
  <2>2. In(<< >>, p) = 0 /\ 0 \in {0, 1}
    BY <1>2, InNone
  <2>3. Held(p)' \in Nat /\ Held(p)' + z = Held(p) + 0
    BY <2>1, <2>2, <1>2, <1>9, HeldChanges
  <2> QED
    BY <2>1, <2>3, <1>1 DEF Counts
<1>13. Counts(p, a, b, c + x, d, e1, f, g, h + y)'
  BY <1>1, <1>9, <1>10, <1>11, <1>12 DEF Counts, Sent, SentBy, Waits
<1>14. a + b + (c + x) + d + e1 + f + g + (h + y) = Received(p)
  <2>1. a + b + c + d + e + f + g + h = r /\ e1 + (x + y) = e
    BY <1>1, <1>8, <1>12
  <2>2. a + b + (c + x) + d + e1 + f + g + (h + y) = r
    BY <2>1
  <2> QED
    BY <2>2, <1>8
<1>15. Single(p)'
  <2>1. \A v \in Workers : In(burst'[v], p) <= 1
    BY <1>2, <1>9, InNone DEF AccountInv, Placed, Single
  <2> QED
    BY <2>1, <1>9 DEF AccountInv, Placed, Single
<1> QED
  BY <1>9, <1>13, <1>14, <1>15, CountKept

LEMMA SendDequeuePlaced ==
  ASSUME AccountInv, SendDequeue, NEW p \in Pkts
  PROVE  Placed(p)'
<1>1. PICK a, b, c, d, e, f, g, h \in Nat :
        /\ Counts(p, a, b, c, d, e, f, g, h)
        /\ a + b + c + d + e + f + g + h = Received(p)
  BY CountBefore
<1>2. p \in Nat
  BY PktsNat
<1>3. PICK ring \in Seq(Nat) : ring = workers_to_tx
  BY DEF AccountInv, OrderInv, Queues
<1>4. PICK n \in 0 .. Len(ring) : n = Burst(ring)
  BY BurstFits
<1>5. PICK first \in Seq(Nat), rest \in Seq(Nat) : first = FirstN(ring, n) /\ rest = AfterN(ring, n)
  BY FirstNParts, AfterNParts
<1>6. PICK x \in Nat, y \in Nat : x = In(first, p) /\ y = In(rest, p)
  BY <1>2, InType
<1>7. c = x + y
  <2>1. c = In(ring, p)
    BY <1>1, <1>3 DEF Counts
  <2>2. In(ring, p) = x + y
    BY <1>2, <1>4, <1>5, <1>6, InCut
  <2> QED
    BY <2>1, <2>2
<1>8. PICK r \in {0, 1} : r = Received(p)
  BY ReceivedType
<1>9. /\ workers_to_tx' = rest /\ send'.pkts = first /\ send.pc = "dequeue"
      /\ UNCHANGED <<recv, rx_to_workers, burst, reorder, tx_buffer, wire, seqn, astray, freed>>
  BY <1>3, <1>4, <1>5 DEF SendDequeue
<1>10. d = 0
  BY <1>1, <1>2, <1>9, InNone DEF AccountInv, Counts
<1>11. Counts(p, a, b, y, x, e, f, g, h)'
  BY <1>1, <1>6, <1>9 DEF Counts, Held, HeldBy, Sent, SentBy, Waits, Gone
<1>12. a + b + y + x + e + f + g + h = Received(p)
  BY <1>1, <1>7, <1>8, <1>10
<1>13. Single(p)'
  BY <1>9 DEF AccountInv, Placed, Single
<1> QED
  BY <1>9, <1>11, <1>12, <1>13, CountKept

(* The next packet leaves the burst of send_thread for one other place.     *)
LEMMA NextLeaves ==
  ASSUME NEW s \in Seq(Nat), s # << >>, NEW p \in Nat
  PROVE  \E k \in {0, 1}, d \in Nat :
           k = One(s[1] = p) /\ d = In(Tail(s), p) /\ In(s, p) = k + d /\ (k = 1 <=> s[1] = p)
<1>1. In(s, p) = One(s[1] = p) + In(Tail(s), p)
  BY InTail
<1>2. Tail(s) \in Seq(Nat)
  BY TailParts
<1>3. In(Tail(s), p) \in Nat
  BY <1>2, InType
<1>4. One(s[1] = p) \in {0, 1} /\ (One(s[1] = p) = 1 <=> s[1] = p)
  BY DEF One
<1> QED
  BY <1>1, <1>3, <1>4, Zenon

(* It is put into the reorder buffer, which did not hold it.                *)
LEMMA WaitsPut ==
  ASSUME reorder \in Buffers, NEW b \in Buffers, b.order = reorder.order, b.ready = reorder.ready,
         NEW q \in Nat, reorder' = Put(b, q), NEW p \in Nat, NEW k \in {0, 1}, k = 1 <=> q = p, k = 1 => Waits(p) = 0
  PROVE  Waits(p)' = Waits(p) + k
<1>1. reorder'.order = reorder.order \cup {q} /\ reorder'.ready = reorder.ready
  BY PutBuffer
<1>2. PICK y \in Nat : y = In(reorder.ready, p)
  BY InType DEF Buffers
<1>3. Waits(p) = One(p \in reorder.order) + y /\ Waits(p)' = One(p \in reorder'.order) + y
  BY <1>1, <1>2 DEF Waits
<1>4. CASE k = 1
  <2>1. p \notin reorder.order /\ p \in reorder'.order
    BY <1>1, <1>2, <1>3, <1>4 DEF One
  <2> QED
    BY <1>2, <1>3, <1>4, <2>1 DEF One
<1>5. CASE k = 0
  <2>1. p \in reorder'.order <=> p \in reorder.order
    BY <1>1, <1>5
  <2> QED
    BY <1>2, <1>3, <1>5, <2>1 DEF One
<1> QED
  BY <1>4, <1>5

LEMMA GoneDirect ==
  ASSUME freed \in [Pkts -> Nat], NEW q \in Nat, DirectTransmit(q), NEW p \in Pkts, NEW k \in {0, 1},
         k = One(q = p), k = 1 <=> q = p, k = 1 => Gone(p) = 0
  PROVE  Gone(p)' = Gone(p) + k
<1>1. p \in Nat /\ freed[p] \in Nat
  BY PktsNat
<1>2. CASE Drop(<<q>>) /\ UNCHANGED astray
  <2>1. In(<<q>>, p) = k
    BY <1>1, InOne
  <2> QED
    BY <1>2, <2>1, GoneDrop
<1>3. CASE astray' = astray \cup {q} /\ UNCHANGED freed
  <2>1. CASE k = 1
    <3>1. p \notin astray /\ p \in astray'
      BY <1>1, <1>3, <2>1 DEF Gone, One
    <3> QED
      BY <1>1, <1>3, <2>1, <3>1 DEF Gone, One
  <2>2. CASE k = 0
    <3>1. p \in astray' <=> p \in astray
      BY <1>3, <2>2
    <3> QED
      BY <1>1, <1>3, <2>2, <3>1 DEF Gone, One
  <2> QED
    BY <2>1, <2>2
<1> QED
  BY <1>2, <1>3 DEF DirectTransmit

LEMMA InsertPlaced ==
  ASSUME AccountInv, Insert, NEW p \in Pkts
  PROVE  Placed(p)'
<1>1. PICK a, b, c, d, e, f, g, h \in Nat :
        /\ Counts(p, a, b, c, d, e, f, g, h)
        /\ a + b + c + d + e + f + g + h = Received(p)
  BY CountBefore
<1>2. p \in Nat /\ reorder \in Buffers
  BY PktsNat DEF AccountInv, OrderInv, SendType, Buffers
<1>3. PICK s \in Seq(Nat) : s = send.pkts /\ s # << >>
  BY DEF AccountInv, OrderInv, SendType, Insert
<1>4. PICK k \in {0, 1}, d1 \in Nat :
        k = One(s[1] = p) /\ d1 = In(Tail(s), p) /\ In(s, p) = k + d1 /\ (k = 1 <=> s[1] = p)
  BY <1>2, <1>3, NextLeaves
<1>5. d = k + d1
  BY <1>1, <1>3, <1>4 DEF Counts
<1>6. PICK r \in {0, 1} : r = Received(p)
  BY ReceivedType
<1>7. k = 1 => f = 0 /\ h = 0
  BY <1>1, <1>5, <1>6
<1>8. PICK q \in Nat : q = s[1]
  BY <1>3, TailParts
<1>9. PICK t \in Buffers : t = Started(reorder, q)
  BY <1>2, StartedBuffer
<1>10. t.order = reorder.order /\ t.ready = reorder.ready
  BY <1>2, <1>9, StartedBuffer
<1>11. UNCHANGED <<recv, rx_to_workers, workers_to_tx, burst, tx_buffer, wire, seqn>>
  BY DEF Insert
<1>12. Single(p)'
  BY <1>11 DEF AccountInv, Placed, Single
<1>13. Held(p)' = e /\ Sent(p)' = g
  BY <1>1, <1>11 DEF Counts, Held, HeldBy, Sent, SentBy
<1>14. send \in [pc : {"dequeue", "insert", "overflow", "transmit"}, pkts : Seq(Nat)]
  BY DEF AccountInv, OrderInv, SendType
<1>15. CASE /\ reorder' = Put(t, q) /\ send' = [send EXCEPT !.pkts = Tail(@)]
            /\ UNCHANGED <<astray, freed>>
  <2>1. send'.pkts = Tail(s)
    BY <1>3, <1>14, <1>15
  <2>2. Waits(p)' = f + k
    BY <1>1, <1>2, <1>4, <1>7, <1>8, <1>10, <1>15, WaitsPut DEF Counts
  <2>3. Counts(p, a, b, c, d1, e, f + k, g, h)'
    BY <2>1, <2>2, <1>1, <1>4, <1>11, <1>13, <1>15 DEF Counts, Gone
  <2>4. a + b + c + d1 + e + (f + k) + g + h = Received(p)
    BY <1>1, <1>5, <1>6
  <2> QED
    BY <2>3, <2>4, <1>11, <1>12, CountKept
<1>16. CASE /\ reorder' = t /\ send' = [send EXCEPT !.pkts = Tail(@)] /\ DirectTransmit(q)
  <2>1. send'.pkts = Tail(s)
    BY <1>3, <1>14, <1>16
  <2>2. Gone(p)' = h + k
    BY <1>1, <1>4, <1>7, <1>8, <1>16, GoneDirect DEF Counts, AccountInv
  <2>3. Waits(p)' = f
    BY <1>1, <1>10, <1>16 DEF Counts, Waits
  <2>4. Counts(p, a, b, c, d1, e, f, g, h + k)'
    BY <2>1, <2>2, <2>3, <1>1, <1>4, <1>11, <1>13 DEF Counts
  <2>5. a + b + c + d1 + e + f + g + (h + k) = Received(p)
    BY <1>1, <1>5, <1>6
  <2> QED
    BY <2>4, <2>5, <1>11, <1>12, CountKept
<1>17. CASE /\ reorder' = t /\ send' = [send EXCEPT !.pc = "overflow"] /\ UNCHANGED <<astray, freed>>
  <2>1. send'.pkts = send.pkts
    BY <1>14, <1>17
  <2>2. Counts(p, a, b, c, d, e, f, g, h)'
    BY <2>1, <1>1, <1>10, <1>11, <1>13, <1>17 DEF Counts, Waits, Gone
  <2> QED
    BY <2>2, <1>1, <1>11, <1>12, CountKept
<1> QED
  BY <1>3, <1>8, <1>9, <1>15, <1>16, <1>17 DEF Insert

LEMMA InsertMovedPlaced ==
  ASSUME AccountInv, InsertMoved, NEW p \in Pkts
  PROVE  Placed(p)'
<1>1. PICK a, b, c, d, e, f, g, h \in Nat :
        /\ Counts(p, a, b, c, d, e, f, g, h)
        /\ a + b + c + d + e + f + g + h = Received(p)
  BY CountBefore
<1>2. p \in Nat /\ reorder \in Buffers
  BY PktsNat DEF AccountInv, OrderInv, SendType, Buffers
<1>3. PICK s \in Seq(Nat) : s = send.pkts /\ s # << >>
  BY DEF AccountInv, OrderInv, SendType, InsertMoved, Window
<1>4. PICK k \in {0, 1}, d1 \in Nat :
        k = One(s[1] = p) /\ d1 = In(Tail(s), p) /\ In(s, p) = k + d1 /\ (k = 1 <=> s[1] = p)
  BY <1>2, <1>3, NextLeaves
<1>5. d = k + d1
  BY <1>1, <1>3, <1>4 DEF Counts
<1>6. PICK r \in {0, 1} : r = Received(p)
  BY ReceivedType
<1>7. k = 1 => f = 0
  BY <1>1, <1>5, <1>6
<1>8. PICK q \in Nat : q = s[1]
  BY <1>3, TailParts
<1>9. UNCHANGED <<recv, rx_to_workers, workers_to_tx, burst, tx_buffer, wire, seqn, astray>> /\ send'.pkts = Tail(s)
  BY <1>3 DEF InsertMoved
<1>10. Single(p)'
  BY <1>9 DEF AccountInv, Placed, Single
<1>11. Held(p)' = e /\ Sent(p)' = g
  BY <1>1, <1>9 DEF Counts, Held, HeldBy, Sent, SentBy
<1>12. CASE Drop(<<q>>) /\ UNCHANGED reorder
  <2>1. In(<<q>>, p) = k /\ k \in Nat
    BY <1>2, <1>4, <1>8, InOne
  <2>2. Gone(p)' = h + k
    BY <2>1, <1>1, <1>9, <1>12, GoneDrop DEF Counts, AccountInv
  <2>3. Counts(p, a, b, c, d1, e, f, g, h + k)'
    BY <2>2, <1>1, <1>4, <1>9, <1>11, <1>12 DEF Counts, Waits
  <2>4. a + b + c + d1 + e + f + g + (h + k) = Received(p)
    BY <1>1, <1>5, <1>6
  <2> QED
    BY <2>3, <2>4, <1>9, <1>10, CountKept
<1>13. CASE reorder' = Put(reorder, q) /\ UNCHANGED freed
  <2>1. Waits(p)' = f + k
    BY <1>1, <1>2, <1>4, <1>7, <1>8, <1>13, WaitsPut DEF Counts
  <2>2. Counts(p, a, b, c, d1, e, f + k, g, h)'
    BY <2>1, <1>1, <1>4, <1>9, <1>11, <1>13 DEF Counts, Gone
  <2>3. a + b + c + d1 + e + (f + k) + g + h = Received(p)
    BY <1>1, <1>5, <1>6
  <2> QED
    BY <2>2, <2>3, <1>9, <1>10, CountKept
<1> QED
  BY <1>3, <1>8, <1>12, <1>13 DEF InsertMoved

LEMMA OverflowPlaced ==
  ASSUME AccountInv, rte_reorder_fill_overflow, NEW p \in Pkts
  PROVE  Placed(p)'
<1>1. PICK a, b, c, d, e, f, g, h \in Nat :
        /\ Counts(p, a, b, c, d, e, f, g, h)
        /\ a + b + c + d + e + f + g + h = Received(p)
  BY CountBefore
<1>2. p \in Nat /\ reorder \in Buffers
  BY PktsNat DEF AccountInv, OrderInv, SendType, Buffers
<1>3. UNCHANGED <<recv, rx_to_workers, workers_to_tx, burst, send, tx_buffer, wire, seqn, astray, freed>>
  BY DEF rte_reorder_fill_overflow
<1>4. Waits(p)' = Waits(p)
  <2>1. CASE Due(reorder) /\ reorder' = Take(reorder)
    <3>1. PICK m \in Nat, s \in Seq(Nat), o \in SUBSET Nat :
            m = reorder.min /\ s = reorder.ready /\ o = reorder.order /\ m \in o
      BY <2>1, <1>2 DEF Buffers, Due
    <3>2. reorder'.order = o \ {m} /\ reorder'.ready = Append(s, m)
      BY <2>1, <3>1, <1>2, TakeBuffer
    <3>3. In(Append(s, m), p) = In(s, p) + One(m = p)
      BY <1>2, InAppend
    <3>4. One(p \in o) = One(p \in o \ {m}) + One(m = p)
      BY <3>1 DEF One
    <3>5. PICK x \in Nat, k \in Nat, y \in Nat : x = In(s, p) /\ k = One(m = p) /\ y = One(p \in o \ {m})
      BY <1>2, InType DEF One
    <3>6. Waits(p)' = y + (x + k) /\ Waits(p) = (y + k) + x
      BY <3>1, <3>2, <3>3, <3>4, <3>5 DEF Waits
    <3> QED
      BY <3>6
  <2>2. CASE reorder' = Skip(reorder)
    BY <2>2, <1>2, SkipBuffer DEF Waits
  <2> QED
    BY <2>1, <2>2 DEF rte_reorder_fill_overflow
<1>5. Counts(p, a, b, c, d, e, f, g, h)'
  BY <1>1, <1>3, <1>4 DEF Counts, Held, HeldBy, Sent, SentBy, Gone
<1>6. Single(p)'
  BY <1>3 DEF AccountInv, Placed, Single
<1> QED
  BY <1>1, <1>3, <1>5, <1>6, CountKept

LEMMA DrainPlaced ==
  ASSUME AccountInv, Drain, NEW p \in Pkts
  PROVE  Placed(p)'
<1>1. PICK a, b, c, d, e, f, g, h \in Nat :
        /\ Counts(p, a, b, c, d, e, f, g, h)
        /\ a + b + c + d + e + f + g + h = Received(p)
  BY CountBefore
<1>2. p \in Nat /\ reorder \in Buffers
  BY PktsNat DEF AccountInv, OrderInv, SendType, Buffers
<1>3. /\ UNCHANGED <<recv, rx_to_workers, workers_to_tx, burst, tx_buffer, wire, seqn, astray, freed>>
      /\ send.pkts = << >> /\ send'.pkts = Drained(reorder).out /\ reorder' = Drained(reorder).b
  BY DEF Drain
<1>4. \A q \in reorder.order : q \in reorder.min .. (reorder.min + REORDER_BUFFER_SIZE - 1)
  BY DEF AccountInv, OrderInv, Drain, Window
<1>5. PICK n \in 0 .. Len(reorder.ready), r \in Nat, run \in Seq(Nat) :
           /\ r = FromRun(reorder)
           /\ Consecutive(run, reorder.min, r)
           /\ Drained(reorder).out = FirstN(reorder.ready, n) \o run
           /\ Drained(reorder).b.order = reorder.order \ (reorder.min .. (reorder.min + r - 1))
           /\ Drained(reorder).b.ready = AfterN(reorder.ready, n)
  BY <1>2, <1>4, DrainedParts
<1>6. PICK m \in Nat, s \in Seq(Nat), o \in SUBSET Nat : m = reorder.min /\ s = reorder.ready /\ o = reorder.order
  BY <1>2 DEF Buffers
<1>7. m .. (m + r - 1) \subseteq o
  <2>1. r <= Cardinality(Run(reorder))
    BY <1>2, <1>4, <1>5, RunCounts DEF Buffers
  <2> QED
    BY <2>1, <1>2, <1>4, <1>6, RunInOrder
<1>8. PICK first \in Seq(Nat), rest \in Seq(Nat) : first = FirstN(s, n) /\ rest = AfterN(s, n)
  BY <1>6, FirstNParts, AfterNParts
<1>9. PICK x \in Nat, y \in Nat : x = In(first, p) /\ y = In(rest, p)
  BY <1>2, InType
<1>10. In(s, p) = x + y
  BY <1>2, <1>6, <1>8, <1>9, InCut
<1>11. PICK k \in Nat, l \in Nat : k = One(p \in m .. (m + r - 1)) /\ l = One(p \in o \ (m .. (m + r - 1)))
  BY DEF One
<1>12. In(run, p) = k
  <2>1. Consecutive(run, m, r)
    BY <1>5, <1>6
  <2>2. In(run, p) = One(p \in m .. (m + r - 1))
    BY <2>1, <1>2, InConsecutive
  <2> QED
    BY <2>2, <1>11
<1>13. One(p \in o) = k + l
  BY <1>7, <1>11 DEF One
<1>14. f = (k + l) + (x + y)
  BY <1>1, <1>6, <1>10, <1>13 DEF Counts, Waits
<1>15. Waits(p)' = l + y
  BY <1>3, <1>5, <1>6, <1>8, <1>9, <1>11 DEF Waits
<1>16. In(send'.pkts, p) = x + k
  <2>1. send'.pkts = first \o run
    BY <1>3, <1>5, <1>6, <1>8
  <2>2. In(first \o run, p) = In(first, p) + In(run, p)
    BY <1>2, InConcat
  <2> QED
    BY <2>1, <2>2, <1>9, <1>12
<1>17. d = 0
  BY <1>1, <1>2, <1>3, InNone DEF Counts
<1>18. Counts(p, a, b, c, x + k, e, l + y, g, h)'
  BY <1>1, <1>3, <1>15, <1>16 DEF Counts, Held, HeldBy, Sent, SentBy, Gone
<1>19. a + b + c + (x + k) + e + (l + y) + g + h = Received(p)
  <2>1. PICK i \in {0, 1} : i = Received(p)
    BY ReceivedType
  <2>2. a + b + c + d + e + f + g + h = i
    BY <2>1, <1>1
  <2>3. a + b + c + (x + k) + e + (l + y) + g + h = i
    BY <2>2, <1>14, <1>17
  <2> QED
    BY <2>1, <2>3
<1>20. Single(p)'
  BY <1>3 DEF AccountInv, Placed, Single
<1> QED
  BY <1>3, <1>18, <1>19, <1>20, CountKept

(* The transmit buffer and the wire of one port change.                     *)
LEMMA SentChanges ==
  ASSUME NEW p \in Pkts, NEW o \in Ports, NEW z \in {0, 1}, NEW y \in {0, 1},
         In(tx_buffer[o], p) + In(wire[o], p) = z, In(tx_buffer'[o], p) + In(wire'[o], p) = y,
         \A x \in Ports : x # o => tx_buffer'[x] = tx_buffer[x] /\ wire'[x] = wire[x]
  PROVE  Sent(p)' \in Nat /\ Sent(p)' + z = Sent(p) + y /\ z <= Sent(p)
<1> DEFINE A == SentBy(p)  B == {x \in Ports : In(tx_buffer'[x], p) + In(wire'[x], p) > 0}
<1>1. IsFiniteSet(A) /\ IsFiniteSet(B)
  <2>1. IsFiniteSet({0}) /\ IsFiniteSet({0} \cup {1})
    BY FS_Singleton, FS_AddElement
  <2>2. {0, 1} = {0} \cup {1}
    OBVIOUS
  <2>3. IsFiniteSet(Ports) /\ B \subseteq Ports
    BY <2>1, <2>2, OrderingAssumption
  <2> QED
    BY <2>3, HolderSets, FS_Subset
<1>2. A \ {o} = B \ {o}
  BY DEF SentBy
<1>3. One(o \in A) = z /\ One(o \in B) = y
  BY DEF SentBy, One
<1>4. Sent(p) = Cardinality(A) /\ Sent(p)' = Cardinality(B)
  BY DEF Sent, SentBy
<1> HIDE DEF A, B
<1>5. /\ Cardinality(A) \in Nat /\ Cardinality(B) \in Nat
      /\ Cardinality(A) + One(o \in B) = Cardinality(B) + One(o \in A)
  BY <1>1, <1>2, CountsDiffer
<1>6. One(o \in A) <= Cardinality(A)
  BY <1>1, MemberCounts
<1> QED
  BY <1>3, <1>4, <1>5, <1>6

(* What a port's line and the freed packets gain is the packet handed in.   *)
LEMMA TransmitCounts ==
  ASSUME SendType, freed \in [Pkts -> Nat], portmask \subseteq Ports, Transmit, NEW p \in Pkts
  PROVE  \/ Drop(<<send.pkts[1]>>) /\ UNCHANGED <<tx_buffer, wire>>
         \/ \E o \in Ports, y \in Nat :
              /\ In(tx_buffer'[o], p) + In(wire'[o], p) + y
                   = In(tx_buffer[o], p) + In(wire[o], p) + One(send.pkts[1] = p)
              /\ In(tx_buffer'[o], p) \in Nat /\ In(wire'[o], p) \in Nat
              /\ freed'[p] = freed[p] + y
              /\ \A x \in Ports : x # o => tx_buffer'[x] = tx_buffer[x] /\ wire'[x] = wire[x]
<1> DEFINE o == port[send.pkts[1]]
<1>1. p \in Nat
  BY PktsNat
<1>2. PICK q \in Nat : q = send.pkts[1]
  BY TailParts DEF SendType, Transmit
<1>3. SUFFICES ASSUME o \in Ports, ~(Drop(<<send.pkts[1]>>) /\ UNCHANGED <<tx_buffer, wire>>)
               PROVE  \E y \in Nat :
                        /\ In(tx_buffer'[o], p) + In(wire'[o], p) + y
                             = In(tx_buffer[o], p) + In(wire[o], p) + One(send.pkts[1] = p)
                        /\ In(tx_buffer'[o], p) \in Nat /\ In(wire'[o], p) \in Nat
                        /\ freed'[p] = freed[p] + y
                        /\ \A x \in Ports : x # o => tx_buffer'[x] = tx_buffer[x] /\ wire'[x] = wire[x]
  BY DEF Transmit
<1>4. wire \in [Ports -> Seq(Nat)] /\ tx_buffer \in [Ports -> Seq(Nat)]
  BY DEF SendType
<1>5. PICK w \in Seq(Nat), t \in Seq(Nat) : w = wire[o] /\ t = tx_buffer[o]
  BY <1>3, <1>4
<1>6. PICK k \in Nat, wn \in Nat, tn \in Nat : k = One(send.pkts[1] = p) /\ wn = In(w, p) /\ tn = In(t, p)
  BY <1>1, InType DEF One
<1>7. PICK buffered \in Seq(Nat) : buffered = Append(t, q)
  BY AppendParts
<1>8. In(buffered, p) = tn + k
  <2>1. In(Append(t, q), p) = In(t, p) + One(q = p)
    BY <1>1, InAppend
  <2> QED
    BY <2>1, <1>2, <1>6, <1>7
<1>9. CASE tx_buffer' = [tx_buffer EXCEPT ![o] = buffered] /\ UNCHANGED <<wire, freed>>
  <2>1. tx_buffer'[o] = buffered /\ wire'[o] = w
    BY <1>3, <1>4, <1>5, <1>9
  <2>2. \A x \in Ports : x # o => tx_buffer'[x] = tx_buffer[x] /\ wire'[x] = wire[x]
    BY <1>4, <1>9
  <2>3. In(tx_buffer'[o], p) = tn + k /\ In(wire'[o], p) = wn
    BY <2>1, <1>6, <1>8
  <2>4. (tn + k) + wn + 0 = tn + wn + k
    OBVIOUS
  <2>5. freed'[p] = freed[p] + 0
    BY <1>9
  <2>6. In(tx_buffer'[o], p) + In(wire'[o], p) + 0 = In(tx_buffer[o], p) + In(wire[o], p) + One(send.pkts[1] = p)
    BY <2>3, <2>4, <1>5, <1>6
  <2>7. In(tx_buffer'[o], p) \in Nat /\ In(wire'[o], p) \in Nat /\ 0 \in Nat
    BY <2>3
  <2> HIDE DEF o
  <2> QED
    BY <2>2, <2>5, <2>6, <2>7, Zenon
<1>10. CASE /\ tx_buffer' = [tx_buffer EXCEPT ![o] = << >>]
            /\ \E sent \in 0 .. Len(buffered) : /\ wire' = [wire EXCEPT ![o] = @ \o FirstN(buffered, sent)]
                                                /\ Drop(AfterN(buffered, sent))
  <2>1. PICK sent \in 0 .. Len(buffered) : /\ wire' = [wire EXCEPT ![o] = @ \o FirstN(buffered, sent)]
                                           /\ Drop(AfterN(buffered, sent))
    BY <1>10
  <2>2. PICK first \in Seq(Nat), rest \in Seq(Nat) : first = FirstN(buffered, sent) /\ rest = AfterN(buffered, sent)
    BY FirstNParts, AfterNParts
  <2>3. PICK x \in Nat, y \in Nat : x = In(first, p) /\ y = In(rest, p)
    BY <1>1, InType
  <2>4. x + y = tn + k
    BY <2>2, <2>3, <1>1, <1>8, InCut
  <2>5. tx_buffer'[o] = << >> /\ wire'[o] = w \o first
    BY <2>1, <2>2, <1>3, <1>4, <1>5, <1>10
  <2>6. In(tx_buffer'[o], p) = 0
    BY <2>5, <1>1, InNone
  <2>7. In(wire'[o], p) = wn + x
    <3>1. In(w \o first, p) = In(w, p) + In(first, p)
      BY <1>1, InConcat
    <3> QED
      BY <3>1, <2>3, <2>5, <1>6
  <2>8. \A v \in Ports : v # o => tx_buffer'[v] = tx_buffer[v] /\ wire'[v] = wire[v]
    BY <2>1, <1>4, <1>10
  <2>9. freed'[p] = freed[p] + y
    BY <2>1, <2>2, <2>3, DropCounts
  <2>10. 0 + (wn + x) + y = tn + wn + k
    BY <2>4
  <2>11. In(tx_buffer'[o], p) + In(wire'[o], p) + y = In(tx_buffer[o], p) + In(wire[o], p) + One(send.pkts[1] = p)
    BY <2>6, <2>7, <2>10, <1>5, <1>6
  <2>12. In(tx_buffer'[o], p) \in Nat /\ In(wire'[o], p) \in Nat
    BY <2>6, <2>7
  <2> HIDE DEF o
  <2> QED
    BY <2>8, <2>9, <2>11, <2>12, Zenon
<1> QED
  BY <1>2, <1>3, <1>5, <1>7, <1>9, <1>10 DEF Transmit

LEMMA TransmitPlaced ==
  ASSUME AccountInv, Transmit, NEW p \in Pkts
  PROVE  Placed(p)'
<1>1. PICK a, b, c, d, e, f, g, h \in Nat :
        /\ Counts(p, a, b, c, d, e, f, g, h)
        /\ a + b + c + d + e + f + g + h = Received(p)
  BY CountBefore
<1>2. p \in Nat /\ SendType /\ portmask \subseteq Ports /\ freed \in [Pkts -> Nat]
  BY PktsNat DEF AccountInv, OrderInv
<1>3. PICK s \in Seq(Nat) : s = send.pkts /\ s # << >>
  <2>1. send.pkts \in Seq(Nat)
    BY <1>2 DEF SendType
  <2>2. send.pkts # << >>
    BY DEF Transmit
  <2> QED
    BY <2>1, <2>2
<1>4. PICK k \in {0, 1}, d1 \in Nat :
        k = One(s[1] = p) /\ d1 = In(Tail(s), p) /\ In(s, p) = k + d1 /\ (k = 1 <=> s[1] = p)
  BY <1>2, <1>3, NextLeaves
<1>5. d = k + d1
  BY <1>1, <1>3, <1>4 DEF Counts
<1>6. PICK r \in {0, 1} : r = Received(p)
  BY ReceivedType
<1>7. PICK q \in Nat : q = s[1]
  BY <1>3, TailParts
<1>8. UNCHANGED <<recv, rx_to_workers, workers_to_tx, burst, reorder, seqn, astray>>
  BY DEF Transmit
<1>9. send'.pkts = Tail(s)
  BY <1>2, <1>3 DEF Transmit, SendType
<1>10. Held(p)' = e /\ Waits(p)' = f
  BY <1>1, <1>8 DEF Counts, Held, HeldBy, Waits
<1>11. \A v \in Workers : In(burst'[v], p) <= 1
  BY <1>8 DEF AccountInv, Placed, Single
<1>12. CASE Drop(<<q>>) /\ UNCHANGED <<tx_buffer, wire>>
  <2>1. In(<<q>>, p) = k /\ k \in Nat
    BY <1>2, <1>4, <1>7, InOne
  <2>2. Gone(p)' = h + k
    BY <2>1, <1>1, <1>2, <1>8, <1>12, GoneDrop DEF Counts
  <2>3. Counts(p, a, b, c, d1, e, f, g, h + k)'
    BY <2>2, <1>1, <1>4, <1>8, <1>9, <1>10, <1>12 DEF Counts, Sent, SentBy
  <2>4. a + b + c + d1 + e + f + g + (h + k) = Received(p)
    BY <1>1, <1>5, <1>6
  <2>5. Single(p)'
    BY <1>11, <1>12 DEF AccountInv, Placed, Single
  <2> QED
    BY <2>3, <2>4, <2>5, <1>8, CountKept
<1>13. ASSUME NEW o \in Ports, NEW y \in Nat,
              In(tx_buffer'[o], p) + In(wire'[o], p) + y = In(tx_buffer[o], p) + In(wire[o], p) + One(send.pkts[1] = p),
              In(tx_buffer'[o], p) \in Nat, In(wire'[o], p) \in Nat,
              freed'[p] = freed[p] + y,
              \A x \in Ports : x # o => tx_buffer'[x] = tx_buffer[x] /\ wire'[x] = wire[x]
       PROVE  Placed(p)'
  <2>1. PICK z \in {0, 1} : z = In(tx_buffer[o], p) + In(wire[o], p)
    <3>1. In(tx_buffer[o], p) \in Nat /\ In(wire[o], p) \in Nat
      BY <1>2, LineType, InType
    <3>2. In(tx_buffer[o], p) + In(wire[o], p) <= 1
      BY DEF AccountInv, Placed, Single
    <3> QED
      BY <3>1, <3>2
  <2>2. PICK z1 \in Nat : z1 = In(tx_buffer'[o], p) + In(wire'[o], p)
    BY <1>13
  <2>3. z1 + y = z + k
    BY <2>1, <2>2, <1>3, <1>4, <1>13
  <2>4. z <= g
    <3>1. One(o \in SentBy(p)) <= Cardinality(SentBy(p))
      BY HolderSets, MemberCounts
    <3>2. One(o \in SentBy(p)) = z
      BY <2>1 DEF SentBy, One
    <3> QED
      BY <3>1, <3>2, <1>1 DEF Counts, Sent
  <2>5. z1 \in {0, 1}
    <3>1. z + k <= 1
      BY <2>4, <1>1, <1>5, <1>6
    <3> QED
      BY <3>1, <2>3
  <2>6. PICK g1 \in Nat : g1 = Sent(p)' /\ g1 + z = g + z1
    BY <2>1, <2>2, <2>5, <1>1, <1>13, SentChanges DEF Counts
  <2>7. Gone(p)' = h + y
    <3>1. freed[p] \in Nat
      BY <1>2
    <3>2. PICK x \in Nat : x = One(p \in astray)
      BY DEF One
    <3>3. h = x + freed[p] /\ Gone(p)' = x + freed'[p]
      BY <3>2, <1>1, <1>8 DEF Counts, Gone
    <3> QED
      BY <3>1, <3>2, <3>3, <1>13
  <2>8. Counts(p, a, b, c, d1, e, f, g1, h + y)'
    BY <2>6, <2>7, <1>1, <1>4, <1>8, <1>9, <1>10 DEF Counts
  <2>9. a + b + c + d1 + e + f + g1 + (h + y) = Received(p)
    <3>1. a + b + c + d + e + f + g + h = r
      BY <1>1, <1>6
    <3>2. d1 + g1 + y = d + g
      <4>1. g1 + z = g + z1
        BY <2>6
      <4> QED
        BY <4>1, <2>3, <1>5
    <3>3. a + b + c + d1 + e + f + g1 + (h + y) = r
      BY <3>1, <3>2
    <3> QED
      BY <3>3, <1>6
  <2>10. Single(p)'
    <3>1. ASSUME NEW x \in Ports
          PROVE  In(tx_buffer'[x], p) + In(wire'[x], p) <= 1
      <4>1. CASE x = o
        BY <4>1, <2>2, <2>5
      <4>2. CASE x # o
        <5>1. tx_buffer'[x] = tx_buffer[x] /\ wire'[x] = wire[x]
          BY <4>2, <1>13
        <5>2. In(tx_buffer[x], p) + In(wire[x], p) <= 1
          BY DEF AccountInv, Placed, Single
        <5> QED
          BY <5>1, <5>2
      <4> QED
        BY <4>1, <4>2
    <3> QED
      BY <3>1, <1>11 DEF Single
  <2> QED
    BY <2>8, <2>9, <2>10, <1>8, CountKept
<1> QED
  BY <1>2, <1>3, <1>7, <1>12, <1>13, TransmitCounts

(* Steps that leave every packet where it is.                               *)
PlaceVars == <<recv, rx_to_workers, workers_to_tx, burst, reorder, tx_buffer, wire, astray, freed, seqn>>

LEMMA PlacedStays ==
  ASSUME AccountInv, UNCHANGED PlaceVars, send'.pkts = send.pkts, NEW p \in Pkts
  PROVE  Placed(p)'
<1>1. PICK a, b, c, d, e, f, g, h \in Nat :
        /\ Counts(p, a, b, c, d, e, f, g, h)
        /\ a + b + c + d + e + f + g + h = Received(p)
  BY CountBefore
<1>2. Counts(p, a, b, c, d, e, f, g, h)'
  BY <1>1 DEF PlaceVars, Counts, Held, HeldBy, Sent, SentBy, Waits, Gone
<1>3. Single(p)'
  BY DEF PlaceVars, AccountInv, Placed, Single
<1>4. UNCHANGED seqn
  BY DEF PlaceVars
<1> QED
  BY <1>1, <1>2, <1>3, <1>4, CountKept

LEMMA QuietPlaced ==
  ASSUME AccountInv, RxNone \/ SendLoop \/ signal_handler \/ UNCHANGED vars, NEW p \in Pkts
  PROVE  Placed(p)'
<1>1. UNCHANGED PlaceVars
  BY DEF PlaceVars, RxNone, SendLoop, signal_handler, vars
<1>2. send'.pkts = send.pkts
  BY DEF RxNone, SendLoop, signal_handler, vars, AccountInv, OrderInv, SendType
<1> QED
  BY <1>1, <1>2, PlacedStays

(* What is freed is a packet or a burst of packets.                         *)
LEMMA FreedType ==
  ASSUME AccountInv, [Next]_vars
  PROVE  freed' \in [Pkts -> Nat]
<1>1. freed \in [Pkts -> Nat] /\ OrderInv /\ Queues /\ SendType
  BY DEF AccountInv, OrderInv
<1>2. CASE UNCHANGED freed
  BY <1>1, <1>2
<1>3. CASE \E ps \in Seq(Nat) : Drop(ps)
  BY <1>1, <1>3, DropType
<1>5. CASE RxEnqueue
  <2>1. PICK s \in Seq(Nat), ring \in Seq(Nat) : s = recv /\ ring = rx_to_workers /\ Len(ring) <= RING_SIZE
    BY <1>1 DEF Queues
  <2>2. Room(ring, Len(s)) \in 0 .. Len(s)
    BY <2>1, RoomFits, LenProperties
  <2>3. AfterN(s, Room(ring, Len(s))) \in Seq(Nat)
    BY <2>2, AfterNParts
  <2>4. Drop(AfterN(s, Room(ring, Len(s))))
    BY <2>1, <1>5 DEF RxEnqueue
  <2> QED
    BY <2>3, <2>4, <1>3
<1>6. ASSUME NEW w \in Workers, WorkerEnqueue(w)
      PROVE  freed' \in [Pkts -> Nat]
  <2>1. PICK s \in Seq(Nat), ring \in Seq(Nat) : s = burst[w] /\ ring = workers_to_tx /\ Len(ring) <= RING_SIZE
    BY <1>1 DEF Queues
  <2>2. Room(ring, Len(s)) \in 0 .. Len(s)
    BY <2>1, RoomFits, LenProperties
  <2>3. AfterN(s, Room(ring, Len(s))) \in Seq(Nat)
    BY <2>2, AfterNParts
  <2>4. Drop(AfterN(s, Room(ring, Len(s))))
    BY <2>1, <1>6 DEF WorkerEnqueue
  <2> QED
    BY <2>3, <2>4, <1>3
<1>7. CASE Insert \/ InsertMoved
  <2>1. send.pkts \in Seq(Nat) /\ send.pkts # << >>
    BY <1>1, <1>7 DEF Insert, InsertMoved, OrderInv, Window, SendType
  <2>2. <<send.pkts[1]>> \in Seq(Nat)
    BY <2>1, TailParts
  <2>3. Drop(<<send.pkts[1]>>) \/ UNCHANGED freed
    BY <1>7 DEF Insert, InsertMoved, DirectTransmit
  <2> QED
    BY <2>2, <2>3, <1>2, <1>3
<1>8. CASE Transmit
  <2>1. send.pkts \in Seq(Nat) /\ send.pkts # << >>
    BY <1>1, <1>8 DEF Transmit, SendType
  <2>2. PICK p \in Nat : p = send.pkts[1]
    BY <2>1, TailParts
  <2>3. CASE Drop(<<p>>)
    <3>1. <<p>> \in Seq(Nat)
      OBVIOUS
    <3> QED
      BY <3>1, <2>3, <1>3
  <2>4. CASE port[p] \in portmask /\ \E sent \in 0 .. Len(Append(tx_buffer[port[p]], p)) :
               Drop(AfterN(Append(tx_buffer[port[p]], p), sent))
    <3>1. PICK t \in Seq(Nat) : t = tx_buffer[port[p]]
      BY <2>4, <1>1 DEF OrderInv, SendType
    <3>2. PICK u \in Seq(Nat) : u = Append(t, p)
      BY AppendParts
    <3>3. PICK sent \in 0 .. Len(u) : Drop(AfterN(u, sent))
      BY <2>4, <3>1, <3>2
    <3>4. AfterN(u, sent) \in Seq(Nat)
      BY AfterNParts
    <3> QED
      BY <3>3, <3>4, <1>3
  <2> QED
    BY <2>2, <2>3, <2>4, <1>2, <1>8 DEF Transmit
<1>9. CASE RxNone \/ RxBurst \/ SendDequeue \/ rte_reorder_fill_overflow \/ Drain \/ SendLoop \/ signal_handler
  BY <1>2, <1>9 DEF RxNone, RxBurst, SendDequeue, rte_reorder_fill_overflow, Drain, SendLoop, signal_handler
<1>10. ASSUME NEW w \in Workers, WorkerDequeue(w)
       PROVE  freed' \in [Pkts -> Nat]
  BY <1>2, <1>10 DEF WorkerDequeue
<1>11. CASE UNCHANGED vars
  BY <1>2, <1>11 DEF vars
<1> QED
  BY <1>5, <1>6, <1>7, <1>8, <1>9, <1>10, <1>11 DEF Next

LEMMA DequeueEmpty ==
  ASSUME AccountInv, [Next]_vars
  PROVE  send'.pc = "dequeue" => send'.pkts = << >>
<1>1. (send.pc = "dequeue" => send.pkts = << >>) /\ SendType
  BY DEF AccountInv, OrderInv
<1>2. CASE UNCHANGED send
  BY <1>1, <1>2
<1>3. CASE SendDequeue
  BY <1>3 DEF SendDequeue
<1>4. CASE Insert
  BY <1>1, <1>4 DEF Insert, SendType
<1>5. CASE InsertMoved \/ Drain
  BY <1>5 DEF InsertMoved, Drain
<1>6. CASE Transmit
  BY <1>1, <1>6 DEF Transmit, SendType
<1>7. CASE SendLoop
  BY <1>1, <1>7 DEF SendLoop, SendType
<1>8. CASE RxNone \/ RxBurst \/ RxEnqueue \/ rte_reorder_fill_overflow \/ signal_handler \/ UNCHANGED vars
  BY <1>2, <1>8 DEF RxNone, RxBurst, RxEnqueue, rte_reorder_fill_overflow, signal_handler, vars
<1>9. CASE \E w \in Workers : WorkerDequeue(w) \/ WorkerEnqueue(w)
  BY <1>2, <1>9 DEF WorkerDequeue, WorkerEnqueue
<1> QED
  BY <1>3, <1>4, <1>5, <1>6, <1>7, <1>8, <1>9 DEF Next

LEMMA AccountInit == Init => AccountInv
<1> SUFFICES ASSUME Init
             PROVE  AccountInv
  OBVIOUS
<1>1. OrderInv
  BY OrderInit
<1>2. freed \in [Pkts -> Nat] /\ send.pkts = << >>
  BY DEF Init
<1>3. ASSUME NEW p \in Pkts
      PROVE  Placed(p)
  <2>1. p \in Nat /\ In(<< >>, p) = 0
    BY PktsNat, InNone
  <2>2. HeldBy(p) = {}
    BY <2>1 DEF Init, HeldBy
  <2>3. SentBy(p) = {}
    BY <2>1 DEF Init, SentBy
  <2>4. Held(p) = 0 /\ Sent(p) = 0
    BY <2>2, <2>3, FS_EmptySet DEF Held, Sent
  <2>5. Waits(p) = 0 /\ Gone(p) = 0 /\ Received(p) = 0
    BY <2>1 DEF Init, NoBuffer, Waits, Gone, Received, One
  <2>6. In(recv, p) = 0 /\ In(rx_to_workers, p) = 0 /\ In(workers_to_tx, p) = 0 /\ In(send.pkts, p) = 0
    BY <2>1, <1>2 DEF Init
  <2>7. Single(p)
    BY <2>1 DEF Init, Single
  <2> QED
    BY <2>4, <2>5, <2>6, <2>7 DEF Placed
<1> QED
  BY <1>1, <1>2, <1>3 DEF AccountInv

LEMMA AccountNext == AccountInv /\ [Next]_vars => AccountInv'
<1> SUFFICES ASSUME AccountInv, [Next]_vars
             PROVE  AccountInv'
  OBVIOUS
<1>1. OrderInv'
  BY OrderNext DEF AccountInv
<1>2. freed' \in [Pkts -> Nat] /\ (send'.pc = "dequeue" => send'.pkts = << >>)
  BY FreedType, DequeueEmpty
<1>3. ASSUME NEW p \in Pkts
      PROVE  Placed(p)'
  <2>1. CASE \E w \in Workers : WorkerDequeue(w) \/ WorkerEnqueue(w)
    BY <2>1, WorkerDequeuePlaced, WorkerEnqueuePlaced
  <2>2. CASE RxBurst \/ RxEnqueue
    BY <2>2, RxPlaced, RxEnqueuePlaced
  <2>3. CASE SendDequeue \/ Insert \/ rte_reorder_fill_overflow
    BY <2>3, SendDequeuePlaced, InsertPlaced, OverflowPlaced
  <2>4. CASE InsertMoved \/ Drain \/ Transmit
    BY <2>4, InsertMovedPlaced, DrainPlaced, TransmitPlaced
  <2>5. CASE RxNone \/ SendLoop \/ signal_handler \/ UNCHANGED vars
    BY <2>5, QuietPlaced
  <2> QED
    BY <2>1, <2>2, <2>3, <2>4, <2>5 DEF Next
<1> QED
  BY <1>1, <1>2, <1>3 DEF AccountInv

-----------------------------------------------------------------------------
(* The counters.                                                            *)

(* The packets of a sequence, and of any sequence of a family.              *)
Members(s) == {p \in Pkts : In(s, p) > 0}
Those(I, f) == {p \in Pkts : \E x \in I : In(f[x], p) > 0}

LEMMA PktsFinite == IsFiniteSet(Pkts) /\ Pkts \subseteq Nat
<1>1. MaxPkts \in Nat
  BY OrderingAssumption
<1>2. PICK y \in Int : y = MaxPkts - 1
  BY <1>1
<1>3. IsFiniteSet(0 .. y)
  BY FS_Interval
<1> QED
  BY <1>2, <1>3, PktsNat DEF Pkts

(* A set with one element at most.                                          *)
LEMMA AtMostOne ==
  ASSUME NEW A, IsFiniteSet(A), NEW n \in Nat, Cardinality(A) = n, n <= 1, NEW i \in A, NEW j \in A
  PROVE  i = j
<1> SUFFICES ASSUME i # j
             PROVE  FALSE
  OBVIOUS
<1>1. IsFiniteSet({i}) /\ Cardinality({i}) = 1
  BY FS_Singleton
<1>2. j \notin {i}
  OBVIOUS
<1>3. Cardinality({i} \cup {j}) = Cardinality({i}) + 1
  BY <1>1, <1>2, FS_AddElement
<1>4. Cardinality({i} \cup {j}) = 2
  BY <1>1, <1>3
<1>5. {i} \cup {j} \subseteq A
  OBVIOUS
<1>6. Cardinality({i} \cup {j}) <= Cardinality(A)
  BY <1>5, FS_Subset
<1>7. 2 <= n
  BY <1>4, <1>6
<1> QED
  BY <1>7

(* A sequence without repetition has as many packets as it is long.         *)
LEMMA MembersCount ==
  ASSUME NEW s \in Seq(Pkts), \A p \in Pkts : In(s, p) <= 1
  PROVE  IsFiniteSet(Members(s)) /\ Cardinality(Members(s)) = Len(s)
<1> DEFINE D == 1 .. Len(s)
           f == [i \in D |-> s[i]]
<1>1. s \in Seq(Nat) /\ Len(s) \in Nat /\ \A i \in D : s[i] \in Pkts
  <2>1. Len(s) \in Nat /\ s \in [1 .. Len(s) -> Pkts]
    BY LenProperties
  <2>2. s \in [1 .. Len(s) -> Nat]
    BY <2>1, PktsFinite
  <2>3. s \in Seq(Nat)
    BY <2>1, <2>2, IsASeq
  <2> QED
    BY <2>1, <2>3
<1>2. ASSUME NEW p \in Pkts
      PROVE  IsFiniteSet(At(s, p)) /\ In(s, p) = Cardinality(At(s, p)) /\ At(s, p) = {i \in D : s[i] = p}
  <2>1. p \in Nat
    BY PktsFinite
  <2> QED
    BY <2>1, <1>1, InType
<1>3. ASSUME NEW i \in D, NEW j \in D, s[i] = s[j]
      PROVE  i = j
  <2>1. PICK p \in Pkts : p = s[i] /\ p = s[j]
    BY <1>1, <1>3
  <2>2. i \in At(s, p) /\ j \in At(s, p) /\ IsFiniteSet(At(s, p)) /\ Cardinality(At(s, p)) <= 1
    <3>1. In(s, p) <= 1
      OBVIOUS
    <3> QED
      BY <2>1, <1>2, <3>1
  <2>3. PICK k \in Nat : k = Cardinality(At(s, p)) /\ k <= 1
    BY <2>2, FS_CardinalityType
  <2> QED
    BY <2>2, <2>3, AtMostOne
<1>4. ASSUME NEW p \in Pkts
      PROVE  p \in Members(s) <=> \E i \in D : s[i] = p
  <2>1. Cardinality(At(s, p)) = 0 <=> At(s, p) = {}
    BY <1>2, FS_EmptySet
  <2>2. Cardinality(At(s, p)) \in Nat
    BY <1>2, FS_CardinalityType
  <2>3. In(s, p) > 0 <=> At(s, p) # {}
    BY <2>1, <2>2, <1>2
  <2> QED
    BY <2>3, <1>2 DEF Members
<1>5. f \in [D -> Members(s)]
  BY <1>1, <1>4
<1>6. \A i, j \in D : f[i] = f[j] => i = j
  BY <1>3
<1>7. \A p \in Members(s) : \E i \in D : f[i] = p
  BY <1>4 DEF Members
<1> HIDE DEF f
<1>8. f \in Bijection(D, Members(s))
  BY <1>5, <1>6, <1>7 DEF Bijection, Injection, Surjection, IsInjective
<1>9. ExistsBijection(D, Members(s))
  BY <1>8 DEF ExistsBijection
<1>10. IsFiniteSet(D) /\ Cardinality(D) = Len(s)
  <2>1. PICK n \in Nat : n = Len(s)
    BY <1>1
  <2>2. IsFiniteSet(1 .. n) /\ Cardinality(1 .. n) = IF 1 > n THEN 0 ELSE n - 1 + 1
    BY FS_Interval
  <2> QED
    BY <2>1, <2>2
<1> HIDE DEF D
<1>11. IsFiniteSet(Members(s)) /\ Cardinality(Members(s)) = Cardinality(D)
  BY <1>9, <1>10, FS_Bijection
<1> QED
  BY <1>10, <1>11

LEMMA ThoseCount == \A I, f : IsFiniteSet(Those(I, f)) /\ Cardinality(Those(I, f)) \in Nat
<1> SUFFICES ASSUME NEW I, NEW f
             PROVE  IsFiniteSet(Those(I, f)) /\ Cardinality(Those(I, f)) \in Nat
  OBVIOUS
<1>1. Those(I, f) \subseteq Pkts
  BY DEF Those
<1>2. IsFiniteSet(Those(I, f))
  BY <1>1, PktsFinite, FS_Subset
<1> QED
  BY <1>2, FS_CardinalityType

(* The packets of g are those of f and those of s, when g is f with s added *)
(* at one place and no packet is in g twice.                                *)
Adds(I, f, g, o, s) ==
    /\ \A p \in Pkts : /\ In(g[o], p) = In(f[o], p) + In(s, p)
                       /\ In(f[o], p) \in Nat /\ In(s, p) \in Nat
    /\ \A x \in I : x # o => g[x] = f[x]

Once(I, g) ==
    \A p \in Pkts : /\ \A x \in I : In(g[x], p) <= 1
                    /\ \A x, y \in I : In(g[x], p) > 0 /\ In(g[y], p) > 0 => x = y

LEMMA ThoseAdded ==
  ASSUME NEW I, NEW f, NEW g, NEW o \in I, NEW s \in Seq(Pkts), Adds(I, f, g, o, s), Once(I, g)
  PROVE  /\ Cardinality(Those(I, f)) \in Nat
         /\ Cardinality(Those(I, g)) = Cardinality(Those(I, f)) + Len(s)
<1>1. \A p \in Pkts : In(s, p) <= 1
  <2> SUFFICES ASSUME NEW p \in Pkts
               PROVE  In(s, p) <= 1
    OBVIOUS
  <2>1. In(g[o], p) = In(f[o], p) + In(s, p) /\ In(f[o], p) \in Nat /\ In(s, p) \in Nat
    BY DEF Adds
  <2>2. In(g[o], p) <= 1
    BY DEF Once
  <2> QED
    BY <2>1, <2>2
<1>2. IsFiniteSet(Members(s)) /\ Cardinality(Members(s)) = Len(s)
  BY <1>1, MembersCount
<1>3. ASSUME NEW p \in Pkts
      PROVE  /\ p \in Those(I, g) <=> p \in Those(I, f) \/ p \in Members(s)
             /\ ~(p \in Those(I, f) /\ p \in Members(s))
  <2>1. PICK a \in Nat, b \in Nat : a = In(f[o], p) /\ b = In(s, p) /\ In(g[o], p) = a + b
    BY DEF Adds
  <2>2. a + b <= 1
    BY <2>1 DEF Once
  <2>3. \A x \in I : x # o => In(g[x], p) = In(f[x], p)
    BY DEF Adds
  <2>4. ASSUME b > 0
        PROVE  \A x \in I : ~(In(f[x], p) > 0)
    <3> SUFFICES ASSUME NEW x \in I, In(f[x], p) > 0
                 PROVE  FALSE
      OBVIOUS
    <3>1. x # o
      BY <2>1, <2>2, <2>4
    <3>2. In(g[x], p) > 0 /\ In(g[o], p) > 0
      BY <2>1, <2>3, <2>4, <3>1
    <3>3. x = o
      BY <3>2 DEF Once
    <3> QED
      BY <3>1, <3>3
  <2>5. p \in Members(s) <=> b > 0
    BY <2>1 DEF Members
  <2>6. p \in Those(I, f) <=> \E x \in I : In(f[x], p) > 0
    BY DEF Those
  <2>7. p \in Those(I, g) <=> \E x \in I : In(g[x], p) > 0
    BY DEF Those
  <2>8. In(g[o], p) > 0 <=> In(f[o], p) > 0 \/ b > 0
    BY <2>1
  <2>9. (\E x \in I : In(g[x], p) > 0) <=> (\E x \in I : In(f[x], p) > 0) \/ b > 0
    <3>1. \A x \in I : x # o => (In(g[x], p) > 0 <=> In(f[x], p) > 0)
      BY <2>3
    <3> QED
      BY <2>8, <3>1, Zenon
  <2> QED
    BY <2>4, <2>5, <2>6, <2>7, <2>9, Zenon
<1>4. Those(I, g) = Those(I, f) \cup Members(s) /\ Those(I, f) \cap Members(s) = {}
  <2>1. Those(I, g) \subseteq Pkts /\ Those(I, f) \subseteq Pkts /\ Members(s) \subseteq Pkts
    BY DEF Those, Members
  <2> QED
    BY <2>1, <1>3
<1>5. IsFiniteSet(Those(I, f))
  BY ThoseCount
<1>6. PICK A, B : A = Those(I, f) /\ B = Members(s)
  OBVIOUS
<1>7. IsFiniteSet(A) /\ IsFiniteSet(B) /\ A \cap B = {}
  BY <1>2, <1>4, <1>5, <1>6
<1>8. Cardinality(A) \in Nat /\ Cardinality(B) \in Nat /\ Cardinality(A \cup B) = Cardinality(A) + Cardinality(B) - Cardinality(A \cap B)
  BY <1>7, FS_Union, FS_CardinalityType
<1>9. Cardinality(A \cap B) = 0
  BY <1>7, FS_EmptySet
<1> QED
  BY <1>2, <1>4, <1>6, <1>8, <1>9

-----------------------------------------------------------------------------
(* Only packets are in the pipeline.                                        *)

Known ==
    /\ recv \in Seq(Pkts) /\ rx_to_workers \in Seq(Pkts) /\ workers_to_tx \in Seq(Pkts)
    /\ burst \in [Workers -> Seq(Pkts)]
    /\ reorder.order \subseteq Pkts /\ reorder.ready \in Seq(Pkts) /\ send.pkts \in Seq(Pkts)
    /\ tx_buffer \in [Ports -> Seq(Pkts)]

LEMMA PktsNumbers == Seq(Pkts) \subseteq Seq(Nat)
<1> SUFFICES ASSUME NEW s \in Seq(Pkts)
             PROVE  s \in Seq(Nat)
  OBVIOUS
<1>1. Len(s) \in Nat /\ s \in [1 .. Len(s) -> Pkts]
  BY LenProperties
<1>2. s \in [1 .. Len(s) -> Nat]
  BY <1>1, PktsNat
<1> QED
  BY <1>1, <1>2, IsASeq

LEMMA CutKnown ==
  ASSUME NEW s \in Seq(Pkts), NEW n \in 0 .. Len(s)
  PROVE  /\ FirstN(s, n) \in Seq(Pkts) /\ Len(FirstN(s, n)) = n
         /\ AfterN(s, n) \in Seq(Pkts) /\ Len(AfterN(s, n)) = Len(s) - n
<1>1. Len(s) \in Nat /\ \A i \in 1 .. Len(s) : s[i] \in Pkts
  BY LenProperties
<1>2. s \in Seq(Nat)
  BY PktsNumbers
<1>3. FirstN(s, n) \in Seq(Pkts)
  <2>1. \A i \in 1 .. n : s[i] \in Pkts
    BY <1>1
  <2> QED
    BY <2>1, SubSeqProperties DEF FirstN
<1>4. AfterN(s, n) \in Seq(Pkts)
  <2>1. \A i \in (n + 1) .. Len(s) : s[i] \in Pkts
    BY <1>1
  <2>2. n + 1 \in Int /\ Len(s) \in Int
    BY <1>1
  <2> QED
    BY <2>1, <2>2, SubSeqProperties DEF AfterN
<1> QED
  BY <1>2, <1>3, <1>4, FirstNParts, AfterNParts

(* A burst into a ring, and out of one.                                     *)
LEMMA EnqueueKnown ==
  ASSUME NEW ring \in Seq(Pkts), Len(ring) <= RING_SIZE, NEW s \in Seq(Pkts)
  PROVE  \E ret \in 0 .. Len(s), first \in Seq(Pkts), rest \in Seq(Pkts) :
           /\ ret = Room(ring, Len(s)) /\ first = FirstN(s, ret) /\ rest = AfterN(s, ret)
           /\ Len(first) = ret /\ Len(rest) = Len(s) - ret
           /\ ring \o first \in Seq(Pkts) /\ Len(ring \o first) = Len(ring) + ret
<1>1. ring \in Seq(Nat) /\ Len(s) \in Nat
  BY PktsNumbers, LenProperties
<1>2. PICK ret \in 0 .. Len(s) : ret = Room(ring, Len(s))
  BY <1>1, RoomFits
<1>3. PICK first \in Seq(Pkts), rest \in Seq(Pkts) :
        first = FirstN(s, ret) /\ rest = AfterN(s, ret) /\ Len(first) = ret /\ Len(rest) = Len(s) - ret
  BY CutKnown
<1>4. ring \o first \in Seq(Pkts) /\ Len(ring \o first) = Len(ring) + Len(first)
  BY ConcatProperties
<1> QED
  BY <1>2, <1>3, <1>4

LEMMA DequeueKnown ==
  ASSUME NEW ring \in Seq(Pkts)
  PROVE  \E n \in 0 .. Len(ring), first \in Seq(Pkts), rest \in Seq(Pkts) :
           /\ n = Burst(ring) /\ first = FirstN(ring, n) /\ rest = AfterN(ring, n)
           /\ Len(first) = n /\ Len(rest) = Len(ring) - n
<1>1. PICK n \in 0 .. Len(ring) : n = Burst(ring)
  BY PktsNumbers, BurstFits
<1>2. PICK first \in Seq(Pkts), rest \in Seq(Pkts) :
        first = FirstN(ring, n) /\ rest = AfterN(ring, n) /\ Len(first) = n /\ Len(rest) = Len(ring) - n
  BY CutKnown
<1> QED
  BY <1>1, <1>2

LEMMA NextKnown ==
  ASSUME NEW s \in Seq(Pkts), s # << >>
  PROVE  s[1] \in Pkts /\ Tail(s) \in Seq(Pkts)
<1>1. s \in Seq(Nat)
  BY PktsNumbers
<1>2. Len(s) \in Nat \ {0}
  BY <1>1, TailParts
<1>3. s[1] \in Pkts
  BY <1>2, LenProperties
<1> QED
  BY <1>3, HeadTailProperties

(* The threads before send_thread.                                          *)
LEMMA RxKnown ==
  ASSUME AccountInv, Known, RxBurst
  PROVE  Known'
<1>1. MaxPkts \in Nat /\ MAX_PKTS_BURST \in Nat \ {0}
  BY OrderingAssumption
<1>2. PICK n \in Nat : n = seqn /\ n <= MaxPkts
  BY <1>1 DEF AccountInv, OrderInv, Queues
<1>3. PICK nb \in 1 .. Min({MAX_PKTS_BURST, MaxPkts - seqn}) : recv' = [i \in 1 .. nb |-> seqn + i - 1]
  BY DEF RxBurst
<1>4. nb \in Nat /\ n + nb <= MaxPkts
  <2>1. Min({MAX_PKTS_BURST, MaxPkts - n}) = IF MAX_PKTS_BURST <= MaxPkts - n THEN MAX_PKTS_BURST ELSE MaxPkts - n
    BY <1>1, MinOfTwo
  <2> QED
    BY <2>1, <1>1, <1>2, <1>3
<1>5. \A i \in 1 .. nb : n + i - 1 \in Pkts
  BY <1>1, <1>4 DEF Pkts
<1>6. recv' \in Seq(Pkts)
  BY <1>2, <1>3, <1>4, <1>5
<1>7. UNCHANGED <<rx_to_workers, workers_to_tx, burst, reorder, send, tx_buffer>>
  BY DEF RxBurst
<1> QED
  BY <1>6, <1>7 DEF Known

LEMMA RxEnqueueKnown ==
  ASSUME AccountInv, Known, RxEnqueue
  PROVE  Known'
<1>1. PICK s \in Seq(Pkts), ring \in Seq(Pkts) : s = recv /\ ring = rx_to_workers /\ Len(ring) <= RING_SIZE
  BY DEF Known, AccountInv, OrderInv, Queues
<1>2. PICK ret \in 0 .. Len(s), first \in Seq(Pkts) :
        ret = Room(ring, Len(s)) /\ first = FirstN(s, ret) /\ ring \o first \in Seq(Pkts)
  BY <1>1, EnqueueKnown
<1>3. rx_to_workers' = ring \o first /\ recv' = << >>
  BY <1>1, <1>2 DEF RxEnqueue
<1>4. UNCHANGED <<workers_to_tx, burst, reorder, send, tx_buffer>>
  BY DEF RxEnqueue
<1> QED
  BY <1>2, <1>3, <1>4 DEF Known

LEMMA WorkerKnown ==
  ASSUME AccountInv, Known, NEW w \in Workers, WorkerDequeue(w) \/ WorkerEnqueue(w)
  PROVE  Known'
<1>1. CASE WorkerDequeue(w)
  <2>1. PICK ring \in Seq(Pkts) : ring = rx_to_workers
    BY DEF Known
  <2>2. PICK n \in 0 .. Len(ring), first \in Seq(Pkts), rest \in Seq(Pkts) :
          n = Burst(ring) /\ first = FirstN(ring, n) /\ rest = AfterN(ring, n)
    BY DequeueKnown
  <2>3. /\ burst' = [burst EXCEPT ![w] = first] /\ rx_to_workers' = rest
        /\ UNCHANGED <<recv, workers_to_tx, reorder, send, tx_buffer>>
    BY <1>1, <2>1, <2>2 DEF WorkerDequeue
  <2> QED
    BY <2>3 DEF Known
<1>2. CASE WorkerEnqueue(w)
  <2>1. PICK s \in Seq(Pkts), ring \in Seq(Pkts) : s = burst[w] /\ ring = workers_to_tx /\ Len(ring) <= RING_SIZE
    BY DEF Known, AccountInv, OrderInv, Queues
  <2>2. PICK ret \in 0 .. Len(s), first \in Seq(Pkts) :
          ret = Room(ring, Len(s)) /\ first = FirstN(s, ret) /\ ring \o first \in Seq(Pkts)
    BY <2>1, EnqueueKnown
  <2>3. /\ workers_to_tx' = ring \o first /\ burst' = [burst EXCEPT ![w] = << >>]
        /\ UNCHANGED <<recv, rx_to_workers, reorder, send, tx_buffer>>
    BY <1>2, <2>1, <2>2 DEF WorkerEnqueue
  <2>4. << >> \in Seq(Pkts)
    OBVIOUS
  <2> QED
    BY <2>2, <2>3, <2>4 DEF Known
<1> QED
  BY <1>1, <1>2

(* send_thread.                                                             *)
LEMMA SendDequeueKnown ==
  ASSUME Known, SendDequeue
  PROVE  Known'
<1>1. PICK ring \in Seq(Pkts) : ring = workers_to_tx
  BY DEF Known
<1>2. PICK n \in 0 .. Len(ring), first \in Seq(Pkts), rest \in Seq(Pkts) :
        n = Burst(ring) /\ first = FirstN(ring, n) /\ rest = AfterN(ring, n)
  BY DequeueKnown
<1>3. /\ workers_to_tx' = rest /\ send'.pkts = first
      /\ UNCHANGED <<recv, rx_to_workers, burst, reorder, tx_buffer>>
  BY <1>1, <1>2 DEF SendDequeue
<1> QED
  BY <1>3 DEF Known

LEMMA InsertKnown ==
  ASSUME AccountInv, Known, Insert \/ InsertMoved
  PROVE  Known'
<1>1. send.pkts \in Seq(Pkts) /\ send.pkts # << >> /\ reorder \in Buffers /\ SendType
  BY DEF Known, AccountInv, Insert, InsertMoved, OrderInv, Window, SendType, Buffers
<1>2. PICK p \in Pkts : p = send.pkts[1] /\ Tail(send.pkts) \in Seq(Pkts)
  BY <1>1, NextKnown
<1>3. p \in Nat
  BY PktsNat
<1>4. PICK b \in Buffers : b = Started(reorder, p) /\ b.order = reorder.order /\ b.ready = reorder.ready
  BY <1>1, <1>3, StartedBuffer
<1>5. send'.pkts \in Seq(Pkts)
  <2>1. CASE Insert
    <3>1. send' = [send EXCEPT !.pkts = Tail(@)] \/ send' = [send EXCEPT !.pc = "overflow"]
      BY <2>1 DEF Insert
    <3> QED
      BY <3>1, <1>1, <1>2 DEF SendType
  <2>2. CASE InsertMoved
    <3>1. send' = [pc |-> "insert", pkts |-> Tail(send.pkts)]
      BY <2>2 DEF InsertMoved
    <3> QED
      BY <3>1, <1>2
  <2> QED
    BY <2>1, <2>2
<1>6. reorder' \in {b, Put(b, p), reorder, Put(reorder, p)}
  BY <1>2, <1>4 DEF Insert, InsertMoved
<1>7. reorder'.order \subseteq Pkts /\ reorder'.ready \in Seq(Pkts)
  <2>1. /\ Put(b, p).order = reorder.order \cup {p} /\ Put(b, p).ready = reorder.ready
        /\ Put(reorder, p).order = reorder.order \cup {p} /\ Put(reorder, p).ready = reorder.ready
    BY <1>1, <1>3, <1>4, PutBuffer
  <2>2. reorder.order \subseteq Pkts /\ reorder.ready \in Seq(Pkts)
    BY DEF Known
  <2> QED
    BY <2>1, <2>2, <1>4, <1>6
<1>8. UNCHANGED <<recv, rx_to_workers, workers_to_tx, burst, tx_buffer>>
  BY DEF Insert, InsertMoved
<1> QED
  BY <1>5, <1>7, <1>8 DEF Known

LEMMA OverflowKnown ==
  ASSUME AccountInv, Known, rte_reorder_fill_overflow
  PROVE  Known'
<1>1. reorder \in Buffers /\ reorder.order \subseteq Pkts /\ reorder.ready \in Seq(Pkts)
  BY DEF Known, AccountInv, OrderInv, SendType, Buffers
<1>2. reorder'.order \subseteq Pkts /\ reorder'.ready \in Seq(Pkts)
  <2>1. CASE Due(reorder) /\ reorder' = Take(reorder)
    <3>1. reorder'.order = reorder.order \ {reorder.min} /\ reorder'.ready = Append(reorder.ready, reorder.min)
      BY <2>1, <1>1, TakeBuffer
    <3>2. reorder.min \in Pkts
      BY <2>1, <1>1 DEF Due
    <3>3. Append(reorder.ready, reorder.min) \in Seq(Pkts)
      BY <3>2, <1>1, AppendProperties
    <3> QED
      BY <3>1, <3>3, <1>1
  <2>2. CASE reorder' = Skip(reorder)
    BY <2>2, <1>1, SkipBuffer
  <2> QED
    BY <2>1, <2>2 DEF rte_reorder_fill_overflow
<1>3. UNCHANGED <<recv, rx_to_workers, workers_to_tx, burst, send, tx_buffer>>
  BY DEF rte_reorder_fill_overflow
<1> QED
  BY <1>2, <1>3 DEF Known

LEMMA DrainKnown ==
  ASSUME AccountInv, Known, Drain
  PROVE  Known'
<1>1. reorder \in Buffers /\ reorder.order \subseteq Pkts /\ reorder.ready \in Seq(Pkts)
  BY DEF Known, AccountInv, OrderInv, SendType, Buffers
<1>2. /\ UNCHANGED <<recv, rx_to_workers, workers_to_tx, burst, tx_buffer>>
      /\ send'.pkts = Drained(reorder).out /\ reorder' = Drained(reorder).b
  BY DEF Drain
<1>3. \A q \in reorder.order : q \in reorder.min .. (reorder.min + REORDER_BUFFER_SIZE - 1)
  BY DEF AccountInv, OrderInv, Drain, Window
<1>4. PICK n \in 0 .. Len(reorder.ready), r \in Nat, run \in Seq(Nat) :
           /\ r = FromRun(reorder)
           /\ Consecutive(run, reorder.min, r)
           /\ Drained(reorder).out = FirstN(reorder.ready, n) \o run
           /\ Drained(reorder).b.order = reorder.order \ (reorder.min .. (reorder.min + r - 1))
           /\ Drained(reorder).b.ready = AfterN(reorder.ready, n)
  BY <1>1, <1>3, DrainedParts
<1>5. reorder.min .. (reorder.min + r - 1) \subseteq reorder.order
  <2>1. r <= Cardinality(Run(reorder))
    BY <1>1, <1>3, <1>4, RunCounts DEF Buffers
  <2> QED
    BY <2>1, <1>1, <1>3, RunInOrder
<1>6. run \in Seq(Pkts)
  <2>1. PICK m \in Nat : m = reorder.min
    BY <1>1 DEF Buffers
  <2>2. Len(run) = r /\ \A i \in 1 .. r : run[i] = m + (i - 1)
    BY <2>1, <1>4 DEF Consecutive
  <2>3. \A i \in 1 .. r : m + (i - 1) \in m .. (m + r - 1)
    OBVIOUS
  <2>4. \A i \in 1 .. r : run[i] \in Pkts
    BY <2>1, <2>2, <2>3, <1>1, <1>5
  <2>5. run \in [1 .. r -> Nat]
    BY <2>2, LenProperties
  <2>6. run \in [1 .. r -> Pkts]
    BY <2>4, <2>5
  <2> QED
    BY <2>6, IsASeq
<1>7. FirstN(reorder.ready, n) \in Seq(Pkts) /\ AfterN(reorder.ready, n) \in Seq(Pkts)
  BY <1>1, CutKnown
<1>8. FirstN(reorder.ready, n) \o run \in Seq(Pkts)
  BY <1>6, <1>7, ConcatProperties
<1> QED
  BY <1>1, <1>2, <1>4, <1>7, <1>8 DEF Known

LEMMA TransmitKnown ==
  ASSUME AccountInv, Known, Transmit
  PROVE  Known'
<1>1. send.pkts \in Seq(Pkts) /\ send.pkts # << >> /\ SendType /\ portmask \subseteq Ports
  BY DEF Known, AccountInv, Transmit, OrderInv
<1>2. PICK p \in Pkts : p = send.pkts[1] /\ Tail(send.pkts) \in Seq(Pkts)
  BY <1>1, NextKnown
<1>3. send'.pkts \in Seq(Pkts)
  BY <1>1, <1>2 DEF Transmit, SendType
<1>4. tx_buffer' \in [Ports -> Seq(Pkts)]
  <2>1. tx_buffer \in [Ports -> Seq(Pkts)]
    BY DEF Known
  <2>2. CASE UNCHANGED tx_buffer
    BY <2>1, <2>2
  <2>3. CASE port[p] \in portmask /\ tx_buffer' = [tx_buffer EXCEPT ![port[p]] = Append(tx_buffer[port[p]], p)]
    <3>1. Append(tx_buffer[port[p]], p) \in Seq(Pkts)
      BY <2>1, <2>3, <1>1, AppendProperties
    <3> QED
      BY <2>1, <2>3, <3>1
  <2>4. CASE tx_buffer' = [tx_buffer EXCEPT ![port[p]] = << >>]
    <3>1. << >> \in Seq(Pkts)
      OBVIOUS
    <3> QED
      BY <2>1, <2>4, <3>1
  <2> QED
    BY <2>2, <2>3, <2>4, <1>2 DEF Transmit
<1>5. UNCHANGED <<recv, rx_to_workers, workers_to_tx, burst, reorder>>
  BY DEF Transmit
<1> QED
  BY <1>3, <1>4, <1>5 DEF Known

LEMMA QuietKnown ==
  ASSUME AccountInv, Known, RxNone \/ SendLoop \/ signal_handler \/ UNCHANGED vars
  PROVE  Known'
<1>1. UNCHANGED PlaceVars
  BY DEF PlaceVars, RxNone, SendLoop, signal_handler, vars
<1>2. send'.pkts = send.pkts
  BY DEF RxNone, SendLoop, signal_handler, vars, AccountInv, OrderInv, SendType
<1> QED
  BY <1>1, <1>2 DEF Known, PlaceVars

LEMMA KnownNext == AccountInv /\ Known /\ [Next]_vars => Known'
  BY RxKnown, RxEnqueueKnown, WorkerKnown, SendDequeueKnown, InsertKnown, OverflowKnown, DrainKnown,
     TransmitKnown, QuietKnown DEF Next

-----------------------------------------------------------------------------
(* The counters agree with what is between the stages.                      *)

Counters == [rx : Nat, rx_enq : Nat, rx_fail : Nat, wkr_deq : Nat, wkr_enq : Nat, wkr_fail : Nat,
             tx_deq : Nat, ro_tx : Nat, ro_fail : Nat, early_tx : Nat, early_fail : Nat]

StatsInv == AccountInv /\ Known /\ stats \in Counters /\ StatsBalance

(* The counters that StatsBalance looks at, and what it says of them when   *)
(* the rings hold rx and tx packets, the workers held and the wires sent.   *)
Reads(st, enq, deq, wenq, fail, tdeq, ro) ==
    /\ st.rx_enq = enq /\ st.wkr_deq = deq /\ st.wkr_enq = wenq
    /\ st.wkr_fail = fail /\ st.tx_deq = tdeq /\ st.ro_tx = ro

Balance(enq, deq, wenq, fail, tdeq, ro, rx, tx, held, sent) ==
    enq = deq + rx /\ wenq = tdeq + tx /\ deq = wenq + fail + held /\ ro = sent

Between(rx, tx, held, sent) ==
    /\ rx = Len(rx_to_workers) /\ tx = Len(workers_to_tx)
    /\ held = Cardinality(Those(Workers, burst)) /\ sent = Cardinality(Those(Ports, wire))

LEMMA CountersRead ==
  ASSUME NEW st \in Counters
  PROVE  /\ st.rx \in Nat /\ st.rx_fail \in Nat /\ st.ro_fail \in Nat /\ st.early_tx \in Nat /\ st.early_fail \in Nat
         /\ \E enq, deq, wenq, fail, tdeq, ro \in Nat : Reads(st, enq, deq, wenq, fail, tdeq, ro)
<1>1. /\ st.rx \in Nat /\ st.rx_enq \in Nat /\ st.rx_fail \in Nat /\ st.wkr_deq \in Nat
      /\ st.wkr_enq \in Nat /\ st.wkr_fail \in Nat /\ st.tx_deq \in Nat /\ st.ro_tx \in Nat
      /\ st.ro_fail \in Nat /\ st.early_tx \in Nat /\ st.early_fail \in Nat
  BY DEF Counters
<1> QED
  BY <1>1 DEF Reads

LEMMA StatsBefore ==
  ASSUME StatsInv
  PROVE  \E enq, deq, wenq, fail, tdeq, ro, rx, tx, held, sent \in Nat :
           /\ Reads(stats, enq, deq, wenq, fail, tdeq, ro) /\ Between(rx, tx, held, sent)
           /\ Balance(enq, deq, wenq, fail, tdeq, ro, rx, tx, held, sent)
<1>1. PICK rx \in Nat, tx \in Nat : rx = Len(rx_to_workers) /\ tx = Len(workers_to_tx)
  BY LenProperties DEF StatsInv, Known
<1>2. PICK held \in Nat, sent \in Nat : held = Cardinality(Those(Workers, burst)) /\ sent = Cardinality(Those(Ports, wire))
  BY ThoseCount
<1>3. PICK enq, deq, wenq, fail, tdeq, ro \in Nat : Reads(stats, enq, deq, wenq, fail, tdeq, ro)
  BY CountersRead DEF StatsInv
<1>4. /\ stats.rx_enq = stats.wkr_deq + rx /\ stats.wkr_enq = stats.tx_deq + tx
      /\ stats.wkr_deq = stats.wkr_enq + stats.wkr_fail + held /\ stats.ro_tx = sent
  BY <1>1, <1>2 DEF StatsInv, StatsBalance, Those
<1>5. Balance(enq, deq, wenq, fail, tdeq, ro, rx, tx, held, sent)
  BY <1>3, <1>4, Zenon DEF Reads, Balance
<1>6. Between(rx, tx, held, sent)
  BY <1>1, <1>2 DEF Between
<1> QED
  BY <1>3, <1>5, <1>6

LEMMA StatsAfter ==
  ASSUME NEW enq, NEW deq, NEW wenq, NEW fail, NEW tdeq, NEW ro, NEW rx, NEW tx, NEW held, NEW sent,
         Reads(stats', enq, deq, wenq, fail, tdeq, ro), Between(rx, tx, held, sent)',
         Balance(enq, deq, wenq, fail, tdeq, ro, rx, tx, held, sent)
  PROVE  StatsBalance'
<1>1. /\ rx = Len(rx_to_workers') /\ tx = Len(workers_to_tx')
      /\ held = Cardinality({p \in Pkts : \E w \in Workers : In(burst'[w], p) > 0})
      /\ sent = Cardinality({p \in Pkts : \E o \in Ports : In(wire'[o], p) > 0})
  BY DEF Between, Those
<1>2. /\ stats'.rx_enq = stats'.wkr_deq + rx /\ stats'.wkr_enq = stats'.tx_deq + tx
      /\ stats'.wkr_deq = stats'.wkr_enq + stats'.wkr_fail + held /\ stats'.ro_tx = sent
  BY Zenon DEF Reads, Balance
<1> QED
  BY <1>1, <1>2 DEF StatsBalance

(* No packet is with two workers or twice on the wires.                     *)
LEMMA OneHolder ==
  ASSUME AccountInv
  PROVE  Once(Workers, burst) /\ Once(Ports, wire)
<1>1. ASSUME NEW p \in Pkts
      PROVE  /\ \A x \in Workers : In(burst[x], p) <= 1
             /\ \A x, y \in Workers : In(burst[x], p) > 0 /\ In(burst[y], p) > 0 => x = y
             /\ \A x \in Ports : In(wire[x], p) <= 1
             /\ \A x, y \in Ports : In(wire[x], p) > 0 /\ In(wire[y], p) > 0 => x = y
  <2>1. PICK a, b, c, d, e, f, g, h \in Nat :
          /\ Counts(p, a, b, c, d, e, f, g, h)
          /\ a + b + c + d + e + f + g + h = Received(p)
    BY CountBefore
  <2>2. PICK r \in {0, 1} : r = Received(p)
    BY ReceivedType
  <2>3. e <= 1 /\ g <= 1
    BY <2>1, <2>2
  <2>4. IsFiniteSet(HeldBy(p)) /\ Cardinality(HeldBy(p)) = e /\ IsFiniteSet(SentBy(p)) /\ Cardinality(SentBy(p)) = g
    BY <2>1, HolderSets DEF Counts, Held, Sent
  <2>5. Single(p)
    BY DEF AccountInv, Placed
  <2>6. \A x \in Ports : In(tx_buffer[x], p) \in Nat /\ In(wire[x], p) \in Nat
    BY PktsNat, LineType, InType DEF AccountInv, OrderInv
  <2>7. \A x, y \in Workers : In(burst[x], p) > 0 /\ In(burst[y], p) > 0 => x = y
    <3> SUFFICES ASSUME NEW x \in HeldBy(p), NEW y \in HeldBy(p)
                 PROVE  x = y
      BY DEF HeldBy
    <3> QED
      BY <2>3, <2>4, AtMostOne
  <2>8. \A x, y \in Ports : In(wire[x], p) > 0 /\ In(wire[y], p) > 0 => x = y
    <3> SUFFICES ASSUME NEW x \in Ports, NEW y \in Ports, In(wire[x], p) > 0, In(wire[y], p) > 0
                 PROVE  x = y
      OBVIOUS
    <3>1. x \in SentBy(p) /\ y \in SentBy(p)
      BY <2>6 DEF SentBy
    <3> QED
      BY <3>1, <2>3, <2>4, AtMostOne
  <2>9. \A x \in Ports : In(wire[x], p) <= 1
    <3> SUFFICES ASSUME NEW x \in Ports
                 PROVE  In(wire[x], p) <= 1
      OBVIOUS
    <3>1. In(tx_buffer[x], p) + In(wire[x], p) <= 1
      BY <2>5 DEF Single
    <3> QED
      BY <3>1, <2>6
  <2> QED
    BY <2>5, <2>7, <2>8, <2>9 DEF Single
<1> QED
  BY <1>1 DEF Once

(* The steps that move the counters.                                        *)
LEMMA RxStats ==
  ASSUME StatsInv, RxBurst
  PROVE  stats' \in Counters /\ StatsBalance'
<1>1. PICK enq, deq, wenq, fail, tdeq, ro, rx, tx, held, sent \in Nat :
        /\ Reads(stats, enq, deq, wenq, fail, tdeq, ro) /\ Between(rx, tx, held, sent)
        /\ Balance(enq, deq, wenq, fail, tdeq, ro, rx, tx, held, sent)
  BY StatsBefore
<1>2. stats \in Counters /\ AccountInv /\ Known
  BY DEF StatsInv
<1>3. PICK nb \in 1 .. Min({MAX_PKTS_BURST, MaxPkts - seqn}) : stats' = [stats EXCEPT !.rx = @ + nb]
  BY DEF RxBurst
<1>4. nb \in Nat
  <2>1. MAX_PKTS_BURST \in Int /\ MaxPkts - seqn \in Int
    BY <1>2, OrderingAssumption DEF AccountInv, OrderInv, Queues
  <2>2. Min({MAX_PKTS_BURST, MaxPkts - seqn}) \in Int
    BY <2>1, MinOfTwo
  <2> QED
    BY <2>2
<1>5. PICK a \in Nat : stats' = [stats EXCEPT !.rx = a]
  <2>1. PICK x \in Nat : x = stats.rx
    BY <1>2, CountersRead
  <2>2. PICK a \in Nat : a = x + nb
    BY <1>4
  <2>3. a = stats.rx + nb
    BY <2>1, <2>2
  <2> QED
    BY <2>3, <1>3, Zenon
<1>6. stats' \in Counters
  BY <1>2, <1>5 DEF Counters
<1>7. Reads(stats', enq, deq, wenq, fail, tdeq, ro)
  BY <1>1, <1>2, <1>5 DEF Counters, Reads
<1>8. Between(rx, tx, held, sent)'
  BY <1>1 DEF Between, RxBurst
<1> QED
  BY <1>1, <1>6, <1>7, <1>8, StatsAfter

LEMMA RxEnqueueStats ==
  ASSUME StatsInv, RxEnqueue
  PROVE  stats' \in Counters /\ StatsBalance'
<1>1. PICK enq, deq, wenq, fail, tdeq, ro, rx, tx, held, sent \in Nat :
        /\ Reads(stats, enq, deq, wenq, fail, tdeq, ro) /\ Between(rx, tx, held, sent)
        /\ Balance(enq, deq, wenq, fail, tdeq, ro, rx, tx, held, sent)
  BY StatsBefore
<1>2. stats \in Counters /\ AccountInv /\ Known
  BY DEF StatsInv
<1>3. PICK s \in Seq(Pkts), ring \in Seq(Pkts) : s = recv /\ ring = rx_to_workers /\ Len(ring) <= RING_SIZE
  BY <1>2 DEF Known, AccountInv, OrderInv, Queues
<1>4. PICK l \in Nat : l = Len(s)
  BY LenProperties
<1>5. PICK ret \in 0 .. l, first \in Seq(Pkts) :
        ret = Room(ring, l) /\ first = FirstN(s, ret) /\ Len(ring \o first) = Len(ring) + ret
  <2>1. \E n \in 0 .. Len(s), first \in Seq(Pkts), rest \in Seq(Pkts) :
           /\ n = Room(ring, Len(s)) /\ first = FirstN(s, n) /\ rest = AfterN(s, n)
           /\ Len(first) = n /\ Len(rest) = Len(s) - n
           /\ ring \o first \in Seq(Pkts) /\ Len(ring \o first) = Len(ring) + n
    BY <1>3, EnqueueKnown
  <2> QED
    BY <2>1, <1>4, Zenon
<1>6. PICK a \in Nat, b \in Nat : a = enq + ret /\ b = IF ret > 0 THEN stats.rx_fail + (l - ret) ELSE stats.rx_fail
  <2>1. PICK x \in Nat : x = stats.rx_fail
    BY <1>2, CountersRead
  <2>2. (IF ret > 0 THEN x + (l - ret) ELSE x) \in Nat /\ enq + ret \in Nat
    OBVIOUS
  <2> QED
    BY <2>1, <2>2
<1>7. stats' = [stats EXCEPT !.rx_enq = a, !.rx_fail = b]
  <2>1. stats' = [stats EXCEPT !.rx_enq = @ + ret, !.rx_fail = IF ret > 0 THEN @ + (l - ret) ELSE @]
    BY <1>3, <1>4, <1>5 DEF RxEnqueue
  <2>2. stats.rx_enq + ret = a
    BY <1>1, <1>6 DEF Reads
  <2> QED
    BY <2>1, <2>2, <1>6, Zenon
<1>8. stats' \in Counters
  BY <1>2, <1>7 DEF Counters
<1>9. Reads(stats', a, deq, wenq, fail, tdeq, ro)
  BY <1>1, <1>2, <1>7 DEF Counters, Reads
<1>10. Between(rx + ret, tx, held, sent)'
  <2>1. rx_to_workers' = ring \o first /\ UNCHANGED <<workers_to_tx, burst, wire>>
    BY <1>3, <1>4, <1>5 DEF RxEnqueue
  <2> QED
    BY <2>1, <1>1, <1>3, <1>5 DEF Between
<1>11. Balance(a, deq, wenq, fail, tdeq, ro, rx + ret, tx, held, sent)
  BY <1>1, <1>6 DEF Balance
<1> QED
  BY <1>8, <1>9, <1>10, <1>11, StatsAfter

LEMMA SendDequeueStats ==
  ASSUME StatsInv, SendDequeue
  PROVE  stats' \in Counters /\ StatsBalance'
<1>1. PICK enq, deq, wenq, fail, tdeq, ro, rx, tx, held, sent \in Nat :
        /\ Reads(stats, enq, deq, wenq, fail, tdeq, ro) /\ Between(rx, tx, held, sent)
        /\ Balance(enq, deq, wenq, fail, tdeq, ro, rx, tx, held, sent)
  BY StatsBefore
<1>2. stats \in Counters /\ AccountInv /\ Known
  BY DEF StatsInv
<1>3. PICK ring \in Seq(Pkts) : ring = workers_to_tx
  BY <1>2 DEF Known
<1>4. PICK l \in Nat : l = Len(ring)
  BY LenProperties
<1>5. PICK n \in 0 .. l, rest \in Seq(Pkts) : n = Burst(ring) /\ rest = AfterN(ring, n) /\ Len(rest) = l - n
  BY <1>4, DequeueKnown
<1>6. PICK a \in Nat : a = tdeq + n
  OBVIOUS
<1>7. stats' = [stats EXCEPT !.tx_deq = a]
  BY <1>1, <1>3, <1>5, <1>6 DEF SendDequeue, Reads
<1>8. stats' \in Counters
  BY <1>2, <1>7 DEF Counters
<1>9. Reads(stats', enq, deq, wenq, fail, a, ro)
  BY <1>1, <1>2, <1>7 DEF Counters, Reads
<1>10. Between(rx, tx - n, held, sent)'
  <2>1. workers_to_tx' = rest /\ UNCHANGED <<rx_to_workers, burst, wire>>
    BY <1>3, <1>5 DEF SendDequeue
  <2> QED
    BY <2>1, <1>1, <1>3, <1>4, <1>5 DEF Between
<1>11. Balance(enq, deq, wenq, fail, a, ro, rx, tx - n, held, sent)
  BY <1>1, <1>6 DEF Balance
<1> QED
  BY <1>8, <1>9, <1>10, <1>11, StatsAfter

LEMMA InsertStats ==
  ASSUME StatsInv, Insert
  PROVE  stats' \in Counters /\ StatsBalance'
<1>1. PICK enq, deq, wenq, fail, tdeq, ro, rx, tx, held, sent \in Nat :
        /\ Reads(stats, enq, deq, wenq, fail, tdeq, ro) /\ Between(rx, tx, held, sent)
        /\ Balance(enq, deq, wenq, fail, tdeq, ro, rx, tx, held, sent)
  BY StatsBefore
<1>2. stats \in Counters /\ AccountInv /\ Known
  BY DEF StatsInv
<1>3. PICK a \in Nat, b \in Nat : a = stats.early_fail + 1 /\ b = stats.early_tx + 1
  BY <1>2, CountersRead
<1>4. stats' = stats \/ stats' = [stats EXCEPT !.early_fail = a] \/ stats' = [stats EXCEPT !.early_tx = b]
  BY <1>3 DEF Insert, DirectTransmit
<1>5. stats' \in Counters
  BY <1>2, <1>4 DEF Counters
<1>6. Reads(stats', enq, deq, wenq, fail, tdeq, ro)
  BY <1>1, <1>2, <1>4 DEF Counters, Reads
<1>7. Between(rx, tx, held, sent)'
  BY <1>1 DEF Between, Insert
<1> QED
  BY <1>1, <1>5, <1>6, <1>7, StatsAfter

(* So it is after a step.                                                   *)
Apart == Once(Workers, burst) /\ Once(Ports, wire)

LEMMA OneHolderNext == AccountInv' => Once(Workers, burst') /\ Once(Ports, wire')
<1>1. AccountInv => Apart
  BY OneHolder DEF Apart
<1>2. AccountInv' => Apart'
  BY <1>1, PTL
<1> QED
  BY <1>2 DEF Apart

LEMMA WorkerDequeueStats ==
  ASSUME StatsInv, AccountInv', NEW w \in Workers, WorkerDequeue(w)
  PROVE  stats' \in Counters /\ StatsBalance'
<1>1. PICK enq, deq, wenq, fail, tdeq, ro, rx, tx, held, sent \in Nat :
        /\ Reads(stats, enq, deq, wenq, fail, tdeq, ro) /\ Between(rx, tx, held, sent)
        /\ Balance(enq, deq, wenq, fail, tdeq, ro, rx, tx, held, sent)
  BY StatsBefore
<1>2. stats \in Counters /\ AccountInv /\ Known
  BY DEF StatsInv
<1>3. PICK ring \in Seq(Pkts) : ring = rx_to_workers
  BY <1>2 DEF Known
<1>4. PICK l \in Nat : l = Len(ring)
  BY LenProperties
<1>5. PICK n \in 0 .. l, first \in Seq(Pkts), rest \in Seq(Pkts) :
        /\ n = Burst(ring) /\ first = FirstN(ring, n) /\ rest = AfterN(ring, n)
        /\ Len(first) = n /\ Len(rest) = l - n
  BY <1>4, DequeueKnown
<1>6. PICK a \in Nat : a = deq + n
  OBVIOUS
<1>7. stats' = [stats EXCEPT !.wkr_deq = a]
  BY <1>1, <1>3, <1>5, <1>6 DEF WorkerDequeue, Reads
<1>8. stats' \in Counters
  BY <1>2, <1>7 DEF Counters
<1>9. Reads(stats', enq, a, wenq, fail, tdeq, ro)
  BY <1>1, <1>2, <1>7 DEF Counters, Reads
<1>10. /\ burst' = [burst EXCEPT ![w] = first] /\ burst[w] = << >> /\ rx_to_workers' = rest
       /\ UNCHANGED <<workers_to_tx, wire>>
  BY <1>3, <1>5 DEF WorkerDequeue
<1>11. PICK f, g : f = burst /\ g = burst'
  OBVIOUS
<1>12. Adds(Workers, f, g, w, first)
  <2>1. f \in [Workers -> Seq(Pkts)] /\ f[w] = << >> /\ g = [f EXCEPT ![w] = first]
    BY <1>2, <1>10, <1>11 DEF Known
  <2>2. g[w] = first /\ \A x \in Workers : x # w => g[x] = f[x]
    BY <2>1
  <2>3. ASSUME NEW p \in Pkts
        PROVE  /\ In(g[w], p) = In(f[w], p) + In(first, p)
               /\ In(f[w], p) \in Nat /\ In(first, p) \in Nat
    <3>1. p \in Nat /\ first \in Seq(Nat)
      BY PktsNat, PktsNumbers
    <3>2. PICK k \in Nat : k = In(first, p)
      BY <3>1, InType
    <3>3. In(f[w], p) = 0
      BY <3>1, <2>1, InNone
    <3> QED
      BY <3>2, <3>3, <2>2
  <2> QED
    BY <2>2, <2>3 DEF Adds
<1>13. Once(Workers, g)
  BY <1>11, OneHolderNext
<1>14. Cardinality(Those(Workers, g)) = Cardinality(Those(Workers, f)) + Len(first)
  BY <1>12, <1>13, ThoseAdded
<1>15. Between(rx - n, tx, held + n, sent)'
  <2>1. Cardinality(Those(Workers, burst')) = held + n
    BY <1>1, <1>5, <1>11, <1>14 DEF Between
  <2>2. Len(rx_to_workers') = rx - n
    BY <1>1, <1>3, <1>4, <1>5, <1>10 DEF Between
  <2>3. Len(workers_to_tx') = tx /\ Cardinality(Those(Ports, wire')) = sent
    BY <1>1, <1>10 DEF Between
  <2> QED
    BY <2>1, <2>2, <2>3 DEF Between
<1>16. Balance(enq, a, wenq, fail, tdeq, ro, rx - n, tx, held + n, sent)
  BY <1>1, <1>6 DEF Balance
<1> QED
  BY <1>8, <1>9, <1>15, <1>16, StatsAfter

(* Of the l packets a worker held, ret are handed on and the rest dropped.  *)
LEMMA HandedOn ==
  ASSUME NEW enq \in Nat, NEW deq \in Nat, NEW wenq \in Nat, NEW fail \in Nat, NEW tdeq \in Nat, NEW ro,
         NEW rx \in Nat, NEW tx \in Nat, NEW held \in Nat, NEW sent, NEW h \in Nat, NEW l \in Nat,
         NEW ret \in 0 .. l, NEW a, NEW b, a = wenq + ret, b = fail + (l - ret), held = h + l,
         Balance(enq, deq, wenq, fail, tdeq, ro, rx, tx, held, sent)
  PROVE  Balance(enq, deq, a, b, tdeq, ro, rx, tx + ret, h, sent)
  BY DEF Balance

LEMMA WorkerEnqueueStats ==
  ASSUME StatsInv, NEW w \in Workers, WorkerEnqueue(w)
  PROVE  stats' \in Counters /\ StatsBalance'
<1>1. PICK enq, deq, wenq, fail, tdeq, ro, rx, tx, held, sent \in Nat :
        /\ Reads(stats, enq, deq, wenq, fail, tdeq, ro) /\ Between(rx, tx, held, sent)
        /\ Balance(enq, deq, wenq, fail, tdeq, ro, rx, tx, held, sent)
  BY StatsBefore
<1>2. stats \in Counters /\ AccountInv /\ Known
  BY DEF StatsInv
<1>3. PICK s \in Seq(Pkts), ring \in Seq(Pkts) : s = burst[w] /\ ring = workers_to_tx /\ Len(ring) <= RING_SIZE
  BY <1>2 DEF Known, AccountInv, OrderInv, Queues
<1>4. PICK l \in Nat : l = Len(s)
  BY LenProperties
<1>5. PICK ret \in 0 .. l, first \in Seq(Pkts) :
        ret = Room(ring, l) /\ first = FirstN(s, ret) /\ Len(ring \o first) = Len(ring) + ret
  <2>1. \E n \in 0 .. Len(s), first \in Seq(Pkts), rest \in Seq(Pkts) :
           /\ n = Room(ring, Len(s)) /\ first = FirstN(s, n) /\ rest = AfterN(s, n)
           /\ Len(first) = n /\ Len(rest) = Len(s) - n
           /\ ring \o first \in Seq(Pkts) /\ Len(ring \o first) = Len(ring) + n
    BY <1>3, EnqueueKnown
  <2> QED
    BY <2>1, <1>4, Zenon
<1>6. PICK a \in Nat, b \in Nat : a = wenq + ret /\ b = fail + (l - ret)
  OBVIOUS
<1>7. stats' = [stats EXCEPT !.wkr_enq = a, !.wkr_fail = b]
  <2>1. stats' = [stats EXCEPT !.wkr_enq = @ + ret, !.wkr_fail = @ + (l - ret)]
    BY <1>3, <1>4, <1>5 DEF WorkerEnqueue
  <2>2. stats.wkr_enq + ret = a /\ stats.wkr_fail + (l - ret) = b
    BY <1>1, <1>6 DEF Reads
  <2> QED
    BY <2>1, <2>2, Zenon
<1>8. stats' \in Counters
  BY <1>2, <1>7 DEF Counters
<1>9. Reads(stats', enq, deq, a, b, tdeq, ro)
  BY <1>1, <1>2, <1>7 DEF Counters, Reads
<1>10. /\ burst' = [burst EXCEPT ![w] = << >>] /\ workers_to_tx' = ring \o first
       /\ UNCHANGED <<rx_to_workers, wire>>
  BY <1>3, <1>4, <1>5 DEF WorkerEnqueue
<1>11. PICK f, g : f = burst' /\ g = burst
  OBVIOUS
<1>12. Adds(Workers, f, g, w, s)
  <2>1. g \in [Workers -> Seq(Pkts)] /\ g[w] = s /\ f = [g EXCEPT ![w] = << >>]
    BY <1>2, <1>3, <1>10, <1>11 DEF Known
  <2>2. f[w] = << >> /\ \A x \in Workers : x # w => g[x] = f[x]
    BY <2>1
  <2>3. ASSUME NEW p \in Pkts
        PROVE  /\ In(g[w], p) = In(f[w], p) + In(s, p)
               /\ In(f[w], p) \in Nat /\ In(s, p) \in Nat
    <3>1. p \in Nat /\ s \in Seq(Nat)
      BY PktsNat, PktsNumbers
    <3>2. PICK k \in Nat : k = In(s, p)
      BY <3>1, InType
    <3>3. In(f[w], p) = 0
      BY <3>1, <2>2, InNone
    <3> QED
      BY <3>2, <3>3, <2>1
  <2> QED
    BY <2>2, <2>3 DEF Adds
<1>13. Once(Workers, g)
  BY <1>2, <1>11, OneHolder
<1>14. /\ Cardinality(Those(Workers, f)) \in Nat
       /\ Cardinality(Those(Workers, g)) = Cardinality(Those(Workers, f)) + Len(s)
  BY <1>12, <1>13, ThoseAdded
<1>15. PICK h \in Nat : h = Cardinality(Those(Workers, burst')) /\ held = h + l
  BY <1>1, <1>4, <1>11, <1>14 DEF Between
<1>16. Between(rx, tx + ret, h, sent)'
  BY <1>1, <1>3, <1>5, <1>10, <1>15 DEF Between
<1>17. Balance(enq, deq, a, b, tdeq, ro, rx, tx + ret, h, sent)
  <2>1. Balance(enq, deq, wenq, fail, tdeq, ro, rx, tx, held, sent) /\ held = h + l
    BY <1>1, <1>15
  <2>2. ret \in 0 .. l /\ a = wenq + ret /\ b = fail + (l - ret)
    BY <1>6
  <2> QED
    BY <2>1, <2>2, HandedOn
<1> QED
  BY <1>8, <1>9, <1>16, <1>17, StatsAfter

(* The flush puts what the driver took on the wire of the port.             *)
LEMMA TransmitStats ==
  ASSUME StatsInv, AccountInv', Transmit
  PROVE  stats' \in Counters /\ StatsBalance'
<1>1. PICK enq, deq, wenq, fail, tdeq, ro, rx, tx, held, sent \in Nat :
        /\ Reads(stats, enq, deq, wenq, fail, tdeq, ro) /\ Between(rx, tx, held, sent)
        /\ Balance(enq, deq, wenq, fail, tdeq, ro, rx, tx, held, sent)
  BY StatsBefore
<1>2. stats \in Counters /\ AccountInv /\ Known
  BY DEF StatsInv
<1>3. UNCHANGED <<rx_to_workers, workers_to_tx, burst>>
  BY DEF Transmit
<1>4. CASE UNCHANGED <<wire, stats>>
  <2>1. Between(rx, tx, held, sent)'
    BY <1>1, <1>3, <1>4 DEF Between
  <2>2. stats' \in Counters /\ Reads(stats', enq, deq, wenq, fail, tdeq, ro)
    BY <1>1, <1>2, <1>4
  <2> QED
    BY <2>1, <2>2, <1>1, StatsAfter
<1>5. PICK q \in Pkts : q = send.pkts[1]
  <2>1. send.pkts \in Seq(Pkts) /\ send.pkts # << >>
    BY <1>2 DEF Known, Transmit
  <2> QED
    BY <2>1, NextKnown
<1>6. ASSUME NEW o \in Ports, NEW buffered \in Seq(Pkts), NEW k \in 0 .. Len(buffered),
             wire' = [wire EXCEPT ![o] = @ \o FirstN(buffered, k)],
             stats' = [stats EXCEPT !.ro_tx = @ + k, !.ro_fail = @ + (Len(buffered) - k)]
      PROVE  stats' \in Counters /\ StatsBalance'
  <2>1. PICK l \in Nat : l = Len(buffered)
    BY LenProperties
  <2>2. PICK a \in Nat, b \in Nat : a = ro + k /\ b = stats.ro_fail + (l - k)
    <3>1. PICK x \in Nat : x = stats.ro_fail
      BY <1>2, CountersRead
    <3>2. x + (l - k) \in Nat /\ ro + k \in Nat
      BY <2>1
    <3> QED
      BY <3>1, <3>2
  <2>3. stats' = [stats EXCEPT !.ro_tx = a, !.ro_fail = b]
    <3>1. stats.ro_tx + k = a
      BY <2>2, <1>1 DEF Reads
    <3> QED
      BY <3>1, <2>1, <2>2, <1>6, Zenon
  <2>4. stats' \in Counters
    BY <1>2, <2>3 DEF Counters
  <2>5. Reads(stats', enq, deq, wenq, fail, tdeq, a)
    BY <1>1, <1>2, <2>3 DEF Counters, Reads
  <2>6. PICK first \in Seq(Pkts) : first = FirstN(buffered, k) /\ Len(first) = k
    BY CutKnown
  <2>7. PICK f, g : f = wire /\ g = wire'
    OBVIOUS
  <2>8. f \in [Ports -> Seq(Nat)] /\ g = [f EXCEPT ![o] = f[o] \o first]
    BY <2>6, <2>7, <1>2, <1>6 DEF AccountInv, OrderInv, SendType
  <2>9. Adds(Ports, f, g, o, first)
    <3>1. g[o] = f[o] \o first /\ f[o] \in Seq(Nat) /\ \A x \in Ports : x # o => g[x] = f[x]
      BY <2>8
    <3>2. ASSUME NEW p \in Pkts
          PROVE  /\ In(g[o], p) = In(f[o], p) + In(first, p)
                 /\ In(f[o], p) \in Nat /\ In(first, p) \in Nat
      <4>1. p \in Nat /\ first \in Seq(Nat)
        BY PktsNat, PktsNumbers
      <4>2. In(f[o], p) \in Nat /\ In(first, p) \in Nat
        BY <3>1, <4>1, InType
      <4>3. In(f[o] \o first, p) = In(f[o], p) + In(first, p)
        BY <3>1, <4>1, InConcat
      <4> QED
        BY <3>1, <4>2, <4>3
    <3> QED
      BY <3>1, <3>2 DEF Adds
  <2>10. Once(Ports, g)
    BY <2>7, OneHolderNext
  <2>11. Cardinality(Those(Ports, g)) = Cardinality(Those(Ports, f)) + Len(first)
    BY <2>9, <2>10, ThoseAdded
  <2>12. Between(rx, tx, held, sent + k)'
    BY <2>6, <2>7, <2>11, <1>1, <1>3 DEF Between
  <2>13. Balance(enq, deq, wenq, fail, tdeq, a, rx, tx, held, sent + k)
    BY <1>1, <2>2 DEF Balance
  <2> QED
    BY <2>4, <2>5, <2>12, <2>13, StatsAfter
<1>7. CASE /\ port[q] \in portmask
           /\ \E k \in 0 .. Len(Append(tx_buffer[port[q]], q)) :
                /\ wire' = [wire EXCEPT ![port[q]] = @ \o FirstN(Append(tx_buffer[port[q]], q), k)]
                /\ stats' = [stats EXCEPT !.ro_tx = @ + k, !.ro_fail = @ + (Len(Append(tx_buffer[port[q]], q)) - k)]
  <2>1. PICK o \in Ports : o = port[q]
    BY <1>2, <1>7 DEF AccountInv, OrderInv
  <2>2. PICK buffered \in Seq(Pkts) : buffered = Append(tx_buffer[o], q)
    <3>1. tx_buffer[o] \in Seq(Pkts)
      BY <1>2 DEF Known
    <3> QED
      BY <3>1, AppendProperties
  <2>3. PICK k \in 0 .. Len(buffered) :
          /\ wire' = [wire EXCEPT ![o] = @ \o FirstN(buffered, k)]
          /\ stats' = [stats EXCEPT !.ro_tx = @ + k, !.ro_fail = @ + (Len(buffered) - k)]
    BY <2>1, <2>2, <1>7
  <2> QED
    BY <2>3, <1>6
<1> QED
  BY <1>4, <1>5, <1>7 DEF Transmit

LEMMA StatsNext == StatsInv /\ [Next]_vars => StatsInv'
<1> SUFFICES ASSUME StatsInv, [Next]_vars
             PROVE  StatsInv'
  OBVIOUS
<1>1. AccountInv' /\ Known'
  BY AccountNext, KnownNext DEF StatsInv
<1>2. CASE UNCHANGED <<rx_to_workers, workers_to_tx, burst, wire, stats>>
  <2>1. stats' \in Counters
    BY <1>2 DEF StatsInv
  <2>2. StatsBalance'
    BY <1>2 DEF StatsInv, StatsBalance
  <2> QED
    BY <2>1, <2>2, <1>1 DEF StatsInv
<1>3. CASE RxBurst \/ RxEnqueue \/ SendDequeue \/ Insert \/ Transmit
  <2>1. stats' \in Counters /\ StatsBalance'
    BY <1>1, <1>3, RxStats, RxEnqueueStats, SendDequeueStats, InsertStats, TransmitStats
  <2> QED
    BY <2>1, <1>1 DEF StatsInv
<1>4. CASE \E w \in Workers : WorkerDequeue(w) \/ WorkerEnqueue(w)
  <2>1. stats' \in Counters /\ StatsBalance'
    BY <1>1, <1>4, WorkerDequeueStats, WorkerEnqueueStats
  <2> QED
    BY <2>1, <1>1 DEF StatsInv
<1>5. CASE RxNone \/ rte_reorder_fill_overflow \/ InsertMoved \/ Drain \/ SendLoop \/ signal_handler \/ UNCHANGED vars
  BY <1>2, <1>5 DEF RxNone, rte_reorder_fill_overflow, InsertMoved, Drain, SendLoop, signal_handler, vars
<1> QED
  BY <1>3, <1>4, <1>5 DEF Next

LEMMA StatsInit == Init => StatsInv
<1> SUFFICES ASSUME Init
             PROVE  StatsInv
  OBVIOUS
<1>1. AccountInv
  BY AccountInit
<1>2. Known
  <2>1. << >> \in Seq(Pkts)
    OBVIOUS
  <2> QED
    BY <2>1 DEF Init, Known, NoBuffer
<1>3. stats \in Counters
  BY DEF Init, Counters
<1>4. Those(Workers, burst) = {} /\ Those(Ports, wire) = {}
  <2>1. \A p \in Pkts : In(<< >>, p) = 0
    BY PktsNat, InNone
  <2>2. (\A w \in Workers : burst[w] = << >>) /\ (\A o \in Ports : wire[o] = << >>)
    BY DEF Init
  <2> QED
    BY <2>1, <2>2 DEF Those
<1>5. Cardinality(Those(Workers, burst)) = 0 /\ Cardinality(Those(Ports, wire)) = 0
  BY <1>4, FS_EmptySet
<1>6. StatsBalance
  BY <1>5 DEF Init, StatsBalance, Those
<1> QED
  BY <1>1, <1>2, <1>3, <1>6 DEF StatsInv

(* What print_stats shows agrees stage by stage with what is still between  *)
(* the stages: no thread counts a packet it did not move, and none is moved *)
(* uncounted, whatever the rings and the driver refuse.                     *)
THEOREM OrderingStats == Spec => []StatsBalance
<1>1. Init => StatsInv
  BY StatsInit
<1>2. StatsInv /\ [Next]_vars => StatsInv'
  BY StatsNext
<1>3. StatsInv => StatsBalance
  BY DEF StatsInv
<1> QED
  BY <1>1, <1>2, <1>3, PTL DEF Spec

-----------------------------------------------------------------------------
(* The packets that send_thread loses are those it counts as transmitted    *)
(* early.                                                                   *)

StrayInv ==
    /\ astray \in SUBSET Pkts
    /\ stats.early_tx = Cardinality(astray)
    /\ disable_reorder => astray = {}

EarlyKept == UNCHANGED <<astray, disable_reorder>> /\ stats'.early_tx = stats.early_tx

(* The next packet of send_thread was never given up before.                *)
LEMMA NextNotAstray ==
  ASSUME AccountInv, Known, send.pkts # << >>
  PROVE  send.pkts[1] \in Pkts \ astray
<1>1. PICK s \in Seq(Pkts) : s = send.pkts /\ s # << >>
  BY DEF Known
<1>2. PICK q \in Pkts : q = s[1]
  BY <1>1
<1>3. PICK a, b, c, d, e, f, g, h \in Nat :
        /\ Counts(q, a, b, c, d, e, f, g, h)
        /\ a + b + c + d + e + f + g + h = Received(q)
  BY CountBefore
<1>4. q \in Nat /\ s \in Seq(Nat)
  BY PktsNat, PktsNumbers
<1>5. PICK k \in {0, 1}, d1 \in Nat :
        k = One(s[1] = q) /\ d1 = In(Tail(s), q) /\ In(s, q) = k + d1 /\ (k = 1 <=> s[1] = q)
  <2>1. s # << >>
    BY <1>1
  <2> QED
    BY ONLY <1>4, <2>1, NextLeaves
<1>6. k = 1 /\ d = 1 + d1
  BY <1>1, <1>2, <1>3, <1>5 DEF Counts
<1>7. PICK r \in {0, 1} : r = Received(q)
  BY ReceivedType
<1>8. h = 0
  BY <1>3, <1>6, <1>7
<1>9. One(q \in astray) + freed[q] = 0 /\ freed[q] \in Nat
  BY <1>3, <1>8 DEF Counts, Gone, AccountInv
<1>10. q \notin astray
  BY <1>9 DEF One
<1> QED
  BY <1>1, <1>2, <1>10

LEMMA StrayKept == StrayInv /\ EarlyKept => StrayInv'
  BY DEF StrayInv, EarlyKept

LEMMA StrayInsert ==
  ASSUME StatsInv, StrayInv, Insert
  PROVE  StrayInv'
<1>1. PICK q \in Pkts \ astray : q = send.pkts[1]
  BY NextNotAstray DEF StatsInv, Insert
<1>2. ~disable_reorder /\ UNCHANGED disable_reorder
  BY DEF StatsInv, AccountInv, OrderInv, Insert, args
<1>3. PICK early \in Nat : early = stats.early_tx
  BY CountersRead DEF StatsInv
<1>4. stats \in Counters
  BY DEF StatsInv
<1>5. CASE UNCHANGED astray /\ (UNCHANGED stats \/ stats' = [stats EXCEPT !.early_fail = @ + 1])
  <2>1. stats'.early_tx = stats.early_tx
    BY <1>4, <1>5 DEF Counters
  <2> QED
    BY <2>1, <1>2, <1>5, StrayKept DEF EarlyKept
<1>6. CASE astray' = astray \cup {q} /\ stats' = [stats EXCEPT !.early_tx = @ + 1]
  <2>1. stats'.early_tx = early + 1
    BY <1>3, <1>4, <1>6 DEF Counters
  <2>2. IsFiniteSet(astray)
    BY PktsFinite, FS_Subset DEF StrayInv
  <2>3. Cardinality(astray \cup {q}) = Cardinality(astray) + 1
    BY <1>1, <2>2, FS_AddElement
  <2>4. Cardinality(astray) = early
    BY <1>3 DEF StrayInv
  <2>5. stats'.early_tx = Cardinality(astray') /\ astray' \in SUBSET Pkts
    BY <2>1, <2>3, <2>4, <1>1, <1>6 DEF StrayInv
  <2> QED
    BY <2>5, <1>2 DEF StrayInv
<1> QED
  BY <1>1, <1>5, <1>6 DEF Insert, DirectTransmit

LEMMA StrayNext == StatsInv /\ StrayInv /\ [Next]_vars => StrayInv'
<1> SUFFICES ASSUME StatsInv, StrayInv, [Next]_vars
             PROVE  StrayInv'
  OBVIOUS
<1>1. stats \in Counters
  BY DEF StatsInv
<1>2. CASE RxBurst
  <2>1. UNCHANGED <<astray, disable_reorder>>
    BY <1>2 DEF RxBurst, args
  <2>2. PICK n : stats' = [stats EXCEPT !.rx = n]
    BY <1>2 DEF RxBurst
  <2>3. stats'.early_tx = stats.early_tx
    BY <2>2, <1>1 DEF Counters
  <2> QED
    BY <2>1, <2>3, StrayKept DEF EarlyKept
<1>3. CASE RxEnqueue
  <2>1. UNCHANGED <<astray, disable_reorder>>
    BY <1>3 DEF RxEnqueue, args
  <2>2. PICK m, n : /\ m = stats.rx_enq + Room(rx_to_workers, Len(recv))
                    /\ stats' = [stats EXCEPT !.rx_enq = m, !.rx_fail = n]
    BY <1>3, Zenon DEF RxEnqueue
  <2>3. stats'.early_tx = stats.early_tx
    BY <2>2, <1>1 DEF Counters
  <2> QED
    BY <2>1, <2>3, StrayKept DEF EarlyKept
<1>4. ASSUME NEW w \in Workers, WorkerDequeue(w)
      PROVE  StrayInv'
  <2>1. UNCHANGED <<astray, disable_reorder>>
    BY <1>4 DEF WorkerDequeue, args
  <2>2. PICK n : stats' = [stats EXCEPT !.wkr_deq = n]
    BY <1>4 DEF WorkerDequeue
  <2>3. stats'.early_tx = stats.early_tx
    BY <2>2, <1>1 DEF Counters
  <2> QED
    BY <2>1, <2>3, StrayKept DEF EarlyKept
<1>5. ASSUME NEW w \in Workers, WorkerEnqueue(w)
      PROVE  StrayInv'
  <2>1. UNCHANGED <<astray, disable_reorder>>
    BY <1>5 DEF WorkerEnqueue, args
  <2>2. PICK m, n : /\ m = stats.wkr_enq + Room(workers_to_tx, Len(burst[w]))
                    /\ stats' = [stats EXCEPT !.wkr_enq = m, !.wkr_fail = n]
    BY <1>5, Zenon DEF WorkerEnqueue
  <2>3. stats'.early_tx = stats.early_tx
    BY <2>2, <1>1 DEF Counters
  <2> QED
    BY <2>1, <2>3, StrayKept DEF EarlyKept
<1>6. CASE SendDequeue
  <2>1. UNCHANGED <<astray, disable_reorder>>
    BY <1>6 DEF SendDequeue, args
  <2>2. PICK n : stats' = [stats EXCEPT !.tx_deq = n]
    BY <1>6, Zenon DEF SendDequeue
  <2>3. stats'.early_tx = stats.early_tx
    BY <2>2, <1>1 DEF Counters
  <2> QED
    BY <2>1, <2>3, StrayKept DEF EarlyKept
<1>7. CASE Transmit
  <2>1. UNCHANGED <<astray, args>>
    BY <1>7, Zenon DEF Transmit
  <2>2. CASE UNCHANGED stats
    BY <2>1, <2>2, StrayKept DEF EarlyKept, args
  <2>3. PICK q : q = send.pkts[1]
    OBVIOUS
  <2>4. CASE \E k \in 0 .. Len(Append(tx_buffer[port[q]], q)) :
               stats' = [stats EXCEPT !.ro_tx = @ + k, !.ro_fail = @ + (Len(Append(tx_buffer[port[q]], q)) - k)]
    <3>1. PICK buffered : buffered = Append(tx_buffer[port[q]], q)
      OBVIOUS
    <3>2. PICK k \in 0 .. Len(buffered) :
            stats' = [stats EXCEPT !.ro_tx = @ + k, !.ro_fail = @ + (Len(buffered) - k)]
      BY <2>4, <3>1, Zenon
    <3>3. PICK m, n : m = stats.ro_tx + k /\ n = stats.ro_fail + (Len(buffered) - k)
      OBVIOUS
    <3>4. stats' = [stats EXCEPT !.ro_tx = m, !.ro_fail = n]
      BY <3>2, <3>3, Zenon
    <3>5. stats'.early_tx = stats.early_tx
      BY <3>4, <1>1 DEF Counters
    <3> QED
      BY <2>1, <3>5, StrayKept DEF EarlyKept, args
  <2> QED
    BY <2>2, <2>3, <2>4, <1>7, Zenon DEF Transmit
<1>8. CASE Insert
  BY <1>8, StrayInsert
<1>9. CASE RxNone \/ rte_reorder_fill_overflow \/ InsertMoved \/ Drain \/ SendLoop \/ signal_handler \/ UNCHANGED vars
  BY <1>9, StrayKept
     DEF EarlyKept, RxNone, rte_reorder_fill_overflow, InsertMoved, Drain, SendLoop, signal_handler, vars, args
<1> QED
  BY <1>2, <1>3, <1>4, <1>5, <1>6, <1>7, <1>8, <1>9 DEF Next

(* The places of a packet that was received, without those lost.            *)
LEMMA PlacesCount ==
  ASSUME AccountInv, NEW p \in 0 .. (seqn - 1)
  PROVE  Places(p) = IF p \in astray THEN 0 ELSE 1
<1>1. MaxPkts \in Nat /\ seqn \in 0 .. MaxPkts
  BY OrderingAssumption DEF AccountInv, OrderInv, Queues
<1>2. p \in Pkts /\ Received(p) = 1
  BY <1>1 DEF Pkts, Received, One
<1>3. PICK a, b, c, d, e, f, g, h \in Nat :
        /\ Counts(p, a, b, c, d, e, f, g, h)
        /\ a + b + c + d + e + f + g + h = Received(p)
  BY <1>2, CountBefore
<1>4. PICK f1 \in Nat, f2 \in Nat, h1 \in {0, 1}, h2 \in Nat :
        /\ f1 = One(p \in reorder.order) /\ f2 = In(reorder.ready, p)
        /\ h1 = One(p \in astray) /\ h2 = freed[p]
  <2>1. In(reorder.ready, p) \in Nat /\ freed[p] \in Nat
    BY <1>2, TermTypes DEF AccountInv
  <2>2. One(p \in reorder.order) \in Nat /\ One(p \in astray) \in {0, 1}
    BY DEF One
  <2> QED
    BY <2>1, <2>2
<1>5. f = f1 + f2 /\ h = h1 + h2
  BY <1>3, <1>4 DEF Counts, Waits, Gone
<1>6. a + b + c + d + e + f1 + f2 + g + h2 = 1 - h1
  BY <1>2, <1>3, <1>5
<1>7. /\ a = In(recv, p) /\ b = In(rx_to_workers, p) /\ c = In(workers_to_tx, p) /\ d = In(send.pkts, p)
      /\ e = Cardinality({w \in Workers : In(burst[w], p) > 0})
      /\ g = Cardinality({o \in Ports : In(tx_buffer[o], p) + In(wire[o], p) > 0})
  BY <1>3 DEF Counts, Held, HeldBy, Sent, SentBy
<1>8. Places(p) = a + b + c + d + e + f1 + f2 + g + h2
  BY <1>4, <1>7, Zenon DEF Places
<1>9. 1 - h1 = IF p \in astray THEN 0 ELSE 1
  BY <1>4 DEF One
<1> QED
  BY <1>6, <1>8, <1>9

(* Whichever ring is full, whoever comes first, wherever the window moves   *)
(* and whatever the driver takes: every packet received is in one place of  *)
(* the pipeline, or was sent or freed, and that once, or it is one of those *)
(* the stray call of send_thread lost, which are as many as print_stats     *)
(* shows as early packets transmitted, and none with --disable-reorder.     *)
THEOREM OrderingAccounted == Spec => []PacketAccounted
<1>1. Init => StatsInv /\ StrayInv
  <2> SUFFICES ASSUME Init
               PROVE  StrayInv
    BY StatsInit
  <2> QED
    BY FS_EmptySet DEF Init, StrayInv
<1>2. StatsInv /\ StrayInv /\ [Next]_vars => (StatsInv /\ StrayInv)'
  BY StatsNext, StrayNext
<1>3. ASSUME StatsInv, StrayInv
      PROVE  PacketAccounted
  <2>1. AccountInv
    BY <1>3 DEF StatsInv
  <2>2. ASSUME NEW p \in 0 .. (seqn - 1)
        PROVE  /\ Places(p) = IF p \in astray THEN 0 ELSE 1
               /\ \A w \in Workers : In(burst[w], p) <= 1
               /\ \A o \in Ports : In(tx_buffer[o], p) + In(wire[o], p) <= 1
    <3>1. MaxPkts \in Nat /\ seqn \in 0 .. MaxPkts
      BY <2>1, OrderingAssumption DEF AccountInv, OrderInv, Queues
    <3>2. Single(p)
      BY <2>1, <3>1 DEF Pkts, AccountInv, Placed
    <3>3. Places(p) = IF p \in astray THEN 0 ELSE 1
      BY <2>1, PlacesCount
    <3> QED
      BY <3>2, <3>3 DEF Single
  <2> QED
    BY <2>2, <1>3 DEF PacketAccounted, StrayInv
<1> QED
  BY <1>1, <1>2, <1>3, PTL DEF Spec
=============================================================================

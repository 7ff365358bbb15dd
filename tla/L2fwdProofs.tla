---------------------------- MODULE L2fwdProofs ----------------------------
(***************************************************************************)
(* Proofs about L2fwd: the tables that main builds, for every mask, every  *)
(* set of enabled lcores and every number of queues, and the forwarding    *)
(* loop while the ports are all given to one lcore (with two that poll,    *)
(* the array they share makes it go wrong).  At the end, the iterators of  *)
(* Lcore, by which its lcores are launched and waited for.                 *)
(***************************************************************************)
EXTENDS L2fwd, Lcore, FiniteSetTheorems, SequenceTheorems, WellFoundedInduction, TLAPS

-----------------------------------------------------------------------------
(* Numbers and sets of them.                                                *)

LEMMA LeastNat ==
  ASSUME NEW T \in SUBSET Nat, T # {}
  PROVE  \E n \in T : \A k \in T : n <= k
<1> DEFINE Less == {x \in Nat \X Nat : x[1] < x[2]}
<1>1. IsWellFoundedOn(Less, Nat)
  BY NatLessThanWellFounded DEF OpToRel
<1>2. PICK n \in T : \A k \in T : ~(<<k, n>> \in Less)
  BY <1>1, WFMin
<1>3. ASSUME NEW k \in T PROVE n <= k
  <2>1. n \in Nat /\ k \in Nat /\ <<k, n>> \notin Less
    BY <1>2
  <2> QED
    BY <2>1
<1> QED
  BY <1>3

(* A set with 0 and, with each number below N, the next has all up to N.    *)
LEMMA UpTo ==
  ASSUME NEW N \in Nat, NEW T, 0 \in T, \A n \in 0 .. (N - 1) : n \in T => n + 1 \in T
  PROVE  0 .. N \subseteq T
<1>1. SUFFICES ASSUME (0 .. N) \ T # {} PROVE FALSE
  OBVIOUS
<1> DEFINE U == (0 .. N) \ T
<1>2. PICK n \in U : \A k \in U : n <= k
  <2>1. U \in SUBSET Nat /\ U # {}
    BY <1>1
  <2> HIDE DEF U
  <2> QED
    BY <2>1, LeastNat
<1>3. n - 1 \in 0 .. (N - 1) /\ n - 1 \in T /\ (n - 1) + 1 = n
  BY <1>2
<1> QED
  BY <1>2, <1>3

(* A function of 0 .. N may be defined by recursion.                        *)
Recursive(V, N) ==
  \A base \in V : \A step \in [V \X (0 .. (N - 1)) -> V] :
    \E f \in [0 .. N -> V] : f[0] = base /\ \A n \in 0 .. (N - 1) : f[n + 1] = step[<<f[n], n>>]

LEMMA Recursion == \A V : \A N \in Nat : Recursive(V, N)
<1> SUFFICES ASSUME NEW V, NEW N \in Nat PROVE Recursive(V, N)
  OBVIOUS
<1> SUFFICES ASSUME NEW base \in V, NEW step \in [V \X (0 .. (N - 1)) -> V]
             PROVE  \E f \in [0 .. N -> V] :
                      f[0] = base /\ \A n \in 0 .. (N - 1) : f[n + 1] = step[<<f[n], n>>]
  BY DEF Recursive
<1> DEFINE Part(m, f) == /\ f \in [0 .. m -> V] /\ f[0] = base
                         /\ \A n \in 0 .. (m - 1) : f[n + 1] = step[<<f[n], n>>]
           T == {m \in Nat : \E f : Part(m, f)}
<1>1. 0 \in T
  <2>1. Part(0, [n \in 0 .. 0 |-> base])
    OBVIOUS
  <2> QED
    BY <2>1
<1>2. ASSUME NEW m \in 0 .. (N - 1), m \in T PROVE m + 1 \in T
  <2>1. PICK f : Part(m, f)
    BY <1>2
  <2> DEFINE g == [n \in 0 .. (m + 1) |-> IF n = m + 1 THEN step[<<f[m], m>>] ELSE f[n]]
  <2>2. f \in [0 .. m -> V] /\ f[m] \in V /\ step[<<f[m], m>>] \in V /\ f[0] = base
    BY <2>1
  <2>3. g \in [0 .. (m + 1) -> V] /\ g[0] = base
    BY <2>2
  <2>4. ASSUME NEW n \in 0 .. ((m + 1) - 1) PROVE g[n + 1] = step[<<g[n], n>>]
    <3>1. n \in 0 .. (m + 1) /\ n + 1 \in 0 .. (m + 1) /\ n # m + 1
      OBVIOUS
    <3>2. CASE n = m
      BY <3>1, <3>2
    <3>3. CASE n \in 0 .. (m - 1)
      BY <2>1, <3>1, <3>3
    <3> QED
      BY <3>2, <3>3
  <2>5. Part(m + 1, g)
    <3> HIDE DEF g
    <3> QED
      BY <2>3, <2>4
  <2> HIDE DEF Part, g
  <2> QED
    BY <2>5
<1>3. N \in T
  <2> HIDE DEF T
  <2>1. 0 .. N \subseteq T
    BY <1>1, <1>2, UpTo
  <2> QED
    BY <2>1
<1> QED
  BY <1>3

LEMMA LeastOf ==
  ASSUME NEW T \in SUBSET Nat, T # {}
  PROVE  Min(T) \in T
  BY LeastNat DEF Min

LEMMA Consts ==
  /\ NbPorts \in Nat \ {0} /\ RTE_MAX_LCORE \in Nat \ {0} /\ MAX_PKT_BURST \in Nat \ {0}
  /\ DrainTicks \in Nat /\ MaxRx \in Nat /\ Enabled \subseteq Lcores /\ Lcores \subseteq Nat
  /\ Ports \subseteq Nat /\ 0 \in Ports
  BY L2fwdAssumption DEF Lcores, Ports

-----------------------------------------------------------------------------
(* The pairs of ports.                                                      *)

Pairings == [dst : [Ports -> Ports], last : Ports, n : Nat]

Below(mask, p) == {q \in mask : q < p}

(* The port that waits for a partner.                                       *)
Single(s) == IF s.n % 2 = 1 THEN {s.last} ELSE {}

(* The ports below p that are paired name each other.                       *)
Paired(mask, s, p) ==
  /\ Single(s) \subseteq Below(mask, p)
  /\ \A q \in Below(mask, p) \ Single(s) :
       s.dst[q] \in Below(mask, p) \ Single(s) /\ s.dst[s.dst[q]] = q

LEMMA PairPortType ==
  ASSUME NEW mask \in SUBSET Ports, NEW s \in Pairings, NEW p \in Ports
  PROVE  PairPort(mask, s, p) \in Pairings
<1>1. s.dst \in [Ports -> Ports] /\ s.last \in Ports /\ s.n \in Nat /\ s.n + 1 \in Nat
  BY DEF Pairings
<1> DEFINE d == [s.dst EXCEPT ![p] = s.last, ![s.last] = p]
<1>3. PairPort(mask, s, p) =
        IF p \notin mask THEN s
        ELSE IF s.n % 2 = 1 THEN [s EXCEPT !.dst = d, !.n = @ + 1]
        ELSE [s EXCEPT !.last = p, !.n = @ + 1]
  BY DEF PairPort
<1>4. d \in [Ports -> Ports]
  BY <1>1
<1> HIDE DEF d
<1>5. [s EXCEPT !.dst = d, !.n = @ + 1] \in Pairings
  BY <1>1, <1>4 DEF Pairings
<1>6. [s EXCEPT !.last = p, !.n = @ + 1] \in Pairings
  BY <1>1 DEF Pairings
<1> QED
  BY <1>3, <1>5, <1>6

LEMMA PairPortPairs ==
  ASSUME NEW mask \in SUBSET Ports, NEW s \in Pairings, NEW p \in Ports, Paired(mask, s, p)
  PROVE  Paired(mask, PairPort(mask, s, p), p + 1)
<1> DEFINE t == PairPort(mask, s, p)
<1>1. mask \subseteq Nat /\ p \in Nat /\ s.dst \in [Ports -> Ports] /\ s.last \in Ports /\ s.n \in Nat
  BY Consts DEF Pairings
<1>2. ASSUME p \notin mask PROVE Paired(mask, t, p + 1)
  <2>1. Below(mask, p + 1) = Below(mask, p) /\ t = s
    BY <1>1, <1>2 DEF Below, PairPort
  <2> HIDE DEF t
  <2> QED
    BY <2>1 DEF Paired
<1>3. ASSUME p \in mask, s.n % 2 = 1 PROVE Paired(mask, t, p + 1)
  <2>1. /\ t.dst = [s.dst EXCEPT ![p] = s.last, ![s.last] = p] /\ t.n % 2 = 0
    BY <1>1, <1>3 DEF PairPort, Pairings
  <2>2. Single(t) = {} /\ Single(s) = {s.last}
    BY <2>1, <1>3 DEF Single
  <2>3. Below(mask, p + 1) = Below(mask, p) \cup {p} /\ p \notin Below(mask, p) /\ s.last \in Below(mask, p)
    <3>1. \A q \in mask : q < p + 1 <=> q < p \/ q = p
      BY <1>1
    <3>2. ~(p < p)
      BY <1>1
    <3> QED
      BY <1>3, <2>2, <3>1, <3>2 DEF Below, Paired
  <2>4. t.dst[p] = s.last /\ t.dst[s.last] = p
    BY <1>1, <2>1, <2>3
  <2>5. \A q \in Ports \ {p, s.last} : t.dst[q] = s.dst[q]
    BY <1>1, <2>1
  <2>6. Below(mask, p) \subseteq Ports
    BY DEF Below
  <2> HIDE DEF t
  <2> QED
    BY <2>2, <2>3, <2>4, <2>5, <2>6 DEF Paired
<1>4. ASSUME p \in mask, s.n % 2 # 1 PROVE Paired(mask, t, p + 1)
  <2>1. t.dst = s.dst /\ t.last = p /\ t.n % 2 = 1
    BY <1>1, <1>4 DEF PairPort, Pairings
  <2>2. Single(t) = {p} /\ Single(s) = {}
    BY <2>1, <1>4 DEF Single
  <2>3. Below(mask, p + 1) = Below(mask, p) \cup {p} /\ p \notin Below(mask, p)
    <3>1. \A q \in mask : q < p + 1 <=> q < p \/ q = p
      BY <1>1
    <3>2. ~(p < p)
      BY <1>1
    <3> QED
      BY <1>4, <3>1, <3>2 DEF Below
  <2> HIDE DEF t
  <2> QED
    BY <2>1, <2>2, <2>3 DEF Paired
<1> QED
  BY <1>2, <1>3, <1>4

(* main pairs the ports of the mask, the odd one out with itself.           *)
LEMMA PairingSwaps ==
  ASSUME NEW mask \in SUBSET Ports
  PROVE  /\ Pairing(mask) \in [Ports -> Ports]
         /\ \A q \in mask : Pairing(mask)[q] \in mask /\ Pairing(mask)[Pairing(mask)[q]] = q
<1> DEFINE Is(at) == at = [p \in 0 .. NbPorts |-> IF p = 0 THEN Unpaired ELSE PairPort(mask, at[p - 1], p - 1)]
           at0 == CHOOSE at : Is(at)
           step == [x \in Pairings \X (0 .. (NbPorts - 1)) |-> PairPort(mask, x[1], x[2])]
           end == at0[NbPorts]
<1>1. step \in [Pairings \X (0 .. (NbPorts - 1)) -> Pairings]
  BY PairPortType DEF Ports
<1>2. Unpaired \in Pairings
  BY Consts DEF Unpaired, Pairings
<1>3. PICK f \in [0 .. NbPorts -> Pairings] :
             f[0] = Unpaired /\ \A p \in 0 .. (NbPorts - 1) : f[p + 1] = step[<<f[p], p>>]
  <2> HIDE DEF step
  <2>1. Recursive(Pairings, NbPorts)
    BY Consts, Recursion
  <2> QED
    BY ONLY <1>1, <1>2, <2>1 DEF Recursive
<1>4. Is(f)
  <2>1. ASSUME NEW p \in 0 .. NbPorts
        PROVE  f[p] = IF p = 0 THEN Unpaired ELSE PairPort(mask, f[p - 1], p - 1)
    <3>1. CASE p = 0
      BY <1>3, <3>1
    <3>2. CASE p # 0
      <4>1. p - 1 \in 0 .. (NbPorts - 1) /\ (p - 1) + 1 = p /\ f[p - 1] \in Pairings
        BY <1>3, <3>2, Consts
      <4>2. f[p] = step[<<f[p - 1], p - 1>>]
        BY <1>3, <4>1
      <4> QED
        BY <3>2, <4>1, <4>2
    <3> QED
      BY <3>1, <3>2
  <2>2. f = [p \in 0 .. NbPorts |-> f[p]]
    BY <1>3
  <2> QED
    BY <2>1, <2>2
<1>5. Is(at0)
  BY <1>4
<1> HIDE DEF at0
<1>6. at0[0] = Unpaired /\ \A p \in Ports : at0[p + 1] = PairPort(mask, at0[p], p)
  <2>1. 0 \in 0 .. NbPorts /\ \A p \in Ports : p + 1 \in 0 .. NbPorts /\ p + 1 # 0 /\ (p + 1) - 1 = p
    BY Consts DEF Ports
  <2> QED
    BY <1>5, <2>1
<1> DEFINE T == {p \in 0 .. NbPorts : at0[p] \in Pairings /\ Paired(mask, at0[p], p)}
<1>7. 0 \in T
  <2>1. Below(mask, 0) = {}
    <3>1. \A q \in mask : ~(q < 0)
      BY Consts
    <3> QED
      BY <3>1 DEF Below
  <2>2. Single(Unpaired) = {}
    BY DEF Single, Unpaired
  <2> QED
    BY <1>2, <1>6, <2>1, <2>2, Consts DEF Paired
<1>8. ASSUME NEW p \in 0 .. (NbPorts - 1), p \in T PROVE p + 1 \in T
  <2>1. p \in Ports /\ p + 1 \in 0 .. NbPorts
    BY Consts DEF Ports
  <2> QED
    BY <1>6, <1>8, <2>1, PairPortType, PairPortPairs
<1>9. NbPorts \in T
  <2> HIDE DEF T
  <2>1. 0 .. NbPorts \subseteq T
    BY <1>7, <1>8, Consts, UpTo
  <2> QED
    BY <2>1, Consts
<1>10. end \in Pairings /\ Paired(mask, end, NbPorts)
  BY <1>9
<1>11. Below(mask, NbPorts) = mask
  <2>1. \A q \in mask : q < NbPorts
    BY Consts DEF Ports
  <2> QED
    BY <2>1 DEF Below
<1>12. Pairing(mask) = IF end.n % 2 = 1 THEN [end.dst EXCEPT ![end.last] = end.last] ELSE end.dst
  BY DEF Pairing, at0
<1> HIDE DEF end
<1>13. CASE end.n % 2 = 1
  <2>1. Single(end) = {end.last} /\ end.dst \in [Ports -> Ports] /\ end.last \in mask
    BY <1>10, <1>11, <1>13 DEF Single, Paired, Pairings
  <2>2. \A q \in mask \ {end.last} : end.dst[q] \in mask \ {end.last} /\ end.dst[end.dst[q]] = q
    BY <1>10, <1>11, <2>1 DEF Paired
  <2> DEFINE d == [end.dst EXCEPT ![end.last] = end.last]
  <2>3. d \in [Ports -> Ports] /\ d[end.last] = end.last /\ \A q \in Ports \ {end.last} : d[q] = end.dst[q]
    BY <2>1
  <2>4. Pairing(mask) = d
    BY <1>12, <1>13
  <2> HIDE DEF d
  <2> QED
    BY <2>2, <2>3, <2>4
<1>14. CASE end.n % 2 # 1
  <2>1. Single(end) = {} /\ end.dst \in [Ports -> Ports]
    BY <1>10, <1>14 DEF Single, Pairings
  <2> QED
    BY <1>10, <1>11, <1>12, <1>14, <2>1 DEF Paired
<1> QED
  BY <1>13, <1>14

-----------------------------------------------------------------------------
(* The ports of each lcore.                                                 *)

Assignments == [q : [Lcores -> Seq(Ports)], lc : Nat, fail : BOOLEAN]

(* The ports below p are given to enabled lcores, each to one, once.        *)
Given(mask, en, s, p) ==
  /\ \A k \in Lcores : \A x \in 1 .. Len(s.q[k]) : s.q[k][x] \in Below(mask, p) /\ k \in en
  /\ ~s.fail => \A r \in Below(mask, p) : \E k \in en : \E x \in 1 .. Len(s.q[k]) : s.q[k][x] = r
  /\ \A k, l \in Lcores : \A x \in 1 .. Len(s.q[k]), y \in 1 .. Len(s.q[l]) :
       s.q[k][x] = s.q[l][y] => k = l /\ x = y

LEMMA SeqParts ==
  ASSUME NEW S, NEW s \in Seq(S)
  PROVE  Len(s) \in Nat /\ DOMAIN s = 1 .. Len(s) /\ \A x \in 1 .. Len(s) : s[x] \in S
  BY LenProperties, ElementOfSeq

LEMMA AppendParts ==
  ASSUME NEW S, NEW s \in Seq(S), NEW a \in S
  PROVE  /\ Append(s, a) \in Seq(S) /\ Len(Append(s, a)) = Len(s) + 1
         /\ Append(s, a)[Len(s) + 1] = a /\ \A x \in 1 .. Len(s) : Append(s, a)[x] = s[x]
  BY AppendProperties

LEMMA AssignPortGives ==
  ASSUME NEW mask \in SUBSET Ports, NEW en \in SUBSET Lcores, NEW per, NEW s \in Assignments,
         NEW p \in Ports, Given(mask, en, s, p)
  PROVE  LET t == AssignPort(mask, en, per, s, p) IN t \in Assignments /\ Given(mask, en, t, p + 1)
<1> DEFINE takers == Takers(s.q, s.lc, en, per)
           t == AssignPort(mask, en, per, s, p)
<1>1. mask \subseteq Nat /\ p \in Nat /\ s.q \in [Lcores -> Seq(Ports)] /\ s.lc \in Nat /\ s.fail \in BOOLEAN
  BY Consts DEF Assignments
<1>2. \A q \in mask : q < p + 1 <=> q < p \/ q = p
  BY <1>1
<1>3. Below(mask, p) \subseteq Below(mask, p + 1) /\ p \notin Below(mask, p)
  <2>1. ~(p < p)
    BY <1>1
  <2> QED
    BY <1>2, <2>1 DEF Below
<1>4. ASSUME p \notin mask \/ s.fail PROVE t \in Assignments /\ Given(mask, en, t, p + 1)
  <2>1. t = s
    BY <1>4 DEF AssignPort
  <2>2. ~s.fail => Below(mask, p + 1) = Below(mask, p)
    BY <1>2, <1>4 DEF Below
  <2> HIDE DEF t
  <2> QED
    BY <2>1, <2>2, <1>3 DEF Given
<1>5. ASSUME p \in mask, ~s.fail, takers = {} PROVE t \in Assignments /\ Given(mask, en, t, p + 1)
  <2>1. t = [s EXCEPT !.fail = TRUE]
    BY <1>5 DEF AssignPort
  <2>2. t \in Assignments /\ t.q = s.q /\ t.fail
    BY <1>1, <2>1 DEF Assignments
  <2> HIDE DEF t
  <2> QED
    BY <2>2, <1>3 DEF Given
<1>6. ASSUME p \in mask, ~s.fail, takers # {} PROVE t \in Assignments /\ Given(mask, en, t, p + 1)
  <2> DEFINE c == Min(takers)
             u == Append(s.q[c], p)
             q2 == [s.q EXCEPT ![c] = u]
  <2>1. takers \subseteq en /\ takers \subseteq Nat
    BY Consts DEF Takers
  <2>2. c \in en /\ c \in Lcores /\ c \in Nat
    <3> HIDE DEF takers
    <3> QED
      BY <2>1, <1>6, LeastOf, Consts
  <2>3. t = [s EXCEPT !.q[c] = u, !.lc = c]
    BY <1>6 DEF AssignPort
  <2> HIDE DEF c
  <2>4. s.q[c] \in Seq(Ports) /\ Len(s.q[c]) \in Nat
    BY <1>1, <2>2, SeqParts
  <2>5. /\ u \in Seq(Ports) /\ Len(u) = Len(s.q[c]) + 1 /\ u[Len(s.q[c]) + 1] = p
        /\ \A x \in 1 .. Len(s.q[c]) : u[x] = s.q[c][x]
    BY <2>4, AppendParts
  <2> HIDE DEF u
  <2>6. q2 \in [Lcores -> Seq(Ports)] /\ q2[c] = u /\ \A k \in Lcores \ {c} : q2[k] = s.q[k]
    BY <1>1, <2>2, <2>5
  <2>7. t.q = q2 /\ t.lc = c /\ t.fail = s.fail
    BY <2>3, <1>1 DEF Assignments
  <2>8. t = [s EXCEPT !.q = q2, !.lc = c]
    BY <2>3
  <2> HIDE DEF t, q2
  <2>9. t \in Assignments
    BY <2>2, <2>6, <2>8 DEF Assignments
  <2>10. Below(mask, p + 1) = Below(mask, p) \cup {p}
    BY <1>2, <1>6 DEF Below
  <2>11. \A x \in 1 .. Len(u) : x \in 1 .. Len(s.q[c]) \/ x = Len(s.q[c]) + 1
    BY <2>4, <2>5
  <2>12. 1 .. Len(s.q[c]) \subseteq 1 .. Len(u) /\ Len(s.q[c]) + 1 \in 1 .. Len(u)
    BY <2>4, <2>5
  <2>13. \A k \in Lcores : \A x \in 1 .. Len(q2[k]) :
           \/ x \in 1 .. Len(s.q[k]) /\ q2[k][x] = s.q[k][x] /\ q2[k][x] \in Below(mask, p) /\ k \in en
           \/ k = c /\ x = Len(s.q[c]) + 1 /\ q2[k][x] = p
    BY <2>5, <2>6, <2>11 DEF Given
  <2>14. \A k \in Lcores : \A x \in 1 .. Len(q2[k]) : q2[k][x] \in Below(mask, p + 1) /\ k \in en
    BY <2>2, <2>10, <2>13
  <2>15. ASSUME NEW r \in Below(mask, p + 1) PROVE \E k \in en : \E x \in 1 .. Len(q2[k]) : q2[k][x] = r
    <3>1. CASE r = p
      BY <2>2, <2>5, <2>6, <2>12, <3>1
    <3>2. CASE r \in Below(mask, p)
      <4>1. PICK k \in en : \E x \in 1 .. Len(s.q[k]) : s.q[k][x] = r
        BY <1>6, <3>2 DEF Given
      <4>2. CASE k = c
        BY <4>1, <4>2, <2>5, <2>6, <2>12
      <4>3. CASE k # c
        BY <4>1, <4>3, <2>6
      <4> QED
        BY <4>2, <4>3
    <3> QED
      BY <2>10, <3>1, <3>2
  <2>16. \A k, l \in Lcores : \A x \in 1 .. Len(q2[k]), y \in 1 .. Len(q2[l]) :
           q2[k][x] = q2[l][y] => k = l /\ x = y
    BY <2>13, <1>3 DEF Given
  <2> QED
    BY <2>7, <2>9, <2>14, <2>15, <2>16 DEF Given
<1> QED
  BY <1>4, <1>5, <1>6

(* Unless main gives up, each port of the mask is in the queue of one       *)
(* enabled lcore, once.                                                     *)
LEMMA AssignmentGives ==
  ASSUME NEW mask \in SUBSET Ports, NEW en \in SUBSET Lcores, NEW per
  PROVE  LET s == Assignment(mask, en, per) IN s \in Assignments /\ Given(mask, en, s, NbPorts)
<1> DEFINE Is(at) == at = [p \in 0 .. NbPorts |->
                             IF p = 0 THEN Unassigned ELSE AssignPort(mask, en, per, at[p - 1], p - 1)]
           at0 == CHOOSE at : Is(at)
           Step(s, p) == IF Given(mask, en, s, p) THEN AssignPort(mask, en, per, s, p) ELSE Unassigned
           step == [x \in Assignments \X (0 .. (NbPorts - 1)) |-> Step(x[1], x[2])]
<1>1. Unassigned \in Assignments /\ Given(mask, en, Unassigned, 0)
  <2>1. \A q \in mask : ~(q < 0)
    BY Consts
  <2>2. << >> \in Seq(Ports) /\ Len(<< >>) = 0
    OBVIOUS
  <2> QED
    BY <2>1, <2>2 DEF Given, Below, Unassigned, Assignments
<1>2. step \in [Assignments \X (0 .. (NbPorts - 1)) -> Assignments]
  <2>1. ASSUME NEW s \in Assignments, NEW p \in 0 .. (NbPorts - 1) PROVE Step(s, p) \in Assignments
    <3>1. p \in Ports
      BY DEF Ports
    <3> QED
      BY <3>1, <1>1, AssignPortGives
  <2> HIDE DEF Step
  <2> QED
    BY <2>1
<1>3. PICK f \in [0 .. NbPorts -> Assignments] :
             f[0] = Unassigned /\ \A p \in 0 .. (NbPorts - 1) : f[p + 1] = step[<<f[p], p>>]
  <2> HIDE DEF step
  <2>1. NbPorts \in Nat /\ Unassigned \in Assignments
    BY <1>1, Consts
  <2>2. Recursive(Assignments, NbPorts)
    BY <2>1, Recursion
  <2> QED
    BY ONLY <1>2, <2>1, <2>2 DEF Recursive
<1>4. \A p \in 0 .. (NbPorts - 1) : f[p] \in Assignments /\ f[p + 1] = Step(f[p], p)
  <2> HIDE DEF Step
  <2>1. \A p \in 0 .. (NbPorts - 1) : p \in 0 .. NbPorts
    BY Consts
  <2> QED
    BY <1>3, <2>1
<1> HIDE DEF step
<1> DEFINE T == {p \in 0 .. NbPorts : Given(mask, en, f[p], p)}
<1>5. 0 .. NbPorts \subseteq T
  <2>1. 0 \in T
    BY <1>1, <1>3, Consts
  <2>2. ASSUME NEW p \in 0 .. (NbPorts - 1), p \in T PROVE p + 1 \in T
    <3>1. p \in Ports /\ p + 1 \in 0 .. NbPorts
      BY Consts DEF Ports
    <3> QED
      BY <1>4, <2>2, <3>1, AssignPortGives
  <2> HIDE DEF T
  <2> QED
    BY <2>1, <2>2, Consts, UpTo
<1>6. \A p \in 0 .. (NbPorts - 1) : f[p + 1] = AssignPort(mask, en, per, f[p], p)
  <2>1. \A p \in 0 .. (NbPorts - 1) : p \in 0 .. NbPorts
    BY Consts
  <2> QED
    BY <1>4, <1>5, <2>1
<1>7. Is(f)
  <2>1. ASSUME NEW p \in 0 .. NbPorts
        PROVE  f[p] = IF p = 0 THEN Unassigned ELSE AssignPort(mask, en, per, f[p - 1], p - 1)
    <3>1. CASE p = 0
      BY <1>3, <3>1
    <3>2. CASE p # 0
      <4>1. p - 1 \in 0 .. (NbPorts - 1) /\ (p - 1) + 1 = p
        BY <3>2, Consts
      <4> QED
        BY <1>6, <3>2, <4>1
    <3> QED
      BY <3>1, <3>2
  <2>2. f = [p \in 0 .. NbPorts |-> f[p]]
    BY <1>3
  <2> QED
    BY <2>1, <2>2
<1>8. Is(at0)
  BY <1>7
<1> DEFINE E == {p \in 0 .. NbPorts : at0[p] = f[p]}
<1>9. 0 .. NbPorts \subseteq E
  <2> HIDE DEF at0
  <2>1. 0 \in E
    BY <1>3, <1>8, Consts
  <2>2. ASSUME NEW p \in 0 .. (NbPorts - 1), p \in E PROVE p + 1 \in E
    <3>1. p + 1 \in 0 .. NbPorts /\ p + 1 # 0 /\ (p + 1) - 1 = p
      BY Consts
    <3>2. at0[p + 1] = AssignPort(mask, en, per, at0[p], p)
      BY <1>8, <3>1
    <3> QED
      BY <1>6, <2>2, <3>1, <3>2
  <2> HIDE DEF E
  <2> QED
    BY <2>1, <2>2, Consts, UpTo
<1>10. Assignment(mask, en, per) = at0[NbPorts]
  BY DEF Assignment, at0
<1> HIDE DEF at0
<1>11. NbPorts \in 0 .. NbPorts
  BY Consts
<1>12. Assignment(mask, en, per) = f[NbPorts] /\ f[NbPorts] \in Assignments /\ Given(mask, en, f[NbPorts], NbPorts)
  BY <1>3, <1>5, <1>9, <1>10, <1>11
<1> QED
  BY <1>12

LEMMA AssignmentSplits ==
  ASSUME NEW mask \in SUBSET Ports, NEW en \in SUBSET Lcores, NEW per, ~Assignment(mask, en, per).fail
  PROVE  LET q == Assignment(mask, en, per).q IN
         /\ \A k \in Lcores : Range(q[k]) \subseteq mask
         /\ \A r \in mask : \E k \in en : r \in Range(q[k])
         /\ \A k, l \in en : k # l => Range(q[k]) \cap Range(q[l]) = {}
<1>1. PICK s : s = Assignment(mask, en, per)
  OBVIOUS
<1>2. s \in Assignments /\ Given(mask, en, s, NbPorts) /\ ~s.fail
  BY <1>1, AssignmentGives
<1>3. Below(mask, NbPorts) = mask
  <2>1. \A q \in mask : q < NbPorts
    BY Consts DEF Ports
  <2> QED
    BY <2>1 DEF Below
<1>4. \A k \in Lcores : \A r : r \in Range(s.q[k]) <=> \E x \in 1 .. Len(s.q[k]) : s.q[k][x] = r
  <2>1. \A k \in Lcores : DOMAIN s.q[k] = 1 .. Len(s.q[k])
    BY <1>2, SeqParts DEF Assignments
  <2> QED
    BY <2>1 DEF Range
<1>5. \A k \in Lcores : Range(s.q[k]) \subseteq mask
  BY <1>2, <1>3, <1>4 DEF Given
<1>6. \A r \in mask : \E k \in en : r \in Range(s.q[k])
  BY <1>2, <1>3, <1>4 DEF Given
<1>7. \A k, l \in en : k # l => Range(s.q[k]) \cap Range(s.q[l]) = {}
  <2>1. SUFFICES ASSUME NEW k \in en, NEW l \in en, NEW r \in Range(s.q[k]), r \in Range(s.q[l]) PROVE k = l
    OBVIOUS
  <2>2. k \in Lcores /\ l \in Lcores
    OBVIOUS
  <2>3. PICK x \in 1 .. Len(s.q[k]), y \in 1 .. Len(s.q[l]) : s.q[k][x] = r /\ s.q[l][y] = r
    BY <1>4, <2>1, <2>2
  <2> QED
    BY <1>2, <2>2, <2>3 DEF Given
<1> QED
  BY <1>1, <1>5, <1>6, <1>7

TablesInv == portmask \in SUBSET Ports /\ dst_ports = Pairing(portmask)

LEMMA TablesKept == [Next]_vars => UNCHANGED Tables
  BY DEF Next, vars, Tables, l2fwd_main_loop, EnterLoop, LoopTop, Drain, RxBurst, l2fwd_simple_forward,
         signal_handler, Main, check_all_ports_link_status, Launch, MainCloses

(* Whatever the mask, the lcores and -q: if main does not give up, each     *)
(* port is polled by one lcore, and no two lcores transmit on one port,     *)
(* since two ports never name the same partner (TxQueueDedicated).          *)
THEOREM L2fwdTxQueueDedicated == Spec => []TxQueueDedicated
<1>1. Init => TablesInv
  BY DEF Init, TablesInv
<1>2. TablesInv /\ [Next]_vars => TablesInv'
  BY TablesKept DEF TablesInv, Tables
<1>3. ASSUME TablesInv PROVE TxQueueDedicated
  <2>1. SUFFICES ASSUME NEW en \in SUBSET Lcores, NEW per, ~Assignment(portmask, en, per).fail
                 PROVE  LET q == Assignment(portmask, en, per).q
                            sends(k) == {dst_ports[p] : p \in Range(q[k])}
                        IN /\ UNION {Range(q[k]) : k \in en} = portmask
                           /\ UNION {sends(k) : k \in en} \subseteq portmask
                           /\ \A k, l \in en :
                                k # l => Range(q[k]) \cap Range(q[l]) = {} /\ sends(k) \cap sends(l) = {}
    BY DEF TxQueueDedicated
  <2> DEFINE q == Assignment(portmask, en, per).q
             sends(k) == {dst_ports[p] : p \in Range(q[k])}
  <2>2. /\ \A k \in Lcores : Range(q[k]) \subseteq portmask
        /\ \A r \in portmask : \E k \in en : r \in Range(q[k])
        /\ \A k, l \in en : k # l => Range(q[k]) \cap Range(q[l]) = {}
    BY <1>3, <2>1, AssignmentSplits DEF TablesInv
  <2>3. \A p \in portmask : dst_ports[p] \in portmask /\ dst_ports[dst_ports[p]] = p
    BY <1>3, PairingSwaps DEF TablesInv
  <2> HIDE DEF q
  <2>4. UNION {Range(q[k]) : k \in en} = portmask
    BY <2>2
  <2>5. UNION {sends(k) : k \in en} \subseteq portmask
    BY <2>2, <2>3
  <2>6. \A k, l \in en : k # l => sends(k) \cap sends(l) = {}
    BY <2>2, <2>3
  <2> QED
    BY <2>2, <2>4, <2>5, <2>6 DEF q
<1> QED
  BY <1>1, <1>2, <1>3, PTL DEF Spec

-----------------------------------------------------------------------------
(* How often a packet is in a sequence.                                     *)

Copies(s, m) == Cardinality({n \in DOMAIN s : s[n] = m})
OnWire(s, m) == Cardinality({n \in DOMAIN s : s[n][1] = m})

LEMMA TimesIs ==
  \A m, p : Times(m, p) = OnWire(wire[p], m) + Copies(tx_buffer[p], m) + Copies(freed[p], m)
  BY DEF Times, OnWire, Copies

(* The numbers U up to a + b of which A are among the first a, and B among  *)
(* the b behind them.                                                       *)
Split(a, b, A, B, U) ==
  /\ a \in Nat /\ b \in Nat
  /\ A \subseteq 1 .. a /\ B \subseteq 1 .. b /\ U \subseteq 1 .. (a + b)
  /\ \A n \in 1 .. a : n \in U <=> n \in A
  /\ \A n \in 1 .. b : a + n \in U <=> n \in B

LEMMA CardSplit ==
  ASSUME NEW a, NEW b, NEW A, NEW B, NEW U, Split(a, b, A, B, U)
  PROVE  /\ Cardinality(U) = Cardinality(A) + Cardinality(B)
         /\ Cardinality(U) \in Nat /\ Cardinality(A) \in Nat /\ Cardinality(B) \in Nat
<1> USE DEF Split
<1> DEFINE W == {n \in (a + 1) .. (a + b) : n \in U}
           f == [n \in B |-> a + n]
<1>1. IsFiniteSet(A) /\ IsFiniteSet(B)
  <2>1. IsFiniteSet(1 .. a) /\ IsFiniteSet(1 .. b)
    BY FS_Interval
  <2> QED
    BY <2>1, FS_Subset
<1>2. U = A \cup W /\ A \cap W = {}
  <2>1. \A n \in 1 .. (a + b) : n \in 1 .. a \/ (n \in (a + 1) .. (a + b) /\ n \notin 1 .. a)
    OBVIOUS
  <2>2. (a + 1) .. (a + b) \subseteq 1 .. (a + b) /\ 1 .. a \subseteq 1 .. (a + b)
    OBVIOUS
  <2>3. \A n \in (a + 1) .. (a + b) : n \notin 1 .. a
    OBVIOUS
  <2> QED
    BY <2>1, <2>2, <2>3
<1>3. ExistsBijection(B, W)
  <2>1. f \in [B -> W]
    OBVIOUS
  <2>2. \A x, y \in B : f[x] = f[y] => x = y
    OBVIOUS
  <2>3. ASSUME NEW w \in W PROVE \E n \in B : f[n] = w
    <3>1. w - a \in 1 .. b /\ a + (w - a) = w
      OBVIOUS
    <3> QED
      BY <3>1
  <2> HIDE DEF f, W
  <2>4. f \in Injection(B, W) /\ f \in Surjection(B, W)
    BY <2>1, <2>2, <2>3 DEF Injection, IsInjective, Surjection
  <2>5. f \in Bijection(B, W)
    BY <2>4 DEF Bijection
  <2> QED
    BY <2>5 DEF ExistsBijection
<1> HIDE DEF W, f
<1>4. IsFiniteSet(W) /\ Cardinality(W) = Cardinality(B)
  BY <1>1, <1>3, FS_Bijection
<1>5. Cardinality(A \cup W) = Cardinality(A) + Cardinality(W) - Cardinality(A \cap W)
  BY <1>1, <1>4, FS_Union
<1>6. Cardinality(A) \in Nat /\ Cardinality(B) \in Nat /\ Cardinality({}) = 0
  BY <1>1, FS_CardinalityType, FS_EmptySet
<1> QED
  <2>1. Cardinality(U) = Cardinality(A) + Cardinality(B) - 0
    BY <1>2, <1>4, <1>5, <1>6
  <2> QED
    BY <1>6, <2>1

LEMMA CopiesType ==
  ASSUME NEW S, NEW s \in Seq(S), NEW m
  PROVE  Copies(s, m) \in Nat /\ OnWire(s, m) \in Nat
<1>1. DOMAIN s = 1 .. Len(s) /\ Len(s) \in Nat
  BY SeqParts
<1>2. IsFiniteSet(DOMAIN s)
  BY <1>1, FS_Interval
<1>3. IsFiniteSet({n \in DOMAIN s : s[n] = m}) /\ IsFiniteSet({n \in DOMAIN s : s[n][1] = m})
  BY <1>2, FS_Subset
<1> QED
  BY <1>3, FS_CardinalityType DEF Copies, OnWire

LEMMA CopiesNone == \A m : Copies(<< >>, m) = 0
<1>1. \A m : {n \in DOMAIN << >> : << >>[n] = m} = {}
  OBVIOUS
<1> QED
  BY <1>1, FS_EmptySet DEF Copies

LEMMA CopiesAppend ==
  ASSUME NEW S, NEW s \in Seq(S), NEW a \in S, NEW m
  PROVE  Copies(Append(s, a), m) = Copies(s, m) + (IF a = m THEN 1 ELSE 0)
<1> DEFINE t == Append(s, a)
           A == {n \in DOMAIN s : s[n] = m}
           B == IF a = m THEN {1} ELSE {}
           U == {n \in DOMAIN t : t[n] = m}
<1>1. /\ t \in Seq(S) /\ Len(t) = Len(s) + 1 /\ Len(s) \in Nat /\ DOMAIN s = 1 .. Len(s) /\ DOMAIN t = 1 .. Len(t)
      /\ t[Len(s) + 1] = a /\ \A x \in 1 .. Len(s) : t[x] = s[x]
  BY AppendParts, SeqParts
<1> HIDE DEF t
<1>2. \A n \in 1 .. Len(s) : n \in U <=> n \in A
  BY <1>1
<1>3. \A n \in 1 .. 1 : Len(s) + n \in U <=> n \in B
  BY <1>1
<1>4. A \in SUBSET (1 .. Len(s)) /\ B \in SUBSET (1 .. 1) /\ U \in SUBSET (1 .. (Len(s) + 1))
  BY <1>1
<1>5. Cardinality(B) = IF a = m THEN 1 ELSE 0
  BY FS_EmptySet, FS_Singleton
<1>6. Copies(s, m) = Cardinality(A) /\ Copies(t, m) = Cardinality(U)
  BY DEF Copies
<1> HIDE DEF A, B, U
<1>7. Cardinality(U) = Cardinality(A) + Cardinality(B)
  <2>1. Len(s) \in Nat /\ 1 \in Nat
    BY <1>1
  <2>2. Split(Len(s), 1, A, B, U)
    BY <2>1, <1>2, <1>3, <1>4 DEF Split
  <2> QED
    BY <2>2, CardSplit
<1> QED
  BY <1>5, <1>6, <1>7 DEF t

Marked == Packets \X Nat

(* The packets of b are sent, with their addresses, behind w, up to sent;   *)
(* the others are freed, behind f.                                          *)
FlushGives(b, addr, sent, w, f, m) ==
  LET w2 == w \o [n \in 1 .. sent |-> <<b[n], addr[b[n]]>>]
      f2 == f \o SubSeq(b, sent + 1, Len(b))
  IN /\ w2 \in Seq(Marked) /\ f2 \in Seq(Packets)
     /\ OnWire(w2, m) + Copies(f2, m) = OnWire(w, m) + Copies(f, m) + Copies(b, m)
     /\ \A n \in 1 .. Len(w2) :
          \/ n \in 1 .. Len(w) /\ w2[n] = w[n]
          \/ \E x \in 1 .. Len(b) : w2[n] = <<b[x], addr[b[x]]>>

LEMMA FlushCounts ==
  ASSUME NEW b \in Seq(Packets), NEW addr \in [Packets -> Nat], NEW sent \in 0 .. Len(b),
         NEW w \in Seq(Marked), NEW f \in Seq(Packets), NEW m
  PROVE  FlushGives(b, addr, sent, w, f, m)
<1> DEFINE gone == [n \in 1 .. sent |-> <<b[n], addr[b[n]]>>]
           rest == SubSeq(b, sent + 1, Len(b))
           w2 == w \o gone
           f2 == f \o rest
           d == Len(b) - sent
<1>1. /\ Len(b) \in Nat /\ DOMAIN b = 1 .. Len(b) /\ sent \in Nat /\ d \in Nat /\ sent + d = Len(b)
      /\ \A n \in 1 .. Len(b) : b[n] \in Packets
      /\ Len(w) \in Nat /\ DOMAIN w = 1 .. Len(w) /\ Len(f) \in Nat /\ DOMAIN f = 1 .. Len(f)
  BY SeqParts
<1>2. gone \in Seq(Marked) /\ Len(gone) = sent /\ \A n \in 1 .. sent : gone[n] = <<b[n], addr[b[n]]>>
  <2>1. \A n \in 1 .. sent : <<b[n], addr[b[n]]>> \in Marked
    BY <1>1 DEF Marked
  <2>2. gone \in [1 .. sent -> Marked]
    BY <2>1
  <2>3. gone \in Seq(Marked)
    BY <1>1, <2>2
  <2>4. Len(gone) = sent
    BY <1>1, <2>3, SeqParts
  <2> QED
    BY <2>3, <2>4
<1> HIDE DEF gone
<1>3. rest \in Seq(Packets) /\ Len(rest) = d /\ \A n \in 1 .. d : rest[n] = b[sent + n]
  <2>1. \A n \in (sent + 1) .. Len(b) : b[n] \in Packets
    BY <1>1
  <2>2. rest \in Seq(Packets)
    BY <1>1, SubSeqProperties
  <2>3. Len(rest) = d
    <3>1. Len(rest) = IF sent + 1 <= Len(b) THEN Len(b) - (sent + 1) + 1 ELSE 0
      BY <1>1, SubSeqProperties
    <3>2. sent + 1 <= Len(b) => Len(b) - (sent + 1) + 1 = d
      BY ONLY <1>1
    <3>3. ~(sent + 1 <= Len(b)) => d = 0
      <4>1. Len(b) \in Nat /\ sent \in Nat /\ d \in Nat /\ sent + d = Len(b)
        BY <1>1
      <4> HIDE DEF d
      <4> QED
        BY ONLY <4>1
    <3> QED
      BY <3>1, <3>2, <3>3
  <2>4. ASSUME NEW n \in 1 .. d PROVE rest[n] = b[sent + n]
    <3>1. sent + 1 \in 1 .. (Len(b) + 1) /\ Len(b) \in 0 .. Len(b) /\ n \in 1 .. (Len(b) - (sent + 1) + 1)
      BY <1>1
    <3>2. \A x \in 1 .. (Len(b) - (sent + 1) + 1) : rest[x] = b[(sent + 1) + x - 1]
      BY <3>1, <1>1, SubSeqProperties
    <3>3. (sent + 1) + n - 1 = sent + n
      BY <1>1
    <3> QED
      BY <3>1, <3>2, <3>3
  <2> QED
    BY <2>2, <2>3, <2>4
<1> HIDE DEF rest
<1>4. /\ w2 \in Seq(Marked) /\ Len(w2) = Len(w) + sent /\ DOMAIN w2 = 1 .. (Len(w) + sent)
      /\ \A n \in 1 .. Len(w) : w2[n] = w[n]
      /\ \A n \in 1 .. sent : w2[Len(w) + n] = <<b[n], addr[b[n]]>>
  <2>1. w2 \in Seq(Marked) /\ Len(w2) = Len(w) + Len(gone)
    BY <1>2, ConcatProperties
  <2>2. \A n \in 1 .. Len(w2) : w2[n] = IF n <= Len(w) THEN w[n] ELSE gone[n - Len(w)]
    BY <1>2, ConcatProperties
  <2>3. \A n \in 1 .. sent : Len(w) + n \in 1 .. Len(w2) /\ ~(Len(w) + n <= Len(w)) /\ (Len(w) + n) - Len(w) = n
    BY <1>1, <1>2, <2>1
  <2>4. \A n \in 1 .. Len(w) : n \in 1 .. Len(w2) /\ n <= Len(w)
    BY <1>1, <1>2, <2>1
  <2> HIDE DEF w2
  <2> QED
    BY <1>2, <2>1, <2>2, <2>3, <2>4, SeqParts
<1>5. /\ f2 \in Seq(Packets) /\ Len(f2) = Len(f) + d /\ DOMAIN f2 = 1 .. (Len(f) + d)
      /\ \A n \in 1 .. Len(f) : f2[n] = f[n]
      /\ \A n \in 1 .. d : f2[Len(f) + n] = b[sent + n]
  <2>1. f2 \in Seq(Packets) /\ Len(f2) = Len(f) + Len(rest)
    BY <1>3, ConcatProperties
  <2>2. \A n \in 1 .. Len(f2) : f2[n] = IF n <= Len(f) THEN f[n] ELSE rest[n - Len(f)]
    BY <1>3, ConcatProperties
  <2>3. \A n \in 1 .. d : Len(f) + n \in 1 .. Len(f2) /\ ~(Len(f) + n <= Len(f)) /\ (Len(f) + n) - Len(f) = n
    BY <1>1, <1>3, <2>1
  <2>4. \A n \in 1 .. Len(f) : n \in 1 .. Len(f2) /\ n <= Len(f)
    BY <1>1, <1>3, <2>1
  <2> HIDE DEF f2, d
  <2> QED
    BY <1>3, <2>1, <2>2, <2>3, <2>4, SeqParts
<1> HIDE DEF w2, f2, d
<1> DEFINE X == {n \in 1 .. sent : b[n] = m}
           Y == {n \in 1 .. d : b[sent + n] = m}
<1>6. OnWire(w2, m) = OnWire(w, m) + Cardinality(X) /\ OnWire(w, m) \in Nat /\ Cardinality(X) \in Nat
  <2> DEFINE A == {n \in DOMAIN w : w[n][1] = m}
             U == {n \in DOMAIN w2 : w2[n][1] = m}
  <2>1. \A n \in 1 .. Len(w) : n \in U <=> n \in A
    BY <1>1, <1>4
  <2>2. \A n \in 1 .. sent : Len(w) + n \in U <=> n \in X
    BY <1>1, <1>4
  <2>3. A \in SUBSET (1 .. Len(w)) /\ X \in SUBSET (1 .. sent) /\ U \in SUBSET (1 .. (Len(w) + sent))
    BY <1>1, <1>4
  <2>4. OnWire(w, m) = Cardinality(A) /\ OnWire(w2, m) = Cardinality(U)
    BY DEF OnWire
  <2> HIDE DEF A, X, U
  <2>5. Len(w) \in Nat /\ sent \in Nat
    BY <1>1
  <2>6. Split(Len(w), sent, A, X, U)
    BY <2>1, <2>2, <2>3, <2>5 DEF Split
  <2>7. Cardinality(U) = Cardinality(A) + Cardinality(X) /\ Cardinality(A) \in Nat /\ Cardinality(X) \in Nat
    BY <2>6, CardSplit
  <2> QED
    BY <2>4, <2>7
<1>7. Copies(f2, m) = Copies(f, m) + Cardinality(Y) /\ Copies(f, m) \in Nat /\ Cardinality(Y) \in Nat
  <2> DEFINE A == {n \in DOMAIN f : f[n] = m}
             U == {n \in DOMAIN f2 : f2[n] = m}
  <2>1. \A n \in 1 .. Len(f) : n \in U <=> n \in A
    BY <1>1, <1>5
  <2>2. \A n \in 1 .. d : Len(f) + n \in U <=> n \in Y
    BY <1>1, <1>5
  <2>3. A \in SUBSET (1 .. Len(f)) /\ Y \in SUBSET (1 .. d) /\ U \in SUBSET (1 .. (Len(f) + d))
    BY <1>1, <1>5
  <2>4. Copies(f, m) = Cardinality(A) /\ Copies(f2, m) = Cardinality(U)
    BY DEF Copies
  <2> HIDE DEF A, Y, U
  <2>5. Len(f) \in Nat /\ d \in Nat
    BY <1>1 DEF d
  <2>6. Split(Len(f), d, A, Y, U)
    BY <2>1, <2>2, <2>3, <2>5 DEF Split
  <2>7. Cardinality(U) = Cardinality(A) + Cardinality(Y) /\ Cardinality(A) \in Nat /\ Cardinality(Y) \in Nat
    BY <2>6, CardSplit
  <2> QED
    BY <2>4, <2>7
<1>8. Copies(b, m) = Cardinality(X) + Cardinality(Y)
  <2> DEFINE U == {n \in DOMAIN b : b[n] = m}
  <2>1. \A n \in 1 .. sent : n \in U <=> n \in X
    BY <1>1
  <2>2. \A n \in 1 .. d : sent + n \in U <=> n \in Y
    BY <1>1
  <2>3. X \in SUBSET (1 .. sent) /\ Y \in SUBSET (1 .. d) /\ U \in SUBSET (1 .. (sent + d))
    BY <1>1
  <2>4. Copies(b, m) = Cardinality(U)
    BY DEF Copies
  <2> HIDE DEF X, Y, U
  <2>5. sent \in Nat /\ d \in Nat
    BY <1>1 DEF d
  <2>6. Split(sent, d, X, Y, U)
    BY <2>1, <2>2, <2>3, <2>5 DEF Split
  <2>7. Cardinality(U) = Cardinality(X) + Cardinality(Y)
    BY <2>6, CardSplit
  <2> QED
    BY <2>4, <2>7
<1>9. ASSUME NEW n \in 1 .. Len(w2)
      PROVE  \/ n \in 1 .. Len(w) /\ w2[n] = w[n]
             \/ \E x \in 1 .. Len(b) : w2[n] = <<b[x], addr[b[x]]>>
  <2>1. CASE n <= Len(w)
    BY <1>1, <1>4, <2>1
  <2>2. CASE ~(n <= Len(w))
    <3>1. n - Len(w) \in 1 .. sent /\ Len(w) + (n - Len(w)) = n /\ n - Len(w) \in 1 .. Len(b)
      BY <1>1, <1>4, <2>2
    <3>2. w2[n] = <<b[n - Len(w)], addr[b[n - Len(w)]]>>
      BY <1>4, <3>1
    <3> QED
      BY <3>1, <3>2
  <2> QED
    BY <2>1, <2>2
<1>10. OnWire(w2, m) + Copies(f2, m) = OnWire(w, m) + Copies(f, m) + Copies(b, m)
  <2> HIDE DEF X, Y
  <2> QED
    BY <1>6, <1>7, <1>8
<1> QED
  BY <1>4, <1>5, <1>9, <1>10 DEF FlushGives, w2, f2, gone, rest

-----------------------------------------------------------------------------
(* The forwarding loop, while one lcore polls the ports.                    *)

OnePolls == \A k, l \in Enabled : qconf[k] # <<>> /\ qconf[l] # <<>> => k = l

LoopPcs == {"wait", "start", "loop", "drain", "rx", "forward", "done"}
LoopStates == [pc : LoopPcs, i : Nat, nb_rx : Nat, j : Nat, diff : Nat]

TypeInv ==
  /\ portmask \in SUBSET Ports
  /\ dst_ports \in [Ports -> Ports]
  /\ qconf \in [Lcores -> Seq(Ports)]
  /\ DOMAIN pkts_burst = 0 .. (MAX_PKT_BURST - 1)
  /\ mac \in [Packets -> Nat]
  /\ tx_buffer \in [Ports -> Seq(Packets)]
  /\ wire \in [Ports -> Seq(Marked)]
  /\ freed \in [Ports -> Seq(Packets)]
  /\ rx \in [Ports -> 0 .. MaxRx]
  /\ lcore \in [Lcores -> LoopStates]

(* Before the launch no lcore has begun.                                    *)
Waits == main.pc \in {"check", "printed", "checked"} => \A k \in Enabled : lcore[k].pc = "wait"

(* The locals of the loop of lcore k point at a port it polls, and at       *)
(* packets of the last burst, in the order they arrived in.                 *)
LoopOf(k) ==
  /\ lcore[k].pc \in {"loop", "drain", "rx", "forward"} => qconf[k] # <<>>
  /\ lcore[k].pc \in {"drain", "rx", "forward"} => lcore[k].i \in 1 .. Len(qconf[k])
  /\ lcore[k].pc = "forward" =>
       /\ lcore[k].j < lcore[k].nb_rx
       /\ lcore[k].nb_rx <= MAX_PKT_BURST
       /\ lcore[k].nb_rx <= rx[RxPort(k)]
       /\ \A n \in 0 .. (lcore[k].nb_rx - 1) :
            pkts_burst[n] = <<RxPort(k), rx[RxPort(k)] - lcore[k].nb_rx + n + 1>>

Loops == \A k \in Enabled : LoopOf(k)

(* A packet that waits at port p is to leave from p and, once the address   *)
(* is rewritten, has the address made from p.                               *)
Buffered == \A p \in Ports : \A n \in DOMAIN tx_buffer[p] :
  /\ dst_ports[tx_buffer[p][n][1]] = p
  /\ MacUpdating => mac[tx_buffer[p][n]] = p

Handled(p, n) == n <= rx[p] /\ \A k \in Enabled : <<p, n>> \notin InHand(k)

Counts == \A p \in Ports, n \in 1 .. MaxRx, q \in Ports :
  Times(<<p, n>>, q) = IF q = dst_ports[p] /\ Handled(p, n) THEN 1 ELSE 0

L2fwdInv == TypeInv /\ OnePolls /\ Waits /\ Loops /\ Buffered /\ TxPortMac /\ Counts

LEMMA SpanIs ==
  ASSUME NEW r \in Nat, NEW b \in 0 .. r, NEW j \in Nat, NEW n \in Nat
  PROVE  (\E x \in j .. (b - 1) : n = r - b + x + 1) <=> (r - b + j + 1 <= n /\ n <= r)
<1>1. ASSUME r - b + j + 1 <= n, n <= r PROVE \E x \in j .. (b - 1) : n = r - b + x + 1
  <2>1. n - 1 - (r - b) \in j .. (b - 1) /\ n = r - b + (n - 1 - (r - b)) + 1
    BY <1>1
  <2> QED
    BY <2>1
<1>2. ASSUME NEW x \in j .. (b - 1), n = r - b + x + 1 PROVE r - b + j + 1 <= n /\ n <= r
  BY <1>2
<1> QED
  BY <1>1, <1>2

(* The packets in hand of an lcore in state st, that polls port, after r    *)
(* packets have come there.                                                 *)
HandOf(st, port, r) ==
  IF st.pc = "forward" THEN {<<port, r - st.nb_rx + n + 1>> : n \in st.j .. (st.nb_rx - 1)} ELSE {}

LEMMA HandSpan ==
  ASSUME NEW st \in LoopStates, NEW port, NEW r \in Nat, st.pc = "forward" => st.nb_rx <= r
  PROVE  \A p, n : n \in Nat => (<<p, n>> \in HandOf(st, port, r) <=>
           st.pc = "forward" /\ p = port /\ r - st.nb_rx + st.j + 1 <= n /\ n <= r)
<1> SUFFICES ASSUME NEW p, NEW n \in Nat
             PROVE  <<p, n>> \in HandOf(st, port, r) <=>
                      st.pc = "forward" /\ p = port /\ r - st.nb_rx + st.j + 1 <= n /\ n <= r
  OBVIOUS
<1>1. CASE st.pc = "forward"
  <2>1. st.nb_rx \in 0 .. r /\ st.j \in Nat
    BY <1>1 DEF LoopStates
  <2>2. (\E x \in st.j .. (st.nb_rx - 1) : n = r - st.nb_rx + x + 1) <=> (r - st.nb_rx + st.j + 1 <= n /\ n <= r)
    BY ONLY <2>1, SpanIs, n \in Nat, r \in Nat
  <2>3. <<p, n>> \in HandOf(st, port, r) <=> p = port /\ \E x \in st.j .. (st.nb_rx - 1) : n = r - st.nb_rx + x + 1
    BY <1>1 DEF HandOf
  <2> QED
    BY <1>1, <2>2, <2>3
<1>2. CASE st.pc # "forward"
  BY <1>2 DEF HandOf
<1> QED
  BY <1>1, <1>2

LEMMA HandIs == \A k : InHand(k) = HandOf(lcore[k], RxPort(k), rx[RxPort(k)])
  BY DEF InHand, HandOf
LEMMA HandIsNext == \A k : InHand(k)' = HandOf(lcore'[k], qconf'[k][lcore'[k].i], rx'[qconf'[k][lcore'[k].i]])
  BY DEF InHand, HandOf, RxPort

LEMMA RxPortIs ==
  ASSUME TypeInv, NEW k \in Enabled, LoopOf(k), lcore[k].pc \in {"drain", "rx", "forward"}
  PROVE  /\ RxPort(k) \in Ports /\ dst_ports[RxPort(k)] \in Ports /\ qconf[k] # <<>>
         /\ Len(qconf[k]) \in Nat /\ lcore[k].i \in 1 .. Len(qconf[k])
         /\ rx[RxPort(k)] \in 0 .. MaxRx
<1>1. qconf[k] \in Seq(Ports) /\ k \in Lcores
  BY Consts DEF TypeInv
<1>2. lcore[k].i \in 1 .. Len(qconf[k]) /\ qconf[k] # <<>>
  BY DEF LoopOf
<1>3. RxPort(k) \in Ports
  BY <1>1, <1>2, SeqParts DEF RxPort
<1> QED
  BY <1>1, <1>2, <1>3, SeqParts DEF TypeInv

(* With one that polls, no other has packets in hand.                       *)
LEMMA OnlyHand ==
  ASSUME OnePolls, Loops, NEW k \in Enabled, qconf[k] # <<>>
  PROVE  \A l \in Enabled : l # k => lcore[l].pc \notin {"loop", "drain", "rx", "forward"} /\ InHand(l) = {}
  BY DEF OnePolls, Loops, LoopOf, InHand

(* The packets of buffered, which are or were to be at port, are left there *)
(* or leave it, each once, with their addresses.                            *)
Moved(port, buffered, addr) ==
  /\ tx_buffer' \in [Ports -> Seq(Packets)]
  /\ wire' \in [Ports -> Seq(Marked)]
  /\ freed' \in [Ports -> Seq(Packets)]
  /\ \A q \in Ports : q # port =>
       tx_buffer'[q] = tx_buffer[q] /\ wire'[q] = wire[q] /\ freed'[q] = freed[q]
  /\ \A m : OnWire(wire'[port], m) + Copies(tx_buffer'[port], m) + Copies(freed'[port], m)
              = OnWire(wire[port], m) + Copies(buffered, m) + Copies(freed[port], m)
  /\ \A n \in DOMAIN tx_buffer'[port] : \E x \in DOMAIN buffered : tx_buffer'[port][n] = buffered[x]
  /\ \A n \in DOMAIN wire'[port] :
       \/ n \in DOMAIN wire[port] /\ wire'[port][n] = wire[port][n]
       \/ \E x \in DOMAIN buffered : wire'[port][n] = <<buffered[x], addr[buffered[x]]>>

LEMMA FlushMoves ==
  ASSUME TypeInv, NEW port \in Ports, NEW buffered \in Seq(Packets), NEW addr \in [Packets -> Nat],
         Flush(port, buffered, addr)
  PROVE  Moved(port, buffered, addr)
<1>1. PICK sent \in 0 .. Len(buffered) :
        /\ wire' = [wire EXCEPT ![port] = @ \o [n \in 1 .. sent |-> <<buffered[n], addr[buffered[n]]>>]]
        /\ freed' = [freed EXCEPT ![port] = @ \o SubSeq(buffered, sent + 1, Len(buffered))]
        /\ tx_buffer' = [tx_buffer EXCEPT ![port] = <<>>]
  BY DEF Flush
<1> DEFINE w2 == wire[port] \o [n \in 1 .. sent |-> <<buffered[n], addr[buffered[n]]>>]
           f2 == freed[port] \o SubSeq(buffered, sent + 1, Len(buffered))
<1>2. wire \in [Ports -> Seq(Marked)] /\ freed \in [Ports -> Seq(Packets)] /\ tx_buffer \in [Ports -> Seq(Packets)]
  BY DEF TypeInv
<1>3. wire[port] \in Seq(Marked) /\ freed[port] \in Seq(Packets)
  BY <1>2
<1>4. /\ w2 \in Seq(Marked) /\ f2 \in Seq(Packets)
      /\ \A m : OnWire(w2, m) + Copies(f2, m)
                  = OnWire(wire[port], m) + Copies(freed[port], m) + Copies(buffered, m)
      /\ \A n \in 1 .. Len(w2) :
           \/ n \in 1 .. Len(wire[port]) /\ w2[n] = wire[port][n]
           \/ \E x \in 1 .. Len(buffered) : w2[n] = <<buffered[x], addr[buffered[x]]>>
  <2>1. \A m : FlushGives(buffered, addr, sent, wire[port], freed[port], m)
    BY <1>3, FlushCounts
  <2> QED
    BY <2>1 DEF FlushGives
<1>5. wire' = [wire EXCEPT ![port] = w2] /\ freed' = [freed EXCEPT ![port] = f2]
  BY <1>1
<1>6. DOMAIN w2 = 1 .. Len(w2) /\ DOMAIN wire[port] = 1 .. Len(wire[port]) /\ DOMAIN buffered = 1 .. Len(buffered)
  BY <1>3, <1>4, SeqParts
<1>7. \A m : /\ OnWire(wire[port], m) \in Nat /\ Copies(freed[port], m) \in Nat /\ Copies(buffered, m) \in Nat
             /\ OnWire(w2, m) \in Nat /\ Copies(f2, m) \in Nat
  BY <1>3, <1>4, CopiesType
<1> HIDE DEF w2, f2
<1>8. wire'[port] = w2 /\ freed'[port] = f2 /\ tx_buffer'[port] = <<>>
  BY <1>1, <1>2, <1>5
<1>9. tx_buffer' \in [Ports -> Seq(Packets)] /\ wire' \in [Ports -> Seq(Marked)] /\ freed' \in [Ports -> Seq(Packets)]
  <2>1. <<>> \in Seq(Packets)
    OBVIOUS
  <2> QED
    BY <1>1, <1>2, <1>4, <1>5, <2>1
<1>10. \A q \in Ports : q # port =>
         tx_buffer'[q] = tx_buffer[q] /\ wire'[q] = wire[q] /\ freed'[q] = freed[q]
  BY <1>1, <1>2, <1>5
<1>11. ASSUME NEW m
       PROVE  OnWire(wire'[port], m) + Copies(tx_buffer'[port], m) + Copies(freed'[port], m)
                = OnWire(wire[port], m) + Copies(buffered, m) + Copies(freed[port], m)
  <2>1. Copies(tx_buffer'[port], m) = 0
    BY <1>8, CopiesNone
  <2>2. OnWire(w2, m) + Copies(f2, m) = OnWire(wire[port], m) + Copies(freed[port], m) + Copies(buffered, m)
    BY <1>4
  <2> QED
    BY <1>7, <1>8, <2>1, <2>2
<1>12. \A n \in DOMAIN tx_buffer'[port] : \E x \in DOMAIN buffered : tx_buffer'[port][n] = buffered[x]
  BY <1>8
<1>13. \A n \in DOMAIN wire'[port] :
         \/ n \in DOMAIN wire[port] /\ wire'[port][n] = wire[port][n]
         \/ \E x \in DOMAIN buffered : wire'[port][n] = <<buffered[x], addr[buffered[x]]>>
  BY <1>4, <1>6, <1>8
<1> QED
  BY <1>9, <1>10, <1>11, <1>12, <1>13 DEF Moved

LEMMA BufferMoves ==
  ASSUME TypeInv, NEW port \in Ports, NEW buffered \in Seq(Packets), NEW addr,
         tx_buffer' = [tx_buffer EXCEPT ![port] = buffered], UNCHANGED <<wire, freed>>
  PROVE  Moved(port, buffered, addr)
<1>1. tx_buffer \in [Ports -> Seq(Packets)] /\ tx_buffer'[port] = buffered
  BY DEF TypeInv
<1>2. tx_buffer' \in [Ports -> Seq(Packets)] /\ wire' \in [Ports -> Seq(Marked)] /\ freed' \in [Ports -> Seq(Packets)]
  BY <1>1 DEF TypeInv
<1> QED
  BY <1>1, <1>2 DEF Moved

LEMMA InvInit == Init /\ OnePolls => L2fwdInv
<1> SUFFICES ASSUME Init, OnePolls PROVE L2fwdInv
  OBVIOUS
<1>1. /\ portmask \in SUBSET Ports /\ portmask # {} /\ ~Assignment(portmask, Enabled, QueuePerLcore).fail
      /\ dst_ports = Pairing(portmask) /\ qconf = Assignment(portmask, Enabled, QueuePerLcore).q
      /\ pkts_burst = [n \in 0 .. (MAX_PKT_BURST - 1) |-> NoPacket]
      /\ mac = [m \in Packets |-> NbPorts]
      /\ tx_buffer = [p \in Ports |-> <<>>] /\ wire = [p \in Ports |-> <<>>] /\ freed = [p \in Ports |-> <<>>]
      /\ rx = [p \in Ports |-> 0]
      /\ lcore = [k \in Lcores |-> IF k \in Enabled THEN Start ELSE [Start EXCEPT !.pc = "done"]]
  <2>1. /\ portmask \in SUBSET Ports /\ portmask # {} /\ ~Assignment(portmask, Enabled, QueuePerLcore).fail
        /\ dst_ports = Pairing(portmask) /\ qconf = Assignment(portmask, Enabled, QueuePerLcore).q
    BY DEF Init
  <2>2. pkts_burst = [n \in 0 .. (MAX_PKT_BURST - 1) |-> NoPacket] /\ mac = [m \in Packets |-> NbPorts]
    BY DEF Init
  <2>3. tx_buffer = [p \in Ports |-> <<>>] /\ wire = [p \in Ports |-> <<>>] /\ freed = [p \in Ports |-> <<>>]
    BY DEF Init
  <2>4. /\ rx = [p \in Ports |-> 0]
        /\ lcore = [k \in Lcores |-> IF k \in Enabled THEN Start ELSE [Start EXCEPT !.pc = "done"]]
    BY DEF Init
  <2> QED
    BY <2>1, <2>2, <2>3, <2>4
<1>2. TypeInv
  <2>1. dst_ports \in [Ports -> Ports]
    BY <1>1, PairingSwaps
  <2>2. qconf \in [Lcores -> Seq(Ports)]
    <3>1. Assignment(portmask, Enabled, QueuePerLcore) \in Assignments
      BY <1>1, Consts, AssignmentGives
    <3> QED
      BY <1>1, <3>1 DEF Assignments
  <2>3. mac \in [Packets -> Nat]
    BY <1>1, Consts
  <2>4. /\ tx_buffer \in [Ports -> Seq(Packets)] /\ wire \in [Ports -> Seq(Marked)]
        /\ freed \in [Ports -> Seq(Packets)]
    <3>1. <<>> \in Seq(Packets) /\ <<>> \in Seq(Marked)
      OBVIOUS
    <3> QED
      BY <1>1, <3>1
  <2>5. rx \in [Ports -> 0 .. MaxRx]
    BY <1>1, Consts
  <2>6. lcore \in [Lcores -> LoopStates]
    <3>1. Start \in LoopStates /\ [Start EXCEPT !.pc = "done"] \in LoopStates
      BY Consts DEF Start, LoopStates, LoopPcs
    <3> QED
      BY <1>1, <3>1
  <2> QED
    BY <1>1, <2>1, <2>2, <2>3, <2>4, <2>5, <2>6 DEF TypeInv
<1>3. \A k \in Enabled : lcore[k].pc = "wait" /\ InHand(k) = {}
  <2>1. \A k \in Enabled : lcore[k].pc = "wait"
    BY <1>1, Consts DEF Start
  <2> QED
    BY <2>1 DEF InHand
<1>4. Waits /\ Loops
  BY <1>3 DEF Waits, Loops, LoopOf
<1>5. Buffered /\ TxPortMac
  BY <1>1 DEF Buffered, TxPortMac
<1>6. Counts
  <2> SUFFICES ASSUME NEW p \in Ports, NEW n \in 1 .. MaxRx, NEW q \in Ports
               PROVE  Times(<<p, n>>, q) = IF q = dst_ports[p] /\ Handled(p, n) THEN 1 ELSE 0
    BY DEF Counts
  <2>1. ~Handled(p, n)
    BY <1>1 DEF Handled
  <2>2. wire[q] = <<>> /\ tx_buffer[q] = <<>> /\ freed[q] = <<>>
    BY <1>1
  <2>3. Times(<<p, n>>, q) = OnWire(<< >>, <<p, n>>) + Copies(<< >>, <<p, n>>) + Copies(<< >>, <<p, n>>)
    BY <2>2, TimesIs
  <2>4. OnWire(<< >>, <<p, n>>) = 0
    <3>1. {x \in DOMAIN << >> : << >>[x][1] = <<p, n>>} = {}
      OBVIOUS
    <3> QED
      BY <3>1, FS_EmptySet DEF OnWire
  <2> QED
    BY <2>1, <2>3, <2>4, CopiesNone
<1> QED
  BY <1>2, <1>4, <1>5, <1>6 DEF L2fwdInv

Still == UNCHANGED <<portmask, dst_ports, qconf, pkts_burst, mac, tx_buffer, wire, freed, rx>>

(* A step that moves no packet and begins or ends no burst.                 *)
LEMMA QuietStep ==
  ASSUME L2fwdInv, Still, lcore' \in [Lcores -> LoopStates],
         \A k \in Enabled : lcore'[k] = lcore[k] \/ (lcore[k].pc # "forward" /\ lcore'[k].pc # "forward")
  PROVE  (TypeInv /\ OnePolls /\ Buffered /\ TxPortMac /\ Counts)'
<1>1. (TypeInv /\ OnePolls)'
  BY DEF L2fwdInv, TypeInv, OnePolls, Still
<1>2. (Buffered /\ TxPortMac)'
  BY DEF L2fwdInv, Buffered, TxPortMac, Still
<1>3. \A k \in Enabled : InHand(k)' = InHand(k)
  BY DEF InHand, RxPort, Still
<1>4. \A p, n : Handled(p, n)' <=> Handled(p, n)
  BY <1>3 DEF Handled, Still
<1>5. \A m, q : Times(m, q)' = Times(m, q)
  BY DEF Times, Still
<1>6. Counts'
  <2>1. Counts
    BY DEF L2fwdInv
  <2>2. dst_ports' = dst_ports
    BY DEF Still
  <2> QED
    BY <1>4, <1>5, <2>1, <2>2 DEF Counts
<1> QED
  BY <1>1, <1>2, <1>6

(* Of the others, while lcore k takes a step.                               *)
LEMMA LoopKept ==
  ASSUME Loops, Still
  PROVE  \A l \in Enabled : lcore'[l] = lcore[l] => LoopOf(l)'
<1> SUFFICES ASSUME NEW l \in Enabled, lcore'[l] = lcore[l] PROVE LoopOf(l)'
  OBVIOUS
<1>1. LoopOf(l)
  BY DEF Loops
<1>2. RxPort(l)' = RxPort(l)
  BY DEF RxPort, Still
<1> QED
  BY <1>1, <1>2 DEF LoopOf, Still

LEMMA QuietLoops ==
  ASSUME L2fwdInv, NEW k \in Enabled, Still, UNCHANGED main, NEW st \in LoopStates,
         lcore' = [lcore EXCEPT ![k] = st], lcore[k].pc # "wait", lcore[k].pc # "forward", st.pc # "forward",
         st.pc \in {"loop", "drain", "rx"} => qconf[k] # <<>>,
         st.pc \in {"drain", "rx"} => st.i \in 1 .. Len(qconf[k])
  PROVE  L2fwdInv'
<1>1. k \in Lcores /\ lcore \in [Lcores -> LoopStates] /\ Loops /\ Waits
  BY Consts DEF L2fwdInv, TypeInv
<1>2. lcore' \in [Lcores -> LoopStates] /\ lcore'[k] = st /\ \A l \in Enabled : l # k => lcore'[l] = lcore[l]
  BY <1>1, Consts
<1>3. (TypeInv /\ OnePolls /\ Buffered /\ TxPortMac /\ Counts)'
  <2>1. \A l \in Enabled : lcore'[l] = lcore[l] \/ (lcore[l].pc # "forward" /\ lcore'[l].pc # "forward")
    BY <1>2
  <2> QED
    BY <1>2, <2>1, QuietStep
<1>4. Loops'
  <2>1. \A l \in Enabled : l # k => LoopOf(l)'
    BY <1>1, <1>2, LoopKept
  <2>2. LoopOf(k)'
    BY <1>2 DEF LoopOf, Still
  <2> QED
    BY <2>1, <2>2 DEF Loops
<1>5. Waits'
  BY <1>1 DEF Waits
<1> QED
  BY <1>3, <1>4, <1>5 DEF L2fwdInv

LEMMA EnterLoopKeeps ==
  ASSUME L2fwdInv, NEW k \in Enabled, EnterLoop(k)
  PROVE  L2fwdInv'
<1> DEFINE st == [lcore[k] EXCEPT !.pc = IF qconf[k] = <<>> THEN "done" ELSE "loop"]
<1>1. lcore[k] \in LoopStates /\ Still /\ UNCHANGED main /\ lcore[k].pc = "start" /\ lcore' = [lcore EXCEPT ![k] = st]
  BY Consts DEF L2fwdInv, TypeInv, EnterLoop, Still, Tables
<1>2. st \in LoopStates /\ st.pc \in {"done", "loop"} /\ (st.pc = "loop" => qconf[k] # <<>>)
  BY <1>1 DEF LoopStates, LoopPcs
<1> HIDE DEF st
<1> QED
  BY <1>1, <1>2, QuietLoops

LEMMA LoopTopKeeps ==
  ASSUME L2fwdInv, NEW k \in Enabled, LoopTop(k)
  PROVE  L2fwdInv'
<1>1. lcore[k] \in LoopStates /\ Still /\ UNCHANGED main /\ lcore[k].pc = "loop" /\ LoopOf(k) /\ qconf[k] \in Seq(Ports)
  BY Consts DEF L2fwdInv, TypeInv, LoopTop, Still, Tables, Loops
<1>2. qconf[k] # <<>> /\ 1 \in 1 .. Len(qconf[k])
  <2>1. qconf[k] # <<>>
    BY <1>1 DEF LoopOf
  <2>2. Len(qconf[k]) \in Nat /\ Len(qconf[k]) # 0
    BY <1>1, <2>1, EmptySeq, LenProperties
  <2> QED
    BY <2>1, <2>2
<1>3. CASE force_quit
  <2> DEFINE st == [lcore[k] EXCEPT !.pc = "done"]
  <2>1. lcore' = [lcore EXCEPT ![k] = st]
    BY <1>3 DEF LoopTop
  <2>2. st \in LoopStates /\ st.pc = "done"
    BY <1>1 DEF LoopStates, LoopPcs
  <2> HIDE DEF st
  <2> QED
    BY <1>1, <2>1, <2>2, QuietLoops
<1>4. CASE ~force_quit
  <2>1. PICK diff_tsc \in (lcore[k].diff + 1) .. (lcore[k].diff + DrainTicks + 1) :
          lcore' = [lcore EXCEPT ![k] =
            [@ EXCEPT !.pc = IF diff_tsc > DrainTicks THEN "drain" ELSE "rx", !.i = 1, !.diff = diff_tsc]]
    BY <1>4 DEF LoopTop
  <2> DEFINE st == [lcore[k] EXCEPT !.pc = IF diff_tsc > DrainTicks THEN "drain" ELSE "rx", !.i = 1,
                                    !.diff = diff_tsc]
  <2>2. lcore' = [lcore EXCEPT ![k] = st]
    BY <2>1
  <2>3. diff_tsc \in Nat
    <3>1. lcore[k].diff \in Nat
      BY <1>1 DEF LoopStates
    <3> QED
      BY <3>1, Consts
  <2>4. st \in LoopStates /\ st.pc \in {"drain", "rx"} /\ st.i = 1
    BY <1>1, <2>3 DEF LoopStates, LoopPcs
  <2> HIDE DEF st
  <2> QED
    BY <1>1, <1>2, <2>2, <2>4, QuietLoops
<1> QED
  BY <1>3, <1>4

(* signal_handler and main.                                                 *)
LEMMA MainKeeps ==
  ASSUME L2fwdInv, signal_handler \/ Main
  PROVE  L2fwdInv'
<1>1. Still
  BY DEF signal_handler, Main, check_all_ports_link_status, Launch, MainCloses, Still, Tables
<1>2. lcore \in [Lcores -> LoopStates] /\ Loops /\ Waits
  BY DEF L2fwdInv, TypeInv
<1>3. CASE UNCHANGED lcore
  <2>1. (TypeInv /\ OnePolls /\ Buffered /\ TxPortMac /\ Counts)'
    <3>1. lcore' \in [Lcores -> LoopStates] /\ \A l \in Enabled : lcore'[l] = lcore[l]
      BY <1>2, <1>3
    <3> QED
      BY <1>1, <3>1, QuietStep
  <2>2. Loops'
    BY <1>1, <1>2, <1>3, LoopKept DEF Loops
  <2>3. main'.pc \in {"check", "printed", "checked"} => main.pc \in {"check", "printed", "checked"}
    <3>1. CASE signal_handler
      BY <3>1 DEF signal_handler
    <3>2. CASE check_all_ports_link_status
      BY <3>2 DEF check_all_ports_link_status, CheckQuits, PrintPass, CheckPass
    <3>3. CASE Launch
      BY <3>3 DEF Launch
    <3>4. CASE MainCloses
      <4>1. main.pc = "launched" /\ main' = [main EXCEPT !.pc = "closed"]
        BY <3>4 DEF MainCloses
      <4> QED
        BY <4>1
    <3> QED
      BY <3>1, <3>2, <3>3, <3>4 DEF Main
  <2>4. Waits'
    BY <1>2, <1>3, <2>3 DEF Waits
  <2> QED
    BY <2>1, <2>2, <2>4 DEF L2fwdInv
<1>4. CASE Launch
  <2>1. /\ main.pc \in {"printed", "checked"} /\ main'.pc = "launched"
        /\ lcore' = [k \in Lcores |-> IF k \in Enabled THEN [lcore[k] EXCEPT !.pc = "start"] ELSE lcore[k]]
    BY <1>4 DEF Launch
  <2>2. \A k \in Lcores : [lcore[k] EXCEPT !.pc = "start"] \in LoopStates
    BY <1>2 DEF LoopStates, LoopPcs
  <2>3. \A k \in Enabled : lcore[k].pc = "wait" /\ lcore'[k].pc = "start"
    BY <1>2, <2>1, Consts DEF Waits, LoopStates
  <2>4. lcore' \in [Lcores -> LoopStates]
    BY <1>2, <2>1, <2>2
  <2>5. (TypeInv /\ OnePolls /\ Buffered /\ TxPortMac /\ Counts)'
    BY <1>1, <2>3, <2>4, QuietStep
  <2>6. Loops'
    BY <2>3 DEF Loops, LoopOf
  <2>7. Waits'
    BY <2>1 DEF Waits
  <2> QED
    BY <2>5, <2>6, <2>7 DEF L2fwdInv
<1> QED
  BY <1>3, <1>4 DEF signal_handler, Main, check_all_ports_link_status, MainCloses

LEMMA TimesMoves ==
  ASSUME NEW port \in Ports, NEW buffered, NEW addr, Moved(port, buffered, addr)
  PROVE  /\ \A m : Times(m, port)' = OnWire(wire[port], m) + Copies(buffered, m) + Copies(freed[port], m)
         /\ \A m : \A q \in Ports : q # port => Times(m, q)' = Times(m, q)
<1>1. \A m, q : Times(m, q)' = OnWire(wire'[q], m) + Copies(tx_buffer'[q], m) + Copies(freed'[q], m)
  BY DEF Times, OnWire, Copies
<1>2. \A m : OnWire(wire'[port], m) + Copies(tx_buffer'[port], m) + Copies(freed'[port], m)
              = OnWire(wire[port], m) + Copies(buffered, m) + Copies(freed[port], m)
  BY DEF Moved
<1>3. \A q \in Ports : q # port =>
        tx_buffer'[q] = tx_buffer[q] /\ wire'[q] = wire[q] /\ freed'[q] = freed[q]
  BY DEF Moved
<1>4. \A m : Times(m, port)' = OnWire(wire[port], m) + Copies(buffered, m) + Copies(freed[port], m)
  BY ONLY <1>1, <1>2
<1>5. ASSUME NEW m, NEW q \in Ports, q # port PROVE Times(m, q)' = Times(m, q)
  <2>1. tx_buffer'[q] = tx_buffer[q] /\ wire'[q] = wire[q] /\ freed'[q] = freed[q]
    BY <1>3, <1>5
  <2>2. Times(m, q)' = OnWire(wire[q], m) + Copies(tx_buffer[q], m) + Copies(freed[q], m)
    BY <1>1, <2>1
  <2>3. Times(m, q) = OnWire(wire[q], m) + Copies(tx_buffer[q], m) + Copies(freed[q], m)
    BY TimesIs
  <2> QED
    BY ONLY <2>2, <2>3
<1> QED
  BY <1>4, <1>5

(* What is buffered and sent keeps its destination, if what is moved has    *)
(* port for its own.                                                        *)
LEMMA MovedMarks ==
  ASSUME L2fwdInv, NEW port \in Ports, NEW buffered \in Seq(Packets), NEW addr, Moved(port, buffered, addr),
         UNCHANGED dst_ports, mac' = addr,
         \A x \in DOMAIN buffered : /\ dst_ports[buffered[x][1]] = port
                                    /\ MacUpdating => addr[buffered[x]] = port,
         \A m \in Packets : dst_ports[m[1]] # port => addr[m] = mac[m]
  PROVE  Buffered' /\ TxPortMac'
<1>1. \A q \in Ports : q # port => tx_buffer'[q] = tx_buffer[q] /\ wire'[q] = wire[q]
  BY DEF Moved
<1>2. Buffered /\ TxPortMac /\ \A q \in Ports : tx_buffer[q] \in Seq(Packets)
  BY DEF L2fwdInv, TypeInv
<1>3. ASSUME NEW q \in Ports, NEW n \in DOMAIN tx_buffer'[q]
      PROVE  /\ dst_ports[tx_buffer'[q][n][1]] = q
             /\ MacUpdating => addr[tx_buffer'[q][n]] = q
  <2>1. CASE q = port
    <3>1. PICK x \in DOMAIN buffered : tx_buffer'[port][n] = buffered[x]
      BY <1>3, <2>1 DEF Moved
    <3> QED
      BY <2>1, <3>1
  <2>2. CASE q # port
    <3>1. tx_buffer'[q] = tx_buffer[q]
      BY <1>1, <2>2
    <3>2. dst_ports[tx_buffer[q][n][1]] = q /\ (MacUpdating => mac[tx_buffer[q][n]] = q)
      BY <1>2, <1>3, <3>1 DEF Buffered
    <3>3. tx_buffer[q][n] \in Packets
      BY <1>2, <1>3, <3>1, SeqParts
    <3>4. addr[tx_buffer[q][n]] = mac[tx_buffer[q][n]]
      BY <2>2, <3>2, <3>3
    <3> QED
      BY <3>1, <3>2, <3>4
  <2> QED
    BY <2>1, <2>2
<1>4. ASSUME MacUpdating, NEW q \in Ports, NEW n \in DOMAIN wire'[q] PROVE wire'[q][n][2] = q
  <2>1. CASE q = port
    <3>1. CASE n \in DOMAIN wire[port] /\ wire'[port][n] = wire[port][n]
      BY <1>2, <1>4, <2>1, <3>1 DEF TxPortMac
    <3>2. CASE \E x \in DOMAIN buffered : wire'[port][n] = <<buffered[x], addr[buffered[x]]>>
      BY <1>4, <2>1, <3>2
    <3> QED
      BY <1>4, <2>1, <3>1, <3>2 DEF Moved
  <2>2. CASE q # port
    BY <1>1, <1>2, <1>4, <2>2 DEF TxPortMac
  <2> QED
    BY <2>1, <2>2
<1>5. Buffered'
  BY <1>3 DEF Buffered
<1>6. TxPortMac'
  BY <1>4 DEF TxPortMac
<1> QED
  BY <1>5, <1>6

LEMMA OthersLoop ==
  ASSUME L2fwdInv, NEW k \in Enabled, qconf[k] # <<>>, UNCHANGED qconf,
         \A l \in Enabled : l # k => lcore'[l] = lcore[l]
  PROVE  \A l \in Enabled : l # k => LoopOf(l)' /\ InHand(l) = {} /\ InHand(l)' = {}
<1> SUFFICES ASSUME NEW l \in Enabled, l # k PROVE LoopOf(l)' /\ InHand(l) = {} /\ InHand(l)' = {}
  OBVIOUS
<1>1. lcore[l].pc \notin {"loop", "drain", "rx", "forward"} /\ InHand(l) = {}
  BY OnlyHand DEF L2fwdInv
<1>2. lcore'[l].pc \notin {"loop", "drain", "rx", "forward"}
  BY <1>1
<1> QED
  BY <1>1, <1>2 DEF LoopOf, InHand

LEMMA NextPortIs ==
  ASSUME NEW k, NEW st \in LoopStates, st.i \in 1 .. Len(qconf[k]), Len(qconf[k]) \in Nat
  PROVE  /\ NextPort(k, st) \in LoopStates /\ NextPort(k, st).pc \in {"rx", "loop"}
         /\ NextPort(k, st).pc = "rx" => NextPort(k, st).i \in 1 .. Len(qconf[k])
<1>1. CASE st.i < Len(qconf[k])
  <2> DEFINE s2 == [st EXCEPT !.pc = "rx", !.i = @ + 1]
  <2>1. NextPort(k, st) = s2
    BY <1>1 DEF NextPort
  <2>2. st.i \in Nat /\ st.i + 1 \in Nat /\ st.i + 1 \in 1 .. Len(qconf[k])
    BY <1>1
  <2>3. s2.pc = "rx" /\ s2.i = st.i + 1
    BY DEF LoopStates
  <2>4. s2 \in LoopStates
    BY <2>2 DEF LoopStates, LoopPcs
  <2> HIDE DEF s2
  <2> QED
    BY <2>1, <2>2, <2>3, <2>4
<1>2. CASE ~(st.i < Len(qconf[k]))
  <2> DEFINE s2 == [st EXCEPT !.pc = "loop", !.i = 1]
  <2>1. NextPort(k, st) = s2
    BY <1>2 DEF NextPort
  <2>2. s2.pc = "loop" /\ s2 \in LoopStates
    BY DEF LoopStates, LoopPcs
  <2> HIDE DEF s2
  <2> QED
    BY <2>1, <2>2
<1> QED
  BY <1>1, <1>2

LEMMA DrainKeeps ==
  ASSUME L2fwdInv, NEW k \in Enabled, Drain(k)
  PROVE  L2fwdInv'
<1> DEFINE st == IF lcore[k].i < Len(qconf[k]) THEN [lcore[k] EXCEPT !.i = @ + 1]
                 ELSE [lcore[k] EXCEPT !.pc = "rx", !.i = 1, !.diff = 0]
<1>1. /\ TypeInv /\ OnePolls /\ Waits /\ Loops /\ Buffered /\ Counts /\ LoopOf(k) /\ k \in Lcores
      /\ lcore[k] \in LoopStates /\ lcore \in [Lcores -> LoopStates]
  BY Consts DEF L2fwdInv, TypeInv, Loops
<1>2. /\ lcore[k].pc = "drain" /\ Flush(dst_ports[RxPort(k)], tx_buffer[dst_ports[RxPort(k)]], mac)
      /\ UNCHANGED <<portmask, dst_ports, qconf, pkts_burst, mac, rx, main>>
  BY DEF Drain, Tables
<1>3. lcore' = [lcore EXCEPT ![k] = st]
  <2>1. CASE lcore[k].i < Len(qconf[k])
    BY <2>1 DEF Drain
  <2>2. CASE ~(lcore[k].i < Len(qconf[k]))
    BY <2>2 DEF Drain
  <2> QED
    BY <2>1, <2>2
<1>4. /\ qconf[k] # <<>> /\ Len(qconf[k]) \in Nat /\ lcore[k].i \in 1 .. Len(qconf[k])
      /\ dst_ports[RxPort(k)] \in Ports
  BY <1>1, <1>2, RxPortIs
<1> PICK port \in Ports : port = dst_ports[RxPort(k)]
  BY <1>4
<1>5. st \in LoopStates /\ st.pc \in {"drain", "rx"} /\ st.i \in 1 .. Len(qconf[k])
  <2>1. CASE lcore[k].i < Len(qconf[k])
    <3> DEFINE s2 == [lcore[k] EXCEPT !.i = @ + 1]
    <3>1. lcore[k].i + 1 \in 1 .. Len(qconf[k]) /\ lcore[k].i + 1 \in Nat
      BY <1>4, <2>1
    <3>2. s2 \in LoopStates /\ s2.pc = "drain" /\ s2.i = lcore[k].i + 1
      BY <1>1, <1>2, <3>1 DEF LoopStates
    <3>3. st = s2
      BY <2>1
    <3> HIDE DEF s2, st
    <3> QED
      BY <3>1, <3>2, <3>3
  <2>2. CASE ~(lcore[k].i < Len(qconf[k]))
    <3> DEFINE s2 == [lcore[k] EXCEPT !.pc = "rx", !.i = 1, !.diff = 0]
    <3>1. s2.pc = "rx" /\ s2.i = 1
      BY <1>1 DEF LoopStates
    <3>2. s2 \in LoopStates
      BY <1>1 DEF LoopStates, LoopPcs
    <3>3. st = s2
      BY <2>2
    <3>4. 1 \in 1 .. Len(qconf[k])
      BY <1>4
    <3> HIDE DEF s2, st
    <3> QED
      BY <3>1, <3>2, <3>3, <3>4
  <2> QED
    BY <2>1, <2>2
<1> HIDE DEF st
<1>6. lcore' \in [Lcores -> LoopStates] /\ lcore'[k] = st /\ \A l \in Enabled : l # k => lcore'[l] = lcore[l]
  BY <1>1, <1>3, <1>5, Consts
<1>7. tx_buffer[port] \in Seq(Packets) /\ mac \in [Packets -> Nat]
  BY <1>1, <1>4 DEF TypeInv
<1>8. Moved(port, tx_buffer[port], mac)
  BY <1>1, <1>2, <1>4, <1>7, FlushMoves
<1>9. TypeInv'
  <2>1. tx_buffer' \in [Ports -> Seq(Packets)] /\ wire' \in [Ports -> Seq(Marked)] /\ freed' \in [Ports -> Seq(Packets)]
    BY <1>8 DEF Moved
  <2> QED
    BY <1>1, <1>2, <1>6, <2>1 DEF TypeInv
<1>10. OnePolls' /\ Waits'
  BY <1>1, <1>2 DEF OnePolls, Waits
<1>11. \A l \in Enabled : l # k => LoopOf(l)' /\ InHand(l) = {} /\ InHand(l)' = {}
  BY <1>2, <1>4, <1>6, OthersLoop
<1>12. Loops'
  <2>1. LoopOf(k)'
    BY <1>2, <1>4, <1>5, <1>6 DEF LoopOf
  <2> QED
    BY <1>11, <2>1 DEF Loops
<1>13. Buffered' /\ TxPortMac'
  <2>1. \A x \in DOMAIN tx_buffer[port] : /\ dst_ports[tx_buffer[port][x][1]] = port
                                          /\ MacUpdating => mac[tx_buffer[port][x]] = port
    BY <1>1, <1>4 DEF Buffered
  <2> QED
    BY <1>2, <1>4, <1>7, <1>8, <2>1, MovedMarks
<1>14. Counts'
  <2>1. \A p, n : Handled(p, n)' <=> Handled(p, n)
    <3>1. InHand(k) = {} /\ InHand(k)' = {}
      BY <1>2, <1>5, <1>6 DEF InHand
    <3>2. \A l \in Enabled : InHand(l) = {} /\ InHand(l)' = {}
      BY <1>11, <3>1
    <3> QED
      BY <1>2, <3>2 DEF Handled
  <2>2. \A m : Times(m, port)' = Times(m, port)
    <3>1. \A m : Times(m, port)' = OnWire(wire[port], m) + Copies(tx_buffer[port], m) + Copies(freed[port], m)
      BY <1>4, <1>8, TimesMoves
    <3> QED
      BY <3>1, TimesIs
  <2>3. \A m : \A q \in Ports : Times(m, q)' = Times(m, q)
    BY <1>4, <1>8, <2>2, TimesMoves
  <2>4. ASSUME NEW p \in Ports, NEW n \in 1 .. MaxRx, NEW q \in Ports
        PROVE  Times(<<p, n>>, q)' = IF q = dst_ports'[p] /\ Handled(p, n)' THEN 1 ELSE 0
    <3>1. Times(<<p, n>>, q) = IF q = dst_ports[p] /\ Handled(p, n) THEN 1 ELSE 0
      BY <1>1 DEF Counts
    <3>2. Times(<<p, n>>, q)' = Times(<<p, n>>, q) /\ (Handled(p, n)' <=> Handled(p, n)) /\ dst_ports' = dst_ports
      BY <1>2, <2>1, <2>3
    <3> QED
      BY <3>1, <3>2
  <2> QED
    BY <2>4 DEF Counts
<1> QED
  BY <1>9, <1>10, <1>12, <1>13, <1>14 DEF L2fwdInv

LEMMA MinOfTwo ==
  ASSUME NEW a \in Int, NEW b \in Int
  PROVE  Min({a, b}) \in Int /\ Min({a, b}) <= a /\ Min({a, b}) <= b
<1>1. \E x \in {a, b} : \A y \in {a, b} : x <= y
  <2>1. CASE a <= b
    BY <2>1
  <2>2. CASE ~(a <= b)
    BY <2>2
  <2> QED
    BY <2>1, <2>2
<1>2. Min({a, b}) \in {a, b} /\ \A y \in {a, b} : Min({a, b}) <= y
  BY <1>1 DEF Min
<1> QED
  BY <1>2

(* The bound on what arrives leaves room at every port.                     *)
LEMMA Room ==
  ASSUME TypeInv, NEW port \in Ports
  PROVE  Cardinality(Received) \in Nat /\ rx[port] <= Cardinality(Received)
<1> DEFINE r == rx[port]
           Q == {<<port, n>> : n \in 1 .. r}
           f == [n \in 1 .. r |-> <<port, n>>]
<1>1. rx \in [Ports -> 0 .. MaxRx] /\ r \in 0 .. MaxRx /\ r \in Nat /\ MaxRx \in Nat
  BY Consts DEF TypeInv
<1>2. IsFiniteSet(Ports) /\ IsFiniteSet(1 .. MaxRx) /\ IsFiniteSet(1 .. r) /\ Cardinality(1 .. r) = r
  <2>1. NbPorts - 1 \in Int /\ 0 \in Int /\ 1 \in Int /\ r \in Int /\ MaxRx \in Int
    BY <1>1, Consts
  <2>2. IsFiniteSet(0 .. (NbPorts - 1)) /\ IsFiniteSet(1 .. MaxRx) /\ IsFiniteSet(1 .. r)
    BY <2>1, FS_Interval
  <2>3. Cardinality(1 .. r) = IF 1 > r THEN 0 ELSE r - 1 + 1
    BY <2>1, FS_Interval
  <2> HIDE DEF r
  <2>4. (IF 1 > r THEN 0 ELSE r - 1 + 1) = r
    BY <1>1
  <2> QED
    BY <2>2, <2>3, <2>4 DEF Ports
<1>3. IsFiniteSet(Packets)
  BY <1>2, FS_Product DEF Packets
<1>4. IsFiniteSet(Received) /\ Cardinality(Received) \in Nat
  <2>1. Received \in SUBSET Packets
    BY DEF Received
  <2> QED
    BY <1>3, <2>1, FS_Subset, FS_CardinalityType
<1>5. Q \in SUBSET Received
  BY <1>1 DEF Received, Packets
<1> HIDE DEF r
<1>6. ExistsBijection(1 .. r, Q)
  <2>1. f \in [1 .. r -> Q]
    OBVIOUS
  <2>2. \A x, y \in 1 .. r : f[x] = f[y] => x = y
    OBVIOUS
  <2>3. \A q \in Q : \E n \in 1 .. r : f[n] = q
    OBVIOUS
  <2> HIDE DEF f, Q
  <2>4. f \in Injection(1 .. r, Q) /\ f \in Surjection(1 .. r, Q)
    BY <2>1, <2>2, <2>3 DEF Injection, IsInjective, Surjection
  <2>5. f \in Bijection(1 .. r, Q)
    BY <2>4 DEF Bijection
  <2> QED
    BY <2>5 DEF ExistsBijection
<1> HIDE DEF Q
<1>7. Cardinality(Q) = r
  BY <1>2, <1>6, FS_Bijection
<1>8. Cardinality(Q) <= Cardinality(Received)
  BY <1>4, <1>5, FS_Subset
<1> QED
  BY <1>4, <1>7, <1>8 DEF r

LEMMA RxBurstKeeps ==
  ASSUME L2fwdInv, NEW k \in Enabled, RxBurst(k)
  PROVE  L2fwdInv'
<1>1. /\ TypeInv /\ OnePolls /\ Waits /\ Loops /\ Buffered /\ TxPortMac /\ Counts /\ LoopOf(k) /\ k \in Lcores
      /\ lcore[k] \in LoopStates /\ lcore \in [Lcores -> LoopStates] /\ rx \in [Ports -> 0 .. MaxRx]
  BY Consts DEF L2fwdInv, TypeInv, Loops
<1>2. /\ lcore[k].pc = "rx"
      /\ UNCHANGED <<portmask, dst_ports, qconf, mac, tx_buffer, wire, freed, main>>
  BY DEF RxBurst, Tables
<1>3. /\ RxPort(k) \in Ports /\ qconf[k] # <<>> /\ Len(qconf[k]) \in Nat /\ lcore[k].i \in 1 .. Len(qconf[k])
      /\ rx[RxPort(k)] \in 0 .. MaxRx
  BY <1>1, <1>2, RxPortIs
<1> PICK port \in Ports : port = RxPort(k)
  BY <1>3
<1>4. PICK nb \in 0 .. Min({MAX_PKT_BURST, MaxRx - Cardinality(Received)}) :
        /\ pkts_burst' = [n \in DOMAIN pkts_burst |->
                            IF n < nb THEN <<port, rx[port] + n + 1>> ELSE pkts_burst[n]]
        /\ rx' = [rx EXCEPT ![port] = @ + nb]
        /\ lcore' = [lcore EXCEPT ![k] =
             IF nb = 0 THEN NextPort(k, lcore[k])
             ELSE [@ EXCEPT !.pc = "forward", !.nb_rx = nb, !.j = 0]]
  BY DEF RxBurst
<1> DEFINE r == rx[port]
           st == IF nb = 0 THEN NextPort(k, lcore[k])
                 ELSE [lcore[k] EXCEPT !.pc = "forward", !.nb_rx = nb, !.j = 0]
<1>5. /\ nb \in Nat /\ nb <= MAX_PKT_BURST /\ r \in Nat /\ r + nb \in 0 .. MaxRx /\ r \in 0 .. MaxRx
  <2>1. Cardinality(Received) \in Nat /\ r <= Cardinality(Received)
    BY <1>1, Room
  <2>2. MAX_PKT_BURST \in Int /\ MaxRx - Cardinality(Received) \in Int
    BY <2>1, Consts
  <2>3. /\ Min({MAX_PKT_BURST, MaxRx - Cardinality(Received)}) \in Int
        /\ Min({MAX_PKT_BURST, MaxRx - Cardinality(Received)}) <= MAX_PKT_BURST
        /\ Min({MAX_PKT_BURST, MaxRx - Cardinality(Received)}) <= MaxRx - Cardinality(Received)
    BY <2>2, MinOfTwo
  <2>4. r \in Nat /\ MaxRx \in Nat /\ r \in 0 .. MaxRx
    BY <1>3, Consts
  <2>5. nb \in Nat /\ nb <= MAX_PKT_BURST /\ nb <= MaxRx - Cardinality(Received)
    BY <2>2, <2>3
  <2> HIDE DEF r
  <2>6. r + nb \in 0 .. MaxRx
    BY <2>1, <2>4, <2>5
  <2> QED
    BY <2>4, <2>5, <2>6
<1>6. lcore' = [lcore EXCEPT ![k] = st]
  BY <1>4
<1>7. rx' = [rx EXCEPT ![port] = r + nb]
  BY <1>4
<1>8. pkts_burst' = [n \in DOMAIN pkts_burst |-> IF n < nb THEN <<port, r + n + 1>> ELSE pkts_burst[n]]
  BY <1>4
<1>9. /\ st \in LoopStates /\ st.pc \in {"rx", "loop", "forward"}
      /\ st.pc = "rx" => st.i \in 1 .. Len(qconf[k])
      /\ st.pc = "forward" => st.i = lcore[k].i /\ st.nb_rx = nb /\ st.j = 0 /\ nb # 0
      /\ nb # 0 => st.pc = "forward"
  <2>1. CASE nb = 0
    <3>1. st = NextPort(k, lcore[k])
      BY <2>1
    <3> HIDE DEF st
    <3> QED
      BY <1>1, <1>3, <2>1, <3>1, NextPortIs
  <2>2. CASE nb # 0
    <3> DEFINE s2 == [lcore[k] EXCEPT !.pc = "forward", !.nb_rx = nb, !.j = 0]
    <3>1. s2 \in LoopStates
      BY <1>1, <1>5 DEF LoopStates, LoopPcs
    <3>2. s2.pc = "forward" /\ s2.i = lcore[k].i /\ s2.nb_rx = nb /\ s2.j = 0
      BY <1>1 DEF LoopStates
    <3>3. st = s2
      BY <2>2
    <3> HIDE DEF st, s2
    <3> QED
      BY <2>2, <3>1, <3>2, <3>3
  <2> QED
    BY <2>1, <2>2
<1> HIDE DEF st, r
<1>10. lcore' \in [Lcores -> LoopStates] /\ lcore'[k] = st /\ \A l \in Enabled : l # k => lcore'[l] = lcore[l]
  BY <1>1, <1>6, <1>9, Consts
<1>11. rx' \in [Ports -> 0 .. MaxRx] /\ rx'[port] = r + nb /\ \A p \in Ports : p # port => rx'[p] = rx[p]
  BY <1>1, <1>5, <1>7
<1>12. TypeInv'
  <2>1. DOMAIN pkts_burst' = DOMAIN pkts_burst
    BY <1>8
  <2> QED
    BY <1>1, <1>2, <1>10, <1>11, <2>1 DEF TypeInv
<1>13. OnePolls' /\ Waits' /\ Buffered' /\ TxPortMac'
  BY <1>1, <1>2 DEF OnePolls, Waits, Buffered, TxPortMac
<1>14. \A l \in Enabled : l # k => LoopOf(l)' /\ InHand(l) = {} /\ InHand(l)' = {}
  BY <1>2, <1>3, <1>10, OthersLoop
<1>15. st.pc = "forward" => RxPort(k)' = port
  BY <1>2, <1>9, <1>10 DEF RxPort
<1>16. LoopOf(k)'
  <2>1. CASE st.pc = "forward"
    <3>1. lcore'[k].j = 0 /\ lcore'[k].nb_rx = nb /\ RxPort(k)' = port /\ nb # 0 /\ lcore'[k].i = lcore[k].i
      BY <1>9, <1>10, <1>15, <2>1
    <3>2. lcore'[k].j < lcore'[k].nb_rx /\ lcore'[k].nb_rx <= MAX_PKT_BURST /\ lcore'[k].nb_rx <= rx'[port]
      BY <1>5, <1>11, <3>1
    <3>3. ASSUME NEW n \in 0 .. (nb - 1) PROVE pkts_burst'[n] = <<port, (r + nb) - nb + n + 1>>
      <4>1. n \in DOMAIN pkts_burst /\ n < nb /\ (r + nb) - nb + n + 1 = r + n + 1
        BY <1>1, <1>5, Consts DEF TypeInv
      <4> QED
        BY <1>8, <4>1
    <3> QED
      BY <1>2, <1>3, <1>11, <3>1, <3>2, <3>3 DEF LoopOf
  <2>2. CASE st.pc # "forward"
    BY <1>2, <1>3, <1>9, <1>10, <2>2 DEF LoopOf
  <2> QED
    BY <2>1, <2>2
<1>17. Loops'
  BY <1>14, <1>16 DEF Loops
<1>18. ASSUME NEW p \in Ports, NEW n \in Nat PROVE Handled(p, n)' <=> Handled(p, n)
  <2>1. InHand(k) = {}
    BY <1>2 DEF InHand
  <2>2. <<p, n>> \in InHand(k)' <=> st.pc = "forward" /\ p = port /\ r + 1 <= n /\ n <= r + nb
    <3>1. CASE st.pc = "forward"
      <4>1. InHand(k)' = HandOf(st, port, r + nb)
        BY <1>10, <1>11, <1>15, <3>1, HandIsNext DEF RxPort
      <4>2. st.nb_rx = nb /\ st.j = 0 /\ r + nb \in Nat /\ nb <= r + nb /\ (r + nb) - nb + 0 + 1 = r + 1
        BY <1>5, <1>9, <3>1
      <4>3. <<p, n>> \in HandOf(st, port, r + nb) <=>
              st.pc = "forward" /\ p = port /\ (r + nb) - st.nb_rx + st.j + 1 <= n /\ n <= r + nb
        BY <1>9, <4>2, HandSpan
      <4> QED
        BY <4>1, <4>2, <4>3
    <3>2. CASE st.pc # "forward"
      BY <1>10, <3>2 DEF InHand
    <3> QED
      BY <3>1, <3>2
  <2>3. Handled(p, n) <=> n <= rx[p]
    BY <1>14, <2>1 DEF Handled
  <2>4. Handled(p, n)' <=> n <= rx'[p] /\ <<p, n>> \notin InHand(k)'
    BY <1>14 DEF Handled
  <2>5. CASE p # port
    BY <1>11, <2>2, <2>3, <2>4, <2>5
  <2>6. CASE p = port
    <3>1. rx'[p] = r + nb /\ rx[p] = r
      BY <1>11, <2>6 DEF r
    <3>2. n <= r <=> (n <= r + nb /\ ~(nb # 0 /\ r + 1 <= n /\ n <= r + nb))
      BY <1>5
    <3> QED
      BY <1>9, <2>2, <2>3, <2>4, <2>6, <3>1, <3>2
  <2> QED
    BY <2>5, <2>6
<1>19. Counts'
  <2>1. \A m, q : Times(m, q)' = Times(m, q)
    BY <1>2 DEF Times
  <2>2. ASSUME NEW p \in Ports, NEW n \in 1 .. MaxRx, NEW q \in Ports
        PROVE  Times(<<p, n>>, q)' = IF q = dst_ports'[p] /\ Handled(p, n)' THEN 1 ELSE 0
    <3>1. Times(<<p, n>>, q) = IF q = dst_ports[p] /\ Handled(p, n) THEN 1 ELSE 0
      BY <1>1 DEF Counts
    <3>2. Handled(p, n)' <=> Handled(p, n)
      <4>1. n \in Nat
        OBVIOUS
      <4> QED
        BY <1>18, <4>1
    <3> QED
      BY <1>2, <2>1, <3>1, <3>2
  <2> QED
    BY <2>2 DEF Counts
<1> QED
  BY <1>12, <1>13, <1>17, <1>19 DEF L2fwdInv

LEMMA ForwardKeeps ==
  ASSUME L2fwdInv, NEW k \in Enabled, l2fwd_simple_forward(k)
  PROVE  L2fwdInv'
<1>1. /\ TypeInv /\ OnePolls /\ Waits /\ Loops /\ Buffered /\ TxPortMac /\ Counts /\ LoopOf(k) /\ k \in Lcores
      /\ lcore[k] \in LoopStates /\ lcore \in [Lcores -> LoopStates] /\ rx \in [Ports -> 0 .. MaxRx]
  BY Consts DEF L2fwdInv, TypeInv, Loops
<1>2. /\ lcore[k].pc = "forward"
      /\ UNCHANGED <<portmask, dst_ports, qconf, pkts_burst, rx, main>>
  BY DEF l2fwd_simple_forward, Tables
<1>3. /\ RxPort(k) \in Ports /\ dst_ports[RxPort(k)] \in Ports /\ qconf[k] # <<>> /\ Len(qconf[k]) \in Nat
      /\ lcore[k].i \in 1 .. Len(qconf[k]) /\ rx[RxPort(k)] \in 0 .. MaxRx
  BY <1>1, <1>2, RxPortIs
<1> PICK port \in Ports, dst \in Ports : port = RxPort(k) /\ dst = dst_ports[port]
  BY <1>3
<1> PICK r \in 0 .. MaxRx, nb \in Nat, j \in Nat : r = rx[port] /\ nb = lcore[k].nb_rx /\ j = lcore[k].j
  BY <1>1, <1>3 DEF LoopStates
<1>4. /\ j < nb /\ nb <= r /\ r \in Nat /\ r <= MaxRx /\ MaxRx \in Nat
      /\ \A n \in 0 .. (nb - 1) : pkts_burst[n] = <<port, r - nb + n + 1>>
  <2>1. /\ lcore[k].j < lcore[k].nb_rx /\ lcore[k].nb_rx <= rx[RxPort(k)]
        /\ \A n \in 0 .. (lcore[k].nb_rx - 1) :
             pkts_burst[n] = <<RxPort(k), rx[RxPort(k)] - lcore[k].nb_rx + n + 1>>
    BY <1>1, <1>2 DEF LoopOf
  <2>2. j < nb /\ nb <= r
    BY <2>1
  <2>3. \A n \in 0 .. (nb - 1) : pkts_burst[n] = <<port, r - nb + n + 1>>
    BY <2>1
  <2>4. r \in Nat /\ r <= MaxRx /\ MaxRx \in Nat
    BY Consts
  <2> QED
    BY <2>2, <2>3, <2>4
<1> PICK x \in Nat : x = r - nb + j + 1
  BY <1>4
<1>5. x \in 1 .. MaxRx /\ x <= r
  BY <1>4
<1>m. PICK m \in Packets : m = <<port, x>>
  BY <1>5 DEF Packets
<1>6. pkts_burst[j] = m
  <2>1. j \in 0 .. (nb - 1)
    BY <1>4
  <2> QED
    BY <1>4, <1>m, <2>1
<1>addr. PICK addr : addr = IF MacUpdating THEN l2fwd_mac_updating(m, dst) ELSE mac
  OBVIOUS
<1>buf. PICK buffered : buffered = Append(tx_buffer[dst], m)
  OBVIOUS
<1>st. PICK st : st = IF j + 1 < nb THEN [lcore[k] EXCEPT !.j = j + 1] ELSE NextPort(k, lcore[k])
  OBVIOUS
<1>7. tx_buffer[dst] \in Seq(Packets) /\ mac \in [Packets -> Nat] /\ tx_buffer \in [Ports -> Seq(Packets)]
  BY <1>1 DEF TypeInv
<1>8. /\ buffered \in Seq(Packets) /\ Len(buffered) = Len(tx_buffer[dst]) + 1 /\ Len(tx_buffer[dst]) \in Nat
      /\ buffered[Len(tx_buffer[dst]) + 1] = m /\ \A n \in 1 .. Len(tx_buffer[dst]) : buffered[n] = tx_buffer[dst][n]
      /\ DOMAIN buffered = 1 .. Len(buffered) /\ DOMAIN tx_buffer[dst] = 1 .. Len(tx_buffer[dst])
  <2>1. /\ buffered \in Seq(Packets) /\ Len(buffered) = Len(tx_buffer[dst]) + 1
        /\ buffered[Len(tx_buffer[dst]) + 1] = m /\ \A n \in 1 .. Len(tx_buffer[dst]) : buffered[n] = tx_buffer[dst][n]
    BY <1>7, <1>buf, AppendParts
  <2>2. /\ Len(tx_buffer[dst]) \in Nat /\ DOMAIN tx_buffer[dst] = 1 .. Len(tx_buffer[dst])
        /\ DOMAIN buffered = 1 .. Len(buffered)
    BY <1>7, <2>1, SeqParts
  <2> QED
    BY <2>1, <2>2
<1>9. /\ addr \in [Packets -> Nat] /\ (MacUpdating => addr[m] = dst)
      /\ \A n \in Packets : n # m => addr[n] = mac[n]
      /\ ~MacUpdating => addr = mac
  <2>1. dst \in Nat
    BY Consts
  <2>2. CASE MacUpdating
    <3>1. addr = [mac EXCEPT ![m] = dst]
      BY <1>addr, <2>2 DEF l2fwd_mac_updating
    <3> QED
      BY <1>7, <2>1, <2>2, <3>1
  <2>3. CASE ~MacUpdating
    BY <1>7, <1>addr, <2>3
  <2> QED
    BY <2>2, <2>3
<1>10. /\ mac' = addr
       /\ IF Len(buffered) < MAX_PKT_BURST
            THEN tx_buffer' = [tx_buffer EXCEPT ![dst] = buffered] /\ UNCHANGED <<wire, freed>>
            ELSE Flush(dst, buffered, addr)
  BY <1>6, <1>addr, <1>buf DEF l2fwd_simple_forward
<1>11. lcore' = [lcore EXCEPT ![k] = st]
  BY <1>st DEF l2fwd_simple_forward
<1>12. /\ st \in LoopStates /\ st.pc \in {"rx", "loop", "forward"}
       /\ st.pc = "rx" => st.i \in 1 .. Len(qconf[k])
       /\ st.pc = "forward" => st.i = lcore[k].i /\ st.nb_rx = nb /\ st.j = j + 1 /\ j + 1 < nb
       /\ j + 1 < nb => st.pc = "forward"
  <2>1. CASE ~(j + 1 < nb)
    <3>1. st = NextPort(k, lcore[k])
      BY <1>st, <2>1
    <3> QED
      BY <1>1, <1>3, <2>1, <3>1, NextPortIs
  <2>2. CASE j + 1 < nb
    <3> DEFINE s2 == [lcore[k] EXCEPT !.j = j + 1]
    <3>1. s2 \in LoopStates
      BY <1>1 DEF LoopStates
    <3>2. s2.pc = "forward" /\ s2.i = lcore[k].i /\ s2.nb_rx = nb /\ s2.j = j + 1
      BY <1>1, <1>2 DEF LoopStates
    <3>3. st = s2
      BY <1>st, <2>2
    <3> HIDE DEF s2
    <3> QED
      BY <2>2, <3>1, <3>2, <3>3
  <2> QED
    BY <2>1, <2>2
<1>13. lcore' \in [Lcores -> LoopStates] /\ lcore'[k] = st /\ \A l \in Enabled : l # k => lcore'[l] = lcore[l]
  BY <1>1, <1>11, <1>12, Consts
<1>14. Moved(dst, buffered, addr)
  <2>1. CASE Len(buffered) < MAX_PKT_BURST
    <3>1. tx_buffer' = [tx_buffer EXCEPT ![dst] = buffered] /\ UNCHANGED <<wire, freed>>
      BY <1>10, <2>1
    <3> QED
      BY <1>1, <1>8, <3>1, BufferMoves
  <2>2. CASE ~(Len(buffered) < MAX_PKT_BURST)
    <3>1. Flush(dst, buffered, addr)
      BY <1>10, <2>2
    <3> QED
      BY <1>1, <1>8, <1>9, <3>1, FlushMoves
  <2> QED
    BY <2>1, <2>2
<1>15. TypeInv'
  <2>1. tx_buffer' \in [Ports -> Seq(Packets)] /\ wire' \in [Ports -> Seq(Marked)] /\ freed' \in [Ports -> Seq(Packets)]
    BY <1>14 DEF Moved
  <2> QED
    BY <1>1, <1>2, <1>9, <1>10, <1>13, <2>1 DEF TypeInv
<1>16. OnePolls' /\ Waits'
  <2>1. Waits'
    BY <1>1, <1>2, <1>13 DEF Waits
  <2> QED
    BY <1>1, <1>2, <2>1 DEF OnePolls
<1>17. \A l \in Enabled : l # k => LoopOf(l)' /\ InHand(l) = {} /\ InHand(l)' = {}
  BY <1>2, <1>3, <1>13, OthersLoop
<1>18. st.pc = "forward" => RxPort(k)' = port
  BY <1>2, <1>12, <1>13 DEF RxPort
<1>19. LoopOf(k)'
  <2>1. CASE st.pc = "forward"
    <3>1. lcore'[k].j = j + 1 /\ lcore'[k].nb_rx = nb /\ RxPort(k)' = port /\ j + 1 < nb /\ lcore'[k].i = lcore[k].i
      BY <1>12, <1>13, <1>18, <2>1
    <3>2. nb <= MAX_PKT_BURST
      BY <1>1, <1>2 DEF LoopOf
    <3> QED
      BY <1>2, <1>3, <1>4, <3>1, <3>2 DEF LoopOf
  <2>2. CASE st.pc # "forward"
    BY <1>2, <1>3, <1>12, <1>13, <2>2 DEF LoopOf
  <2> QED
    BY <2>1, <2>2
<1>20. Loops'
  BY <1>17, <1>19 DEF Loops
<1>21. Buffered' /\ TxPortMac'
  <2>1. ASSUME NEW n \in DOMAIN buffered
        PROVE  dst_ports[buffered[n][1]] = dst /\ (MacUpdating => addr[buffered[n]] = dst)
    <3>1. CASE n \in 1 .. Len(tx_buffer[dst])
      <4>1. buffered[n] = tx_buffer[dst][n] /\ tx_buffer[dst][n] \in Packets
        BY <1>7, <1>8, <3>1, SeqParts
      <4>2. dst_ports[tx_buffer[dst][n][1]] = dst /\ (MacUpdating => mac[tx_buffer[dst][n]] = dst)
        <5>1. n \in DOMAIN tx_buffer[dst]
          BY <1>8, <3>1
        <5> QED
          BY <1>1, <5>1 DEF Buffered
      <4> QED
        BY <1>9, <4>1, <4>2
    <3>2. CASE n = Len(tx_buffer[dst]) + 1
      <4>1. buffered[n] = m /\ m[1] = port
        BY <1>8, <1>m, <3>2
      <4> QED
        BY <1>9, <4>1
    <3>3. n \in 1 .. Len(tx_buffer[dst]) \/ n = Len(tx_buffer[dst]) + 1
      BY <1>8
    <3> QED
      BY <3>1, <3>2, <3>3
  <2>2. \A n \in Packets : dst_ports[n[1]] # dst => addr[n] = mac[n]
    <3>1. m[1] = port
      BY <1>m
    <3> QED
      BY <1>9, <3>1
  <2> QED
    <3>1. UNCHANGED dst_ports /\ mac' = addr /\ buffered \in Seq(Packets)
      BY <1>2, <1>8, <1>10
    <3>2. \A n \in DOMAIN buffered : /\ dst_ports[buffered[n][1]] = dst
                                     /\ MacUpdating => addr[buffered[n]] = dst
      BY <2>1
    <3> QED
      BY ONLY L2fwdInv, dst \in Ports, <1>14, <2>2, <3>1, <3>2, MovedMarks
<1>22. ASSUME NEW p \in Ports, NEW n \in Nat
       PROVE  /\ <<p, n>> # m => (Handled(p, n)' <=> Handled(p, n))
              /\ <<p, n>> = m => Handled(p, n)' /\ ~Handled(p, n)
  <2>1. <<p, n>> \in InHand(k) <=> p = port /\ x <= n /\ n <= r
    <3>1. InHand(k) = HandOf(lcore[k], port, r)
      BY HandIs
    <3>2. <<p, n>> \in HandOf(lcore[k], port, r) <=> p = port /\ r - nb + j + 1 <= n /\ n <= r
      BY <1>1, <1>2, <1>4, HandSpan
    <3> QED
      BY <3>1, <3>2
  <2>2. <<p, n>> \in InHand(k)' <=> p = port /\ x + 1 <= n /\ n <= r
    <3>1. CASE st.pc = "forward"
      <4>1. InHand(k)' = HandOf(st, port, r)
        BY <1>2, <1>13, <1>18, <3>1, HandIsNext DEF RxPort
      <4>2. <<p, n>> \in HandOf(st, port, r) <=> p = port /\ r - st.nb_rx + st.j + 1 <= n /\ n <= r
        BY <1>4, <1>12, <3>1, HandSpan
      <4>3. st.nb_rx = nb /\ st.j = j + 1
        BY <1>12, <3>1
      <4>4. r - nb + (j + 1) + 1 = x + 1
        BY <1>4
      <4> QED
        BY <4>1, <4>2, <4>3, <4>4
    <3>2. CASE st.pc # "forward"
      <4>1. InHand(k)' = {}
        BY <1>13, <3>2 DEF InHand
      <4>2. x = r
        <5>1. j + 1 = nb
          BY <1>4, <1>12, <3>2
        <5> QED
          BY <1>4, <5>1
      <4> QED
        BY <1>4, <4>1, <4>2
    <3> QED
      BY <3>1, <3>2
  <2>3. Handled(p, n) <=> n <= rx[p] /\ <<p, n>> \notin InHand(k)
    BY <1>17 DEF Handled
  <2>4. Handled(p, n)' <=> n <= rx[p] /\ <<p, n>> \notin InHand(k)'
    BY <1>2, <1>17 DEF Handled
  <2>5. CASE <<p, n>> = m
    <3>1. p = port /\ n = x /\ rx[p] = r
      BY <1>m, <2>5
    <3>2. ~(x + 1 <= x) /\ x <= x
      OBVIOUS
    <3> QED
      BY <1>5, <2>1, <2>2, <2>3, <2>4, <2>5, <3>1, <3>2
  <2>6. CASE <<p, n>> # m
    <3>1. p = port => n # x
      BY <1>m, <2>6
    <3>2. p = port => (x <= n <=> x + 1 <= n)
      BY <3>1
    <3> QED
      BY <2>1, <2>2, <2>3, <2>4, <2>6, <3>2
  <2> QED
    BY <2>5, <2>6
<1>23. ASSUME NEW p \in Ports, NEW n \in 1 .. MaxRx, NEW q \in Ports
       PROVE  Times(<<p, n>>, q)' = IF q = dst_ports'[p] /\ Handled(p, n)' THEN 1 ELSE 0
  <2>1. Times(<<p, n>>, q) = IF q = dst_ports[p] /\ Handled(p, n) THEN 1 ELSE 0
    BY <1>1 DEF Counts
  <2>2. n \in Nat /\ <<p, n>> \in Packets
    BY DEF Packets
  <2>3. /\ <<p, n>> # m => (Handled(p, n)' <=> Handled(p, n))
        /\ <<p, n>> = m => Handled(p, n)' /\ ~Handled(p, n)
    BY <1>22, <2>2
  <2>4. CASE q # dst
    <3>1. Times(<<p, n>>, q)' = Times(<<p, n>>, q)
      BY <1>14, <2>4, TimesMoves
    <3>2. <<p, n>> = m => p = port
      BY <1>m
    <3> QED
      BY <1>2, <2>1, <2>3, <2>4, <3>1, <3>2
  <2>5. CASE q = dst
    <3>1. Times(<<p, n>>, dst)' = OnWire(wire[dst], <<p, n>>) + Copies(buffered, <<p, n>>) + Copies(freed[dst], <<p, n>>)
      BY <1>14, TimesMoves
    <3>2. Times(<<p, n>>, dst) = OnWire(wire[dst], <<p, n>>) + Copies(tx_buffer[dst], <<p, n>>) + Copies(freed[dst], <<p, n>>)
      BY TimesIs
    <3>3. Copies(buffered, <<p, n>>) = Copies(tx_buffer[dst], <<p, n>>) + (IF m = <<p, n>> THEN 1 ELSE 0)
      <4>1. \A y : Copies(buffered, y) = Copies(tx_buffer[dst], y) + (IF m = y THEN 1 ELSE 0)
        BY <1>7, <1>buf, CopiesAppend
      <4> QED
        BY <4>1
    <3>4. /\ OnWire(wire[dst], <<p, n>>) \in Nat /\ Copies(freed[dst], <<p, n>>) \in Nat
          /\ Copies(tx_buffer[dst], <<p, n>>) \in Nat
      <4>1. wire[dst] \in Seq(Marked) /\ freed[dst] \in Seq(Packets)
        BY <1>1 DEF TypeInv
      <4> QED
        BY <1>7, <4>1, CopiesType
    <3>5. Times(<<p, n>>, dst)' = Times(<<p, n>>, dst) + (IF m = <<p, n>> THEN 1 ELSE 0) /\ Times(<<p, n>>, dst) \in Nat
      BY ONLY <3>1, <3>2, <3>3, <3>4
    <3>6. CASE <<p, n>> = m
      <4>1. p = port /\ dst = dst_ports[p]
        BY <1>m, <3>6
      <4>2. Times(<<p, n>>, dst) = 0 /\ Handled(p, n)'
        BY <2>1, <2>3, <2>5, <3>6
      <4> QED
        BY <1>2, <2>5, <3>5, <3>6, <4>1, <4>2
    <3>7. CASE <<p, n>> # m
      <4>1. Times(<<p, n>>, dst)' = Times(<<p, n>>, dst)
        BY <3>5, <3>7
      <4> QED
        BY <1>2, <2>1, <2>3, <2>5, <3>7, <4>1
    <3> QED
      BY <3>6, <3>7
  <2> QED
    BY <2>4, <2>5
<1>24. Counts'
  BY <1>23 DEF Counts
<1> QED
  BY <1>15, <1>16, <1>20, <1>21, <1>24 DEF L2fwdInv

LEMMA InvNext == L2fwdInv /\ [Next]_vars => L2fwdInv'
<1> SUFFICES ASSUME L2fwdInv, [Next]_vars PROVE L2fwdInv'
  OBVIOUS
<1>1. CASE UNCHANGED vars
  <2>1. Still /\ UNCHANGED lcore /\ UNCHANGED main
    BY <1>1 DEF vars, Still
  <2>2. lcore' \in [Lcores -> LoopStates] /\ \A l \in Enabled : lcore'[l] = lcore[l]
    BY <2>1 DEF L2fwdInv, TypeInv
  <2>3. (TypeInv /\ OnePolls /\ Buffered /\ TxPortMac /\ Counts)'
    BY <2>1, <2>2, QuietStep
  <2>4. Loops'
    BY <2>1, <2>2, LoopKept DEF L2fwdInv, Loops
  <2>5. Waits'
    BY <2>1 DEF L2fwdInv, Waits
  <2> QED
    BY <2>3, <2>4, <2>5 DEF L2fwdInv
<1>2. CASE signal_handler \/ Main
  BY <1>2, MainKeeps
<1>3. ASSUME NEW k \in Enabled, l2fwd_main_loop(k) PROVE L2fwdInv'
  <2>1. CASE EnterLoop(k)
    BY <2>1, EnterLoopKeeps
  <2>2. CASE LoopTop(k)
    BY <2>2, LoopTopKeeps
  <2>3. CASE Drain(k)
    BY <2>3, DrainKeeps
  <2>4. CASE RxBurst(k)
    BY <2>4, RxBurstKeeps
  <2>5. CASE l2fwd_simple_forward(k)
    BY <2>5, ForwardKeeps
  <2> QED
    BY <1>3, <2>1, <2>2, <2>3, <2>4, <2>5 DEF l2fwd_main_loop
<1> QED
  BY <1>1, <1>2, <1>3 DEF Next

(* As long as one lcore polls all the ports, a packet leaves each port with *)
(* the address made from that port (TxPortMac): what waits there is meant   *)
(* for it, and a packet is rewritten for the port whose buffer it enters.   *)
THEOREM L2fwdTxPortMac == Spec /\ OnePolls => []TxPortMac
<1>1. L2fwdInv => TxPortMac
  BY DEF L2fwdInv
<1> QED
  BY <1>1, InvInit, InvNext, PTL DEF Spec

(* As long as one lcore polls all the ports, every packet received is sent, *)
(* buffered or dropped once, at the port paired with its own, or is still   *)
(* in the lcore's burst (ForwardedOnce): whatever the sizes of the bursts   *)
(* and however many packets the driver takes of a flush.                    *)
THEOREM L2fwdForwardedOnce == Spec /\ OnePolls => []ForwardedOnce
<1>1. L2fwdInv => ForwardedOnce
  BY DEF L2fwdInv, TypeInv, Counts, Handled, ForwardedOnce
<1> QED
  BY <1>1, InvInit, InvNext, PTL DEF Spec

-----------------------------------------------------------------------------
(* Lcore: for every number of lcores, every set of enabled ones, every      *)
(* master and every limit, the iterators of src/src/dpdk/inlines.cr and     *)
(* src/src/ext/rte_lcore.c give their block each lcore they should, once    *)
(* and in order.                                                            *)

(* The lcores of a set below a cursor: the calls of the block that a search *)
(* from 0 on has behind it.                                                 *)
RankOf(W, n) == Cardinality({k \in W : k < n})

IterTypeOK ==
    /\ mode \in {"wrap", "all", "slaves"}
    /\ enabled \subseteq Lcores /\ master \in enabled
    /\ limit \in 0 .. UINT32 /\ (mode = "all" => limit = UINT32)
    /\ i \in 0 .. (UINT32 - 1) /\ worker_id \in Nat
    /\ visited \in Seq(Lcores)
    /\ iter_pc \in {"call", "search", "yield", "done"}

(* A foreach over W has visited the lcores of W below its cursor, the n-th  *)
(* of them in call n, and rte_lcore_foreach_worker has counted its calls.   *)
Foreach(W) ==
    /\ \A m \in 1 .. Len(visited) : visited[m] \in W /\ RankOf(W, visited[m]) = m - 1
    /\ iter_pc = "call" => \/ i = UINT32 - 1 /\ visited = << >>
                           \/ i \in W /\ RankOf(W, i) + 1 = Len(visited)
    /\ iter_pc \in {"search", "yield"} => i <= RTE_MAX_LCORE /\ RankOf(W, i) = Len(visited)
    /\ iter_pc = "yield" /\ i < RTE_MAX_LCORE => i \in W
    /\ mode = "slaves" /\ limit # UINT32 =>
         /\ worker_id = Len(visited)
         /\ iter_pc # "done" => worker_id <= limit
         /\ worker_id <= limit + 1
    /\ iter_pc = "done" => \/ Len(visited) = Cardinality(W)
                           \/ mode = "slaves" /\ limit # UINT32 /\ worker_id = limit + 1

(* Round the lcores of W, from the one with rank r on: the rank of the n-th *)
(* lcore visited is r + n, modulo the number of lcores.                     *)
SameRest(W, a, b) == a % Cardinality(W) = b % Cardinality(W)

Round(W, r) ==
    /\ \A m \in 1 .. Len(visited) : visited[m] \in W /\ SameRest(W, RankOf(W, visited[m]), r + m)
    /\ iter_pc = "call" => i \in W /\ SameRest(W, RankOf(W, i), r + Len(visited))
    /\ iter_pc \in {"search", "yield"} => i < RTE_MAX_LCORE /\ SameRest(W, RankOf(W, i), r + (Len(visited) + 1))
    /\ iter_pc = "yield" => i \in W

(* The inductive invariant.                                                 *)
LcoreInv ==
    /\ IterTypeOK
    /\ mode # "wrap" => Foreach(Wanted)
    /\ mode = "wrap" => \E r \in Nat : Round(Wanted, r)

-----------------------------------------------------------------------------
(* The rank of a cursor.                                                    *)

LEMMA LcoresFinite ==
  /\ RTE_MAX_LCORE \in Nat /\ UINT32 \in Nat /\ 0 < RTE_MAX_LCORE /\ RTE_MAX_LCORE < UINT32
  /\ IsFiniteSet(Lcores) /\ Cardinality(Lcores) = RTE_MAX_LCORE
<1>1. RTE_MAX_LCORE \in Nat /\ UINT32 \in Nat /\ 0 < RTE_MAX_LCORE /\ RTE_MAX_LCORE < UINT32
  BY LcoreAssumption
<1>2. PICK y \in Int : y = RTE_MAX_LCORE - 1
  BY <1>1
<1>3. IsFiniteSet(0 .. y) /\ Cardinality(0 .. y) = IF 0 > y THEN 0 ELSE y - 0 + 1
  BY FS_Interval
<1> QED
  BY <1>1, <1>2, <1>3 DEF Lcores

LEMMA LcoreNumbers ==
  ASSUME NEW W \in SUBSET Lcores
  PROVE  \A k \in W : k \in Nat /\ k < RTE_MAX_LCORE
  BY LcoresFinite DEF Lcores

LEMMA RankType ==
  ASSUME NEW W \in SUBSET Lcores, NEW n \in Nat
  PROVE  RankOf(W, n) \in Nat /\ IsFiniteSet({k \in W : k < n})
<1>1. {k \in W : k < n} \subseteq Lcores
  OBVIOUS
<1>2. IsFiniteSet({k \in W : k < n})
  BY <1>1, LcoresFinite, FS_Subset
<1> QED
  BY <1>2, FS_CardinalityType DEF RankOf

LEMMA RankMonotone ==
  ASSUME NEW W \in SUBSET Lcores, NEW m \in Nat, NEW n \in Nat, m <= n
  PROVE  RankOf(W, m) <= RankOf(W, n)
<1>1. {k \in W : k < m} \subseteq {k \in W : k < n}
  BY LcoreNumbers
<1>2. IsFiniteSet({k \in W : k < n})
  BY RankType
<1> QED
  BY <1>1, <1>2, FS_Subset DEF RankOf

LEMMA RankNext ==
  ASSUME NEW W \in SUBSET Lcores, NEW n \in Nat
  PROVE  /\ n \in W => RankOf(W, n + 1) = RankOf(W, n) + 1
         /\ n \notin W => RankOf(W, n + 1) = RankOf(W, n)
<1> DEFINE A == {k \in W : k < n}  B == {k \in W : k < n + 1}
<1>1. RankOf(W, n) = Cardinality(A) /\ RankOf(W, n + 1) = Cardinality(B) /\ IsFiniteSet(A) /\ n \notin A
  BY RankType DEF RankOf
<1>2. CASE n \in W
  <2>1. \A k \in W : k < n + 1 <=> k < n \/ k = n
    BY LcoreNumbers
  <2>2. B = A \cup {n}
    BY <2>1, <1>2
  <2> HIDE DEF A, B
  <2>3. Cardinality(A \cup {n}) = Cardinality(A) + 1
    BY <1>1, FS_AddElement
  <2> QED
    BY <2>2, <2>3, <1>1, <1>2
<1>3. CASE n \notin W
  <2>1. B = A
    BY <1>3, LcoreNumbers
  <2> QED
    BY <2>1, <1>1, <1>3
<1> QED
  BY <1>2, <1>3

LEMMA RankEnds ==
  ASSUME NEW W \in SUBSET Lcores
  PROVE  /\ RankOf(W, 0) = 0 /\ RankOf(W, RTE_MAX_LCORE) = Cardinality(W)
         /\ IsFiniteSet(W) /\ Cardinality(W) \in Nat
         /\ Cardinality(W) <= RTE_MAX_LCORE
<1>1. {k \in W : k < 0} = {}
  BY LcoreNumbers
<1>2. {k \in W : k < RTE_MAX_LCORE} = W
  BY LcoreNumbers
<1>3. IsFiniteSet(W) /\ Cardinality(W) <= RTE_MAX_LCORE
  BY LcoresFinite, FS_Subset
<1>4. Cardinality(W) \in Nat
  BY <1>3, FS_CardinalityType
<1>5. Cardinality({}) = 0
  BY FS_EmptySet
<1> QED
  BY <1>1, <1>2, <1>3, <1>4, <1>5 DEF RankOf

(* Among its own members the rank in a set tells which one it is.           *)
LEMMA RankTells ==
  ASSUME NEW W \in SUBSET Lcores, NEW m \in W, NEW n \in W
  PROVE  /\ RankOf(W, m) \in Nat /\ RankOf(W, m) < Cardinality(W)
         /\ RankOf(W, m) = RankOf(W, n) => m = n
         /\ RankOf(W, m) < RankOf(W, n) => m < n
<1>1. m \in Nat /\ n \in Nat /\ m + 1 <= RTE_MAX_LCORE /\ m + 1 \in Nat /\ n + 1 \in Nat
  BY LcoresFinite DEF Lcores
<1>2. /\ RankOf(W, m) \in Nat /\ RankOf(W, n) \in Nat
      /\ RankOf(W, m + 1) = RankOf(W, m) + 1 /\ RankOf(W, n + 1) = RankOf(W, n) + 1
  BY <1>1, RankType, RankNext
<1>3. RankOf(W, m + 1) <= RankOf(W, RTE_MAX_LCORE)
  BY <1>1, LcoresFinite, RankMonotone
<1>4. RankOf(W, m) < Cardinality(W)
  BY <1>2, <1>3, RankEnds
<1>5. m < n => RankOf(W, m + 1) <= RankOf(W, n)
  BY <1>1, RankMonotone
<1>6. n < m => RankOf(W, n + 1) <= RankOf(W, m)
  BY <1>1, RankMonotone
<1> QED
  BY <1>1, <1>2, <1>4, <1>5, <1>6

(* Numbers that leave the same rest.                                        *)
Divides(c, a, q, x) == q \in Int /\ x \in 0 .. (c - 1) /\ a = c * q + x

LEMMA RestIs ==
  ASSUME NEW c \in Nat \ {0}, NEW a \in Int
  PROVE  \E q, x \in Int : Divides(c, a, q, x) /\ a % c = x
<1>1. c \in Nat /\ c > 0
  OBVIOUS
<1>2. PICK q \in Int, x \in Int : q = a \div c /\ x = a % c
  BY <1>1
<1>3. a = c * q + x
  BY <1>1, <1>2
<1>4. x \in 0 .. (c - 1)
  BY <1>1, <1>2
<1>5. Divides(c, a, q, x)
  BY <1>3, <1>4 DEF Divides
<1> QED
  BY <1>2, <1>5, Zenon

LEMMA RestOf ==
  ASSUME NEW c \in Nat \ {0}, NEW q, NEW x, NEW a \in Int, Divides(c, a, q, x)
  PROVE  a % c = x
  BY DEF Divides

LEMMA RestNext ==
  ASSUME NEW c \in Nat \ {0}, NEW a \in Nat, NEW b \in Nat, a % c = b % c
  PROVE  (a + 1) % c = (b + 1) % c
<1>1. a \in Int /\ b \in Int /\ a + 1 \in Int /\ b + 1 \in Int
  OBVIOUS
<1>2. PICK q, x \in Int : Divides(c, a, q, x) /\ a % c = x
  BY <1>1, RestIs, Zenon
<1>3. PICK o, y \in Int : Divides(c, b, o, y) /\ b % c = y
  BY <1>1, RestIs, Zenon
<1>4. x = y
  BY <1>2, <1>3
<1>5. CASE x + 1 < c
  <2>1. Divides(c, a + 1, q, x + 1)
    BY <1>2, <1>5 DEF Divides
  <2>2. Divides(c, b + 1, o, x + 1)
    BY <1>3, <1>4, <1>5 DEF Divides
  <2> QED
    BY <2>1, <2>2, <1>1, RestOf, Zenon
<1>6. CASE ~(x + 1 < c)
  <2>1. x + 1 = c
    BY <1>2, <1>6 DEF Divides
  <2>2. Divides(c, a + 1, q + 1, 0)
    BY <1>2, <2>1 DEF Divides
  <2>3. Divides(c, b + 1, o + 1, 0)
    BY <1>3, <1>4, <2>1 DEF Divides
  <2> QED
    BY <2>2, <2>3, <1>1, RestOf, Zenon
<1> QED
  BY <1>5, <1>6

LEMMA RestZero ==
  ASSUME NEW c \in Nat \ {0}
  PROVE  c % c = 0 % c
  OBVIOUS

LEMMA RestSmall ==
  ASSUME NEW c \in Nat \ {0}, NEW a \in Nat, a < c
  PROVE  a % c = a
  OBVIOUS

LEMMA RestSame ==
  ASSUME NEW c \in Nat \ {0}, NEW a \in Nat, NEW b \in Nat
  PROVE  a % c = b % c <=> (a - b) % c = 0
<1>1. a \in Int /\ b \in Int /\ a - b \in Int
  OBVIOUS
<1>2. PICK q, x \in Int : Divides(c, a, q, x) /\ a % c = x
  BY <1>1, RestIs, Zenon
<1>3. PICK o, y \in Int : Divides(c, b, o, y) /\ b % c = y
  BY <1>1, RestIs, Zenon
<1>4. CASE x >= y
  <2>1. Divides(c, a - b, q - o, x - y)
    BY <1>2, <1>3, <1>4 DEF Divides
  <2>2. (a - b) % c = x - y
    BY <2>1, <1>1, RestOf, Zenon
  <2> QED
    BY <2>2, <1>2, <1>3
<1>5. CASE ~(x >= y)
  <2>1. Divides(c, a - b, (q - o) - 1, (x - y) + c)
    BY <1>2, <1>3, <1>5 DEF Divides
  <2>2. (a - b) % c = (x - y) + c
    BY <2>1, <1>1, RestOf, Zenon
  <2>3. (x - y) + c > 0 /\ x # y
    BY <1>2, <1>3, <1>5 DEF Divides
  <2> QED
    BY <2>2, <2>3, <1>2, <1>3
<1> QED
  BY <1>4, <1>5

(* Whole turns of c from r + a to r + b.                                    *)
Turns(c, r, a, b) == (r + a) % c = (r + b) % c <=> (a - b) % c = 0

LEMMA RestShift ==
  ASSUME NEW c \in Nat \ {0}, NEW r \in Nat, NEW a \in Nat, NEW b \in Nat
  PROVE  Turns(c, r, a, b)
<1>1. PICK u \in Nat, v \in Nat : u = r + a /\ v = r + b
  OBVIOUS
<1>2. u % c = v % c <=> (u - v) % c = 0
  BY RestSame, Zenon
<1>3. u - v = a - b
  BY <1>1
<1> QED
  BY <1>1, <1>2, <1>3, Zenon DEF Turns

-----------------------------------------------------------------------------
(* The cursor.                                                              *)

LEMMA WantedIs ==
  ASSUME IterTypeOK
  PROVE  /\ Wanted \in SUBSET Lcores
         /\ \A n \in 0 .. (RTE_MAX_LCORE - 1) : Eligible(n) <=> n \in Wanted
         /\ mode # "slaves" => Wanted = enabled /\ Wanted # {}
<1>1. Wanted \in SUBSET Lcores /\ (mode # "slaves" => Wanted = enabled /\ Wanted # {})
  BY DEF IterTypeOK, Wanted
<1>2. ASSUME NEW n \in 0 .. (RTE_MAX_LCORE - 1)
      PROVE  Eligible(n) <=> n \in Wanted
  <2>1. n < RTE_MAX_LCORE
    BY LcoresFinite
  <2> QED
    BY <2>1 DEF Eligible, rte_lcore_is_enabled, rte_get_master_lcore, Wanted
<1> QED
  BY <1>1, <1>2

LEMMA FollowingIs ==
  /\ \A n \in 0 .. (UINT32 - 1) : Following(n) \in 0 .. (UINT32 - 1)
  /\ mode # "wrap" => Following(UINT32 - 1) = 0
  /\ mode # "wrap" => \A n \in 0 .. (RTE_MAX_LCORE - 1) : Following(n) = n + 1
  /\ mode = "wrap" => Following(RTE_MAX_LCORE - 1) = 0
  /\ mode = "wrap" => \A n \in 0 .. (RTE_MAX_LCORE - 1) : n + 1 < RTE_MAX_LCORE => Following(n) = n + 1
<1>1. RTE_MAX_LCORE \in Nat \ {0} /\ UINT32 \in Nat \ {0} /\ RTE_MAX_LCORE < UINT32
  BY LcoresFinite
<1>2. \A n \in Nat : n < UINT32 => n % UINT32 = n
  BY <1>1, RestSmall
<1>3. \A n \in Nat : n < RTE_MAX_LCORE => n % RTE_MAX_LCORE = n
  BY <1>1, RestSmall
<1>4. UINT32 % UINT32 = 0 /\ RTE_MAX_LCORE % RTE_MAX_LCORE = 0
  BY <1>1
<1>5. (UINT32 - 1) + 1 = UINT32 /\ (RTE_MAX_LCORE - 1) + 1 = RTE_MAX_LCORE
  BY <1>1
<1>6. ASSUME NEW n \in 0 .. (UINT32 - 1)
      PROVE  Following(n) \in 0 .. (UINT32 - 1)
  <2>1. PICK x \in 0 .. (UINT32 - 1) : x = (n + 1) % UINT32
    BY <1>1
  <2>2. x % RTE_MAX_LCORE \in 0 .. (UINT32 - 1)
    BY <1>1, <2>1
  <2> QED
    BY <2>1, <2>2 DEF Following
<1>7. ASSUME mode # "wrap"
      PROVE  Following(UINT32 - 1) = 0 /\ \A n \in 0 .. (RTE_MAX_LCORE - 1) : Following(n) = n + 1
  <2>1. \A n \in 0 .. (RTE_MAX_LCORE - 1) : n + 1 \in Nat /\ n + 1 < UINT32
    BY <1>1
  <2> QED
    BY <2>1, <1>2, <1>4, <1>5, <1>7 DEF Following
<1>8. ASSUME mode = "wrap"
      PROVE  /\ Following(RTE_MAX_LCORE - 1) = 0
             /\ \A n \in 0 .. (RTE_MAX_LCORE - 1) : n + 1 < RTE_MAX_LCORE => Following(n) = n + 1
  <2>1. \A n \in 0 .. (RTE_MAX_LCORE - 1) : n + 1 \in Nat /\ n + 1 < UINT32
    BY <1>1
  <2>2. RTE_MAX_LCORE % UINT32 = RTE_MAX_LCORE
    BY <1>1, <1>2
  <2> QED
    BY <2>1, <2>2, <1>2, <1>3, <1>4, <1>5, <1>8 DEF Following
<1> QED
  BY <1>6, <1>7, <1>8

(* The step of the cursor of a foreach, over a lcore of W or not.           *)
LEMMA ForeachCursor ==
  ASSUME mode # "wrap", NEW W \in SUBSET Lcores, NEW n \in 0 .. (RTE_MAX_LCORE - 1)
  PROVE  /\ Following(n) \in Nat /\ Following(n) <= RTE_MAX_LCORE
         /\ n \in W => RankOf(W, Following(n)) = RankOf(W, n) + 1
         /\ n \notin W => RankOf(W, Following(n)) = RankOf(W, n)
<1>1. n \in Nat /\ n + 1 \in Nat /\ n + 1 <= RTE_MAX_LCORE
  BY LcoresFinite
<1>2. Following(n) = n + 1
  BY FollowingIs
<1> QED
  BY <1>1, <1>2, RankNext

(* The step of the cursor that goes round.                                  *)
LEMMA RoundCursor ==
  ASSUME mode = "wrap", NEW W \in SUBSET Lcores, W # {}, NEW n \in 0 .. (RTE_MAX_LCORE - 1)
  PROVE  /\ Following(n) \in Nat /\ Following(n) < RTE_MAX_LCORE
         /\ n \in W => SameRest(W, RankOf(W, Following(n)), RankOf(W, n) + 1)
         /\ n \notin W => SameRest(W, RankOf(W, Following(n)), RankOf(W, n))
<1>1. n \in Nat /\ n + 1 \in Nat /\ n + 1 <= RTE_MAX_LCORE /\ RTE_MAX_LCORE \in Nat /\ 0 < RTE_MAX_LCORE
  BY LcoresFinite
<1>2. /\ n \in W => RankOf(W, n + 1) = RankOf(W, n) + 1
      /\ n \notin W => RankOf(W, n + 1) = RankOf(W, n)
  BY <1>1, RankNext
<1>3. CASE n + 1 < RTE_MAX_LCORE
  <2>1. Following(n) = n + 1
    BY <1>3, FollowingIs
  <2> QED
    BY <2>1, <1>1, <1>2, <1>3 DEF SameRest
<1>4. CASE n + 1 = RTE_MAX_LCORE
  <2>1. n = RTE_MAX_LCORE - 1
    BY <1>1, <1>4
  <2>2. Following(n) = 0
    BY <2>1, FollowingIs
  <2>3. Cardinality(W) \in Nat \ {0}
    BY RankEnds, FS_EmptySet
  <2>4. RankOf(W, 0) = 0 /\ RankOf(W, n + 1) = Cardinality(W)
    BY <1>4, RankEnds
  <2>5. SameRest(W, RankOf(W, 0), RankOf(W, n + 1))
    BY <2>3, <2>4, RestZero DEF SameRest
  <2> QED
    BY <2>2, <2>5, <1>1, <1>2
<1> QED
  BY <1>1, <1>3, <1>4

-----------------------------------------------------------------------------
(* The steps.                                                               *)

Fixed == <<mode, enabled, master, limit>>

LEMMA IterStepType == IterTypeOK /\ [IterNext]_iterVars => IterTypeOK'
<1> SUFFICES ASSUME IterTypeOK, [IterNext]_iterVars
             PROVE  IterTypeOK'
  OBVIOUS
<1>1. UNCHANGED Fixed
  BY DEF IterNext, iterVars, Fixed, Enter, rte_get_next_lcore, LoopEnd, Yield, RTE_LCORE_FOREACH,
         rte_lcore_foreach_slave, rte_lcore_foreach_worker
<1>2. i' \in 0 .. (UINT32 - 1)
  BY FollowingIs DEF IterTypeOK, IterNext, iterVars, Enter, rte_get_next_lcore, LoopEnd, Yield, RTE_LCORE_FOREACH,
         rte_lcore_foreach_slave, rte_lcore_foreach_worker
<1>3. visited' \in Seq(Lcores)
  <2>1. CASE Yield
    <3>1. i \in Lcores
      BY <2>1, LcoresFinite DEF Yield, IterTypeOK, Lcores
    <3> QED
      BY <2>1, <3>1, AppendProperties DEF Yield, IterTypeOK
  <2>2. CASE UNCHANGED visited
    BY <2>2 DEF IterTypeOK
  <2> QED
    BY <2>1, <2>2 DEF IterNext, iterVars, Enter, rte_get_next_lcore, LoopEnd, RTE_LCORE_FOREACH,
         rte_lcore_foreach_slave, rte_lcore_foreach_worker
<1>4. worker_id' \in Nat
  BY DEF IterTypeOK, IterNext, iterVars, Enter, rte_get_next_lcore, LoopEnd, Yield, RTE_LCORE_FOREACH,
         rte_lcore_foreach_slave, rte_lcore_foreach_worker
<1>5. iter_pc' \in {"call", "search", "yield", "done"}
  BY DEF IterTypeOK, IterNext, iterVars, Enter, rte_get_next_lcore, LoopEnd, Yield, RTE_LCORE_FOREACH,
         rte_lcore_foreach_slave, rte_lcore_foreach_worker
<1> QED
  BY <1>1, <1>2, <1>3, <1>4, <1>5 DEF IterTypeOK, Fixed

(* Of the steps that call no block.                                         *)
LEMMA ForeachSearch ==
  ASSUME IterTypeOK, mode # "wrap", NEW W \in SUBSET Lcores, W = Wanted, Foreach(W),
         Enter \/ rte_get_next_lcore \/ LoopEnd
  PROVE  Foreach(W)'
<1>1. /\ i \in Nat /\ Len(visited) \in Nat /\ RTE_MAX_LCORE \in Nat /\ UINT32 \in Nat
      /\ 0 < RTE_MAX_LCORE /\ RTE_MAX_LCORE < UINT32
  BY LcoresFinite, LenProperties DEF IterTypeOK
<1>2. UNCHANGED <<visited, worker_id, mode, limit>>
  BY DEF Enter, rte_get_next_lcore, LoopEnd
<1>3. CASE Enter
  <2>1. iter_pc = "call" /\ iter_pc' = "search" /\ i' = Following(i)
    BY <1>3 DEF Enter
  <2>2. i' <= RTE_MAX_LCORE /\ RankOf(W, i') = Len(visited)
    <3>1. CASE i = UINT32 - 1 /\ visited = << >>
      <4>1. i' = 0
        BY <2>1, <3>1, FollowingIs
      <4>2. Len(visited) = 0
        BY <3>1, EmptySeq
      <4> QED
        BY <4>1, <4>2, <1>1, RankEnds
    <3>2. CASE i \in W /\ RankOf(W, i) + 1 = Len(visited)
      <4>1. i \in 0 .. (RTE_MAX_LCORE - 1)
        BY <3>2 DEF Lcores
      <4> QED
        BY <2>1, <3>2, <4>1, ForeachCursor
    <3> QED
      BY <2>1, <3>1, <3>2 DEF Foreach
  <2> QED
    BY <2>1, <2>2, <1>2 DEF Foreach
<1>4. CASE rte_get_next_lcore
  <2>1. iter_pc = "search" /\ i <= RTE_MAX_LCORE /\ RankOf(W, i) = Len(visited)
    BY <1>4 DEF rte_get_next_lcore, Foreach
  <2>2. CASE i < RTE_MAX_LCORE /\ ~Eligible(i)
    <3>1. i \in 0 .. (RTE_MAX_LCORE - 1)
      BY <2>2, <1>1
    <3>2. i \notin W /\ i' = Following(i) /\ iter_pc' = iter_pc
      BY <2>2, <3>1, <1>4, WantedIs DEF rte_get_next_lcore
    <3>3. i' <= RTE_MAX_LCORE /\ RankOf(W, i') = Len(visited)
      BY <2>1, <3>1, <3>2, ForeachCursor
    <3> QED
      BY <2>1, <3>2, <3>3, <1>2 DEF Foreach
  <2>3. CASE ~(i < RTE_MAX_LCORE /\ ~Eligible(i))
    <3>1. i' = i /\ iter_pc' = "yield"
      BY <2>3, <1>4 DEF rte_get_next_lcore
    <3>2. i < RTE_MAX_LCORE => i \in W
      <4>1. i < RTE_MAX_LCORE => i \in 0 .. (RTE_MAX_LCORE - 1)
        BY <1>1
      <4> QED
        BY <4>1, <2>3, WantedIs
    <3> QED
      BY <2>1, <3>1, <3>2, <1>2 DEF Foreach
  <2> QED
    BY <2>2, <2>3
<1>5. CASE LoopEnd
  <2>1. iter_pc = "yield" /\ i >= RTE_MAX_LCORE /\ iter_pc' = "done" /\ i' = i
    BY <1>5 DEF LoopEnd
  <2>2. i = RTE_MAX_LCORE /\ RankOf(W, i) = Len(visited)
    BY <2>1, <1>1 DEF Foreach
  <2>3. Len(visited) = Cardinality(W)
    BY <2>2, RankEnds
  <2>4. mode = "slaves" /\ limit # UINT32 => worker_id = Len(visited) /\ worker_id <= limit + 1
    BY <2>1 DEF Foreach
  <2>5. \A m \in 1 .. Len(visited) : visited[m] \in W /\ RankOf(W, visited[m]) = m - 1
    BY DEF Foreach
  <2> QED
    BY <2>1, <2>3, <2>4, <2>5, <1>2 DEF Foreach
<1> QED
  BY <1>3, <1>4, <1>5

(* Of the steps that call the block.                                        *)
LEMMA ForeachYield ==
  ASSUME IterTypeOK, mode # "wrap", NEW W \in SUBSET Lcores, W = Wanted, Foreach(W),
         RTE_LCORE_FOREACH \/ rte_lcore_foreach_slave \/ rte_lcore_foreach_worker
  PROVE  Foreach(W)'
<1>1. /\ i \in Nat /\ Len(visited) \in Nat /\ RTE_MAX_LCORE \in Nat /\ UINT32 \in Nat
      /\ 0 < RTE_MAX_LCORE /\ RTE_MAX_LCORE < UINT32 /\ limit \in Nat /\ worker_id \in Nat
  BY LcoresFinite, LenProperties DEF IterTypeOK
<1>2. Yield /\ iter_pc = "yield" /\ i < RTE_MAX_LCORE /\ UNCHANGED <<mode, limit, i>>
  BY DEF RTE_LCORE_FOREACH, rte_lcore_foreach_slave, rte_lcore_foreach_worker, Yield
<1>3. i \in W /\ RankOf(W, i) = Len(visited)
  BY <1>2 DEF Foreach
<1>4. PICK s \in Seq(Lcores) : s = visited
  BY DEF IterTypeOK
<1>5. /\ visited' = Append(s, i) /\ Len(visited') = Len(s) + 1 /\ visited'[Len(s) + 1] = i
      /\ \A m \in 1 .. Len(s) : visited'[m] = s[m]
  <2>1. i \in Lcores
    BY <1>3
  <2> QED
    BY <2>1, <1>2, <1>4, AppendProperties DEF Yield
<1>6. ASSUME NEW m \in 1 .. Len(visited')
      PROVE  visited'[m] \in W /\ RankOf(W, visited'[m]) = m - 1
  <2>1. CASE m \in 1 .. Len(s)
    <3>1. visited'[m] = s[m]
      BY <2>1, <1>5
    <3>2. s[m] \in W /\ RankOf(W, s[m]) = m - 1
      BY <2>1, <1>4 DEF Foreach
    <3> QED
      BY <3>1, <3>2
  <2>2. CASE m = Len(s) + 1
    BY <2>2, <1>1, <1>3, <1>4, <1>5
  <2> QED
    BY <2>1, <2>2, <1>1, <1>4, <1>5
<1>7. i' \in W /\ RankOf(W, i') + 1 = Len(visited')
  BY <1>2, <1>3, <1>4, <1>5
<1>8. CASE mode = "slaves" /\ limit # UINT32
  <2>1. worker_id' = worker_id + 1 /\ iter_pc' = IF worker_id' > limit THEN "done" ELSE "call"
    BY <1>8 DEF RTE_LCORE_FOREACH, rte_lcore_foreach_slave, rte_lcore_foreach_worker
  <2>2. worker_id = Len(s) /\ worker_id <= limit
    BY <1>2, <1>4, <1>8 DEF Foreach
  <2>3. worker_id' = Len(visited') /\ worker_id' <= limit + 1
    BY <2>1, <2>2, <1>1, <1>5
  <2>4. iter_pc' = "done" => worker_id' = limit + 1
    BY <2>1, <2>2, <1>1
  <2>5. iter_pc' # "done" => worker_id' <= limit
    BY <2>1, <2>2, <1>1
  <2>6. iter_pc' \in {"call", "done"}
    BY <2>1
  <2> QED
    BY <2>3, <2>4, <2>5, <2>6, <1>2, <1>6, <1>7, <1>8 DEF Foreach
<1>9. CASE ~(mode = "slaves" /\ limit # UINT32)
  <2>1. iter_pc' = "call"
    BY <1>9 DEF RTE_LCORE_FOREACH, rte_lcore_foreach_slave, rte_lcore_foreach_worker
  <2> QED
    BY <2>1, <1>2, <1>6, <1>7, <1>9 DEF Foreach
<1> QED
  BY <1>8, <1>9

(* The same going round.                                                    *)
LEMMA SameRestNext ==
  ASSUME NEW W \in SUBSET Lcores, W # {}, NEW a \in Nat, NEW b \in Nat, SameRest(W, a, b)
  PROVE  SameRest(W, a + 1, b + 1)
<1>1. Cardinality(W) \in Nat \ {0}
  BY RankEnds, FS_EmptySet
<1>2. PICK c \in Nat \ {0} : c = Cardinality(W)
  BY <1>1
<1>3. a % c = b % c
  BY <1>2 DEF SameRest
<1> QED
  BY <1>2, <1>3, RestNext DEF SameRest

LEMMA RoundSearch ==
  ASSUME IterTypeOK, mode = "wrap", NEW W \in SUBSET Lcores, W = Wanted, NEW r \in Nat, Round(W, r),
         Enter \/ rte_get_next_lcore
  PROVE  Round(W, r)'
<1>1. /\ i \in Nat /\ Len(visited) \in Nat /\ RTE_MAX_LCORE \in Nat /\ W # {}
      /\ r + Len(visited) \in Nat /\ (r + Len(visited)) + 1 = r + (Len(visited) + 1)
  BY LcoresFinite, LenProperties, WantedIs DEF IterTypeOK
<1>2. UNCHANGED visited
  BY DEF Enter, rte_get_next_lcore
<1>3. CASE Enter
  <2>1. iter_pc = "call" /\ iter_pc' = "search" /\ i' = Following(i)
    BY <1>3 DEF Enter
  <2>2. i \in W /\ SameRest(W, RankOf(W, i), r + Len(visited))
    BY <2>1 DEF Round
  <2>3. i \in 0 .. (RTE_MAX_LCORE - 1) /\ RankOf(W, i) \in Nat
    BY <2>2, <1>1, RankType DEF Lcores
  <2>4. SameRest(W, RankOf(W, i) + 1, (r + Len(visited)) + 1)
    BY <2>2, <2>3, <1>1, SameRestNext
  <2>5. i' < RTE_MAX_LCORE /\ SameRest(W, RankOf(W, i'), RankOf(W, i) + 1)
    BY <2>1, <2>2, <2>3, <1>1, RoundCursor
  <2>6. SameRest(W, RankOf(W, i'), r + (Len(visited) + 1))
    BY <2>4, <2>5, <1>1 DEF SameRest
  <2> QED
    BY <2>1, <2>5, <2>6, <1>2 DEF Round
<1>4. CASE rte_get_next_lcore
  <2>1. iter_pc = "search" /\ i < RTE_MAX_LCORE /\ SameRest(W, RankOf(W, i), r + (Len(visited) + 1))
    BY <1>4 DEF rte_get_next_lcore, Round
  <2>2. i \in 0 .. (RTE_MAX_LCORE - 1)
    BY <2>1, <1>1
  <2>3. CASE ~Eligible(i)
    <3>1. i \notin W /\ i' = Following(i) /\ iter_pc' = iter_pc
      BY <2>1, <2>2, <2>3, <1>4, WantedIs DEF rte_get_next_lcore
    <3>2. i' < RTE_MAX_LCORE /\ SameRest(W, RankOf(W, i'), RankOf(W, i))
      BY <2>2, <3>1, <1>1, RoundCursor
    <3>3. SameRest(W, RankOf(W, i'), r + (Len(visited) + 1))
      BY <2>1, <3>2 DEF SameRest
    <3> QED
      BY <2>1, <3>1, <3>2, <3>3, <1>2 DEF Round
  <2>4. CASE Eligible(i)
    <3>1. i \in W /\ i' = i /\ iter_pc' = "yield"
      BY <2>2, <2>4, <1>4, WantedIs DEF rte_get_next_lcore
    <3> QED
      BY <2>1, <3>1, <1>2 DEF Round
  <2> QED
    BY <2>3, <2>4
<1> QED
  BY <1>3, <1>4

LEMMA RoundYield ==
  ASSUME IterTypeOK, mode = "wrap", NEW W \in SUBSET Lcores, W = Wanted, NEW r \in Nat, Round(W, r),
         rte_lcore_foreach_worker
  PROVE  Round(W, r)'
<1>1. Yield /\ iter_pc = "yield" /\ UNCHANGED i /\ iter_pc' \in {"call", "done"}
  BY DEF rte_lcore_foreach_worker, Yield
<1>2. i \in W /\ SameRest(W, RankOf(W, i), r + (Len(visited) + 1))
  BY <1>1 DEF Round
<1>3. PICK s \in Seq(Lcores) : s = visited
  BY DEF IterTypeOK
<1>4. /\ visited' = Append(s, i) /\ Len(visited') = Len(s) + 1 /\ visited'[Len(s) + 1] = i
      /\ \A m \in 1 .. Len(s) : visited'[m] = s[m]
  <2>1. i \in Lcores
    BY <1>2
  <2> QED
    BY <2>1, <1>1, <1>3, AppendProperties DEF Yield
<1>5. Len(s) \in Nat
  BY LenProperties
<1>6. ASSUME NEW m \in 1 .. Len(visited')
      PROVE  visited'[m] \in W /\ SameRest(W, RankOf(W, visited'[m]), r + m)
  <2>1. CASE m \in 1 .. Len(s)
    <3>1. visited'[m] = s[m]
      BY <2>1, <1>4
    <3>2. s[m] \in W /\ SameRest(W, RankOf(W, s[m]), r + m)
      BY <2>1, <1>3 DEF Round
    <3> QED
      BY <3>1, <3>2
  <2>2. CASE m = Len(s) + 1
    BY <2>2, <1>2, <1>3, <1>4
  <2> QED
    BY <2>1, <2>2, <1>4, <1>5
<1>7. i' \in W /\ SameRest(W, RankOf(W, i'), r + Len(visited'))
  BY <1>1, <1>2, <1>3, <1>4
<1> QED
  BY <1>1, <1>6, <1>7 DEF Round

LEMMA IterInvInit == IterInit => LcoreInv
<1> SUFFICES ASSUME IterInit
             PROVE  LcoreInv
  OBVIOUS
<1>1. IterTypeOK
  <2>1. i \in 0 .. (UINT32 - 1)
    BY LcoresFinite DEF IterInit, Lcores
  <2>2. limit \in 0 .. UINT32 /\ (mode = "all" => limit = UINT32)
    BY LcoreAssumption DEF IterInit
  <2>3. visited \in Seq(Lcores)
    BY DEF IterInit
  <2> QED
    BY <2>1, <2>2, <2>3 DEF IterInit, IterTypeOK
<1>2. Len(visited) = 0 /\ visited = << >> /\ iter_pc = "call"
  BY EmptySeq DEF IterInit
<1>3. ASSUME mode # "wrap"
      PROVE  Foreach(Wanted)
  <2>1. i = UINT32 - 1 /\ worker_id = 0 /\ limit \in Nat
    BY <1>1, <1>3 DEF IterInit, IterTypeOK
  <2> QED
    BY <2>1, <1>2 DEF Foreach
<1>4. ASSUME mode = "wrap"
      PROVE  \E r \in Nat : Round(Wanted, r)
  <2>1. i \in Wanted /\ Wanted \in SUBSET Lcores
    BY <1>1, <1>4, WantedIs DEF IterInit
  <2>2. PICK r \in Nat : r = RankOf(Wanted, i)
    <3>1. i \in Nat
      BY <1>1, LcoresFinite DEF IterTypeOK
    <3> QED
      BY <2>1, <3>1, RankType
  <2>3. r + Len(visited) = r
    BY <1>2
  <2>4. SameRest(Wanted, RankOf(Wanted, i), r + Len(visited))
    BY <2>2, <2>3 DEF SameRest
  <2>5. Round(Wanted, r)
    BY <2>1, <2>4, <1>2 DEF Round
  <2> QED
    BY <2>5
<1> QED
  BY <1>1, <1>3, <1>4 DEF LcoreInv

LEMMA IterInvNext == LcoreInv /\ [IterNext]_iterVars => LcoreInv'
<1> SUFFICES ASSUME LcoreInv, [IterNext]_iterVars
             PROVE  LcoreInv'
  OBVIOUS
<1>1. IterTypeOK /\ IterTypeOK'
  BY IterStepType DEF LcoreInv
<1>2. UNCHANGED Fixed
  BY DEF IterNext, iterVars, Fixed, Enter, rte_get_next_lcore, LoopEnd, Yield, RTE_LCORE_FOREACH,
         rte_lcore_foreach_slave, rte_lcore_foreach_worker
<1>3. PICK W \in SUBSET Lcores : W = Wanted /\ W = Wanted'
  BY <1>1, <1>2, WantedIs DEF Wanted, Fixed
<1>4. ASSUME mode # "wrap"
      PROVE  Foreach(W)'
  <2>1. Foreach(W)
    BY <1>3, <1>4 DEF LcoreInv
  <2>2. CASE Enter \/ rte_get_next_lcore \/ LoopEnd
    BY <2>1, <2>2, <1>1, <1>3, <1>4, ForeachSearch
  <2>3. CASE RTE_LCORE_FOREACH \/ rte_lcore_foreach_slave \/ rte_lcore_foreach_worker
    BY <2>1, <2>3, <1>1, <1>3, <1>4, ForeachYield
  <2>4. CASE UNCHANGED iterVars
    BY <2>1, <2>4 DEF iterVars, Foreach
  <2> QED
    BY <2>2, <2>3, <2>4 DEF IterNext
<1>5. ASSUME mode = "wrap"
      PROVE  \E r \in Nat : Round(W, r)'
  <2>1. PICK r \in Nat : Round(W, r)
    BY <1>3, <1>5 DEF LcoreInv
  <2>2. CASE Enter \/ rte_get_next_lcore
    BY <2>1, <2>2, <1>1, <1>3, <1>5, RoundSearch
  <2>3. CASE rte_lcore_foreach_worker
    BY <2>1, <2>3, <1>1, <1>3, <1>5, RoundYield
  <2>4. CASE LoopEnd
    <3>1. i < RTE_MAX_LCORE /\ i >= RTE_MAX_LCORE
      BY <2>1, <2>4 DEF LoopEnd, Round
    <3> QED
      BY <3>1, <1>1, LcoresFinite DEF IterTypeOK
  <2>5. CASE UNCHANGED iterVars
    BY <2>1, <2>5 DEF iterVars, Round
  <2>6. ~RTE_LCORE_FOREACH /\ ~rte_lcore_foreach_slave
    BY <1>5 DEF RTE_LCORE_FOREACH, rte_lcore_foreach_slave
  <2> QED
    BY <2>2, <2>3, <2>4, <2>5, <2>6 DEF IterNext
<1>6. mode' = mode
  BY <1>2 DEF Fixed
<1> QED
  BY <1>1, <1>3, <1>4, <1>5, <1>6 DEF LcoreInv

(* The cursor of rte_get_next_lcore keeps its rank: LcoreInv is an          *)
(* invariant, whichever lcores are enabled.                                 *)
THEOREM LcoreInvariant == IterSpec => []LcoreInv
<1>1. IterInit => LcoreInv
  BY IterInvInit
<1>2. LcoreInv /\ [IterNext]_iterVars => LcoreInv'
  BY IterInvNext
<1> QED
  BY <1>1, <1>2, PTL DEF IterSpec

-----------------------------------------------------------------------------
(* What the invariant says of the lcores visited.                           *)

LEMMA RankVisited ==
  ASSUME LcoreInv, mode # "wrap", NEW W \in SUBSET Lcores, W = Wanted, NEW k \in W,
         RankOf(W, k) < Len(visited)
  PROVE  RankOf(W, k) + 1 \in 1 .. Len(visited) /\ visited[RankOf(W, k) + 1] = k
<1>1. RankOf(W, k) \in Nat /\ Len(visited) \in Nat
  BY RankTells, LenProperties DEF LcoreInv, IterTypeOK
<1>2. PICK m \in 1 .. Len(visited) : m = RankOf(W, k) + 1
  BY <1>1
<1>3. visited[m] \in W /\ RankOf(W, visited[m]) = m - 1
  BY DEF LcoreInv, Foreach
<1>4. RankOf(W, visited[m]) = RankOf(W, k)
  BY <1>1, <1>2, <1>3
<1> QED
  BY <1>2, <1>3, <1>4, RankTells

LEMMA LeastOfTwo ==
  ASSUME NEW a \in Int, NEW b \in Int
  PROVE  Min({a, b}) = IF a <= b THEN a ELSE b
<1> DEFINE m == IF a <= b THEN a ELSE b
<1>1. m \in {a, b} /\ \A y \in {a, b} : m <= y
  OBVIOUS
<1>2. \A x \in {a, b} : (\A y \in {a, b} : x <= y) => x = m
  OBVIOUS
<1> QED
  BY <1>1, <1>2 DEF Min

(* At the end as many calls as were wanted, or as the limit allows.         *)
LEMMA ForeachCalls ==
  ASSUME LcoreInv, mode # "wrap", iter_pc = "done"
  PROVE  Len(visited) = Min({limit + 1, Cardinality(Wanted)})
<1>1. PICK W \in SUBSET Lcores : W = Wanted
  BY WantedIs DEF LcoreInv
<1>2. /\ Len(visited) \in Nat /\ limit \in Nat /\ Cardinality(W) \in Nat
      /\ Cardinality(W) <= RTE_MAX_LCORE /\ RTE_MAX_LCORE < UINT32 /\ RTE_MAX_LCORE \in Nat /\ UINT32 \in Nat
  BY LenProperties, RankEnds, LcoresFinite DEF LcoreInv, IterTypeOK
<1>3. Foreach(W)
  BY <1>1 DEF LcoreInv
<1>4. Len(visited) <= Cardinality(W)
  <2>1. CASE Len(visited) = 0
    BY <2>1, <1>2
  <2>2. CASE Len(visited) # 0
    <3>1. PICK m \in 1 .. Len(visited) : m = Len(visited)
      BY <2>2, <1>2
    <3>2. visited[m] \in W /\ RankOf(W, visited[m]) = m - 1
      BY <1>3 DEF Foreach
    <3>3. RankOf(W, visited[m]) < Cardinality(W)
      BY <3>2, RankTells
    <3> QED
      BY <3>1, <3>2, <3>3, <1>2
  <2> QED
    BY <2>1, <2>2
<1>5. CASE mode = "slaves" /\ limit # UINT32
  <2>1. Len(visited) <= limit + 1 /\ (Len(visited) = Cardinality(W) \/ Len(visited) = limit + 1)
    BY <1>3, <1>5 DEF Foreach
  <2> QED
    BY <2>1, <1>1, <1>2, <1>4, LeastOfTwo
<1>6. CASE ~(mode = "slaves" /\ limit # UINT32)
  <2>1. limit = UINT32
    BY <1>6 DEF LcoreInv, IterTypeOK
  <2>2. Len(visited) = Cardinality(W)
    BY <1>3, <1>6 DEF Foreach
  <2> QED
    BY <2>1, <2>2, <1>1, <1>2, LeastOfTwo
<1> QED
  BY <1>5, <1>6

LEMMA RoundVisits ==
  ASSUME LcoreInv, mode = "wrap", NEW m \in 1 .. Len(visited), NEW n \in 1 .. Len(visited)
  PROVE  visited[m] = visited[n] <=> (m - n) % rte_lcore_count = 0
<1>1. PICK W \in SUBSET Lcores : W = Wanted /\ W = enabled /\ W # {}
  BY WantedIs DEF LcoreInv
<1>2. PICK r \in Nat : Round(W, r)
  BY <1>1 DEF LcoreInv
<1>3. PICK c \in Nat \ {0} : c = Cardinality(W) /\ c = rte_lcore_count
  BY <1>1, RankEnds, FS_EmptySet DEF rte_lcore_count
<1>4. m \in Nat /\ n \in Nat
  BY LenProperties DEF LcoreInv, IterTypeOK
<1>5. PICK x \in W, y \in W : x = visited[m] /\ y = visited[n]
  BY <1>2 DEF Round
<1>6. PICK a \in Nat, b \in Nat : a = RankOf(W, x) /\ b = RankOf(W, y) /\ a < c /\ b < c
  <2>1. RankOf(W, x) \in Nat /\ RankOf(W, x) < c
    BY <1>3, RankTells
  <2>2. RankOf(W, y) \in Nat /\ RankOf(W, y) < c
    BY <1>3, RankTells
  <2> QED
    BY <2>1, <2>2
<1>7. a % c = (r + m) % c /\ b % c = (r + n) % c
  BY <1>2, <1>3, <1>5, <1>6 DEF Round, SameRest
<1>8. a % c = a /\ b % c = b
  BY <1>6, RestSmall
<1>9. (r + m) % c = (r + n) % c <=> (m - n) % c = 0
  <2>1. Turns(c, r, m, n)
    BY <1>4, RestShift
  <2> QED
    BY <2>1, Zenon DEF Turns
<1>10. x = y <=> a = b
  BY <1>6, RankTells
<1> QED
  BY <1>3, <1>5, <1>7, <1>8, <1>9, <1>10

(* A foreach gives its block each lcore it should, once and in ascending    *)
(* order, at most limit + 1 of them, and calls with wrap visit each enabled *)
(* lcore once a round: every thread is launched, and waited for, once.      *)
THEOREM LcoreVisitsEach == IterSpec => []VisitsEach
<1>1. ASSUME LcoreInv
      PROVE  VisitsEach
  <2>1. PICK W \in SUBSET Lcores : W = Wanted
    BY <1>1, WantedIs DEF LcoreInv
  <2>2. DOMAIN visited = 1 .. Len(visited) /\ Len(visited) \in Nat
    BY <1>1, LenProperties DEF LcoreInv, IterTypeOK
  <2>3. \A m \in 1 .. Len(visited) : visited[m] \in W
    BY <1>1, <2>1 DEF LcoreInv, Foreach, Round
  <2>4. Range(visited) \subseteq Wanted
    BY <2>1, <2>2, <2>3 DEF Range
  <2>5. mode = "wrap" =>
          \A m, n \in DOMAIN visited : visited[m] = visited[n] <=> (m - n) % rte_lcore_count = 0
    BY <1>1, <2>2, RoundVisits
  <2>6. ASSUME mode # "wrap", NEW m \in DOMAIN visited, NEW n \in DOMAIN visited, m < n
        PROVE  visited[m] < visited[n]
    <3>1. PICK x \in W, y \in W : x = visited[m] /\ y = visited[n]
      BY <2>2, <2>3
    <3>2. RankOf(W, x) = m - 1 /\ RankOf(W, y) = n - 1
      BY <1>1, <2>1, <2>2, <2>6, <3>1 DEF LcoreInv, Foreach
    <3>3. RankOf(W, x) < RankOf(W, y)
      BY <2>2, <2>6, <3>2
    <3> QED
      BY <3>1, <3>3, RankTells
  <2>7. ASSUME mode # "wrap", iter_pc = "done"
        PROVE  LET n == Min({limit + 1, Cardinality(Wanted)}) IN
               /\ Len(visited) = n
               /\ \A k \in Wanted : Cardinality({l \in Wanted : l < k}) < n => k \in Range(visited)
    <3>1. Len(visited) = Min({limit + 1, Cardinality(Wanted)})
      BY <1>1, <2>7, ForeachCalls
    <3>2. ASSUME NEW k \in Wanted, Cardinality({l \in Wanted : l < k}) < Len(visited)
          PROVE  k \in Range(visited)
      <4>1. RankOf(W, k) < Len(visited) /\ k \in W
        BY <2>1, <3>2 DEF RankOf
      <4>2. RankOf(W, k) + 1 \in 1 .. Len(visited) /\ visited[RankOf(W, k) + 1] = k
        BY <1>1, <2>1, <2>7, <4>1, RankVisited
      <4> QED
        BY <2>2, <4>2 DEF Range
    <3> QED
      BY <3>1, <3>2
  <2>8. ASSUME mode = "all"
        PROVE  /\ \A n \in DOMAIN visited : rte_lcore_index(visited[n]) = n - 1
               /\ iter_pc = "done" => visited[rte_lcore_index(-1) + 1] = rte_lcore_id
    <3>1. W = enabled /\ master \in W /\ limit = UINT32
      BY <1>1, <2>1, <2>8, WantedIs DEF LcoreInv, IterTypeOK
    <3>2. ASSUME NEW l \in W
          PROVE  rte_lcore_index(l) = RankOf(W, l) /\ (l = master => rte_lcore_index(-1) = RankOf(W, l))
      <4>1. l \in Nat /\ l < RTE_MAX_LCORE /\ RTE_MAX_LCORE \in Nat /\ l \in Lcores /\ 0 < RTE_MAX_LCORE
        BY LcoreNumbers, LcoresFinite
      <4>2. lcore_config[l].core_index = RankOf(W, l)
        BY <3>1, <4>1 DEF lcore_config, RankOf
      <4>3. ~(l >= RTE_MAX_LCORE) /\ ~(l < 0) /\ ~(-1 >= RTE_MAX_LCORE) /\ -1 < 0
        BY <4>1
      <4> QED
        BY <4>2, <4>3 DEF rte_lcore_index, rte_lcore_id
    <3>3. ASSUME NEW n \in DOMAIN visited
          PROVE  rte_lcore_index(visited[n]) = n - 1
      <4>1. visited[n] \in W /\ RankOf(W, visited[n]) = n - 1
        BY <1>1, <2>1, <2>2, <2>8 DEF LcoreInv, Foreach
      <4> QED
        BY <3>2, <4>1
    <3>4. ASSUME iter_pc = "done"
          PROVE  visited[rte_lcore_index(-1) + 1] = rte_lcore_id
      <4>1. Len(visited) = Cardinality(W)
        BY <1>1, <2>1, <2>8, <3>4 DEF LcoreInv, Foreach
      <4>2. RankOf(W, master) < Len(visited)
        BY <3>1, <4>1, RankTells
      <4>3. visited[RankOf(W, master) + 1] = master
        BY <1>1, <2>1, <2>8, <3>1, <4>2, RankVisited
      <4> QED
        BY <3>1, <3>2, <4>3 DEF rte_lcore_id
    <3> QED
      BY <3>3, <3>4
  <2> QED
    BY <2>4, <2>5, <2>6, <2>7, <2>8 DEF VisitsEach
<1>2. IterSpec => []LcoreInv
  BY LcoreInvariant
<1> QED
  BY <1>1, <1>2, PTL

=============================================================================

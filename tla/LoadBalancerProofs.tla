------------------------- MODULE LoadBalancerProofs -------------------------
(***************************************************************************)
(* What LoadBalancer promises, proved for every value of its constants.    *)
(* First what the tables of RteLpm answer, by induction over the numbers;  *)
(* then the invariant LBInv: each packet is in one place, its own, in the  *)
(* order of its flow, or freed.  A step of the program moves packets from  *)
(* places of one stage to the next, and a move keeps that (lemma Move).    *)
(***************************************************************************)
EXTENDS LoadBalancer, WellFoundedInduction, SequenceTheorems, FiniteSetTheorems, FunctionTheorems, TLAPS

-----------------------------------------------------------------------------
(* Induction over the naturals, from their being well founded: a set that   *)
(* is not empty has a least member, one that holds 0 and with each number   *)
(* the next holds all, and a function may be defined by recursion.          *)

LEMMA LeastNat ==
  ASSUME NEW T \in SUBSET Nat, T # {}
  PROVE  \E n \in T : \A m \in T : n <= m
<1> DEFINE Lt == {x \in Nat \X Nat : x[1] < x[2]}
<1>1. IsWellFoundedOn(Lt, Nat)
  BY NatLessThanWellFounded DEF OpToRel
<1>2. PICK n \in T : \A m \in T : ~(<<m, n>> \in Lt)
  BY <1>1, WFMin
<1>3. ASSUME NEW m \in T PROVE n <= m
  <2>1. n \in Nat /\ m \in Nat /\ <<m, n>> \notin Lt
    BY <1>2
  <2> QED
    BY <2>1
<1> QED
  BY <1>3

LEMMA Induct ==
  ASSUME NEW T, 0 \in T, \A n \in Nat : n \in T => n + 1 \in T
  PROVE  Nat \subseteq T
<1> SUFFICES ASSUME Nat \ T # {} PROVE FALSE
  OBVIOUS
<1>1. PICK n \in Nat \ T : \A m \in Nat \ T : n <= m
  BY LeastNat
<1>2. n - 1 \in Nat /\ n - 1 \in T
  BY <1>1
<1> QED
  BY <1>1, <1>2

Recursive(V) ==
  \A base \in V : \A step \in [V \X Nat -> V] :
    \E f \in [Nat -> V] : f[0] = base /\ \A k \in Nat : f[k + 1] = step[<<f[k], k>>]

LEMMA Recursion == \A V : Recursive(V)
<1> SUFFICES ASSUME NEW V, NEW base \in V, NEW step \in [V \X Nat -> V]
             PROVE  \E f \in [Nat -> V] : f[0] = base /\ \A k \in Nat : f[k + 1] = step[<<f[k], k>>]
  BY DEF Recursive
<1> DEFINE Upto(n, f) == /\ f \in [0 .. n -> V] /\ f[0] = base
                         /\ \A k \in 0 .. n - 1 : f[k + 1] = step[<<f[k], k>>]
           T == {n \in Nat : \E f : Upto(n, f)}
<1>1. 0 \in T
  <2>1. Upto(0, [k \in 0 .. 0 |-> base])
    OBVIOUS
  <2> QED
    BY <2>1
<1>2. ASSUME NEW n \in Nat, n \in T PROVE n + 1 \in T
  <2>1. PICK f : Upto(n, f)
    BY <1>2
  <2> DEFINE g == [k \in 0 .. n + 1 |-> IF k = n + 1 THEN step[<<f[n], n>>] ELSE f[k]]
  <2>2. f \in [0 .. n -> V] /\ f[n] \in V /\ f[0] = base
    BY <2>1
  <2>3. step[<<f[n], n>>] \in V
    BY <2>2
  <2>4. g \in [0 .. n + 1 -> V] /\ g[0] = base
    BY <2>2, <2>3
  <2>5. ASSUME NEW k \in 0 .. (n + 1) - 1 PROVE g[k + 1] = step[<<g[k], k>>]
    <3>1. k \in 0 .. n + 1 /\ k + 1 \in 0 .. n + 1 /\ k # n + 1
      OBVIOUS
    <3>2. CASE k = n
      BY <3>1, <3>2
    <3>3. CASE k \in 0 .. n - 1
      BY <2>1, <3>1, <3>3
    <3> QED
      BY <3>2, <3>3
  <2>6. Upto(n + 1, g)
    <3> HIDE DEF g
    <3> QED
      BY <2>4, <2>5
  <2> HIDE DEF Upto, g
  <2> QED
    BY <2>6
<1>3. Nat \subseteq T
  <2> HIDE DEF T
  <2> QED
    BY <1>1, <1>2, Induct
<1>4. \A n \in Nat : \E f : Upto(n, f)
  BY <1>3
<1>5. ASSUME NEW n \in Nat, NEW m \in Nat, NEW f, NEW h, Upto(n, f), Upto(m, h), n <= m
      PROVE  \A k \in 0 .. n : f[k] = h[k]
  <2> DEFINE S == {k \in Nat : k <= n => f[k] = h[k]}
  <2>1. 0 \in S
    BY <1>5
  <2>2. ASSUME NEW k \in Nat, k \in S PROVE k + 1 \in S
    <3>1. k + 1 <= n => k \in 0 .. n - 1 /\ k \in 0 .. m - 1 /\ f[k] = h[k]
      BY <1>5, <2>2
    <3>2. k + 1 <= n => f[k + 1] = h[k + 1]
      BY <1>5, <3>1
    <3> QED
      BY <3>2
  <2>3. Nat \subseteq S
    <3> HIDE DEF S
    <3> QED
      BY <2>1, <2>2, Induct
  <2> QED
    BY <2>3
<1> DEFINE F(n) == CHOOSE f : Upto(n, f)
           p == [n \in Nat |-> F(n)[n]]
<1>6. \A n \in Nat : Upto(n, F(n))
  BY <1>4
<1> HIDE DEF F
<1>7. p \in [Nat -> V] /\ p[0] = base
  BY <1>6
<1>8. ASSUME NEW k \in Nat PROVE p[k + 1] = step[<<p[k], k>>]
  <2>1. F(k)[k] = F(k + 1)[k]
    <3>1. k \in Nat /\ k + 1 \in Nat /\ k <= k + 1 /\ Upto(k, F(k)) /\ Upto(k + 1, F(k + 1)) /\ k \in 0 .. k
      BY <1>6
    <3> HIDE DEF Upto
    <3> QED
      BY <1>5, <3>1
  <2>2. F(k + 1)[k + 1] = step[<<F(k + 1)[k], k>>]
    BY <1>6
  <2> QED
    BY <2>1, <2>2
<1> QED
  BY <1>7, <1>8

LEMMA PowDef == pow2 \in [Nat -> Nat] /\ pow2[0] = 1 /\ \A k \in Nat : pow2[k + 1] = 2 * pow2[k]
<1> DEFINE Eq(g) == g = [k \in Nat |-> IF k = 0 THEN 1 ELSE 2 * g[k - 1]]
           step == [x \in Nat \X Nat |-> 2 * x[1]]
<1>1. step \in [Nat \X Nat -> Nat] /\ 1 \in Nat
  OBVIOUS
<1>2. PICK f \in [Nat -> Nat] : f[0] = 1 /\ \A k \in Nat : f[k + 1] = step[<<f[k], k>>]
  <2>1. Recursive(Nat)
    BY Recursion
  <2> HIDE DEF step
  <2> QED
    BY <1>1, <2>1 DEF Recursive
<1>3. \A k \in Nat : f[k] = IF k = 0 THEN 1 ELSE 2 * f[k - 1]
  <2> SUFFICES ASSUME NEW k \in Nat PROVE f[k] = IF k = 0 THEN 1 ELSE 2 * f[k - 1]
    OBVIOUS
  <2>1. CASE k = 0
    BY <1>2, <2>1
  <2>2. CASE k # 0
    <3>1. k - 1 \in Nat /\ (k - 1) + 1 = k
      BY <2>2
    <3> QED
      BY <1>2, <2>2, <3>1
  <2> QED
    BY <2>1, <2>2
<1>4. Eq(f)
  BY <1>3
<1>5. Eq(CHOOSE g : Eq(g))
  <2> HIDE DEF Eq
  <2> QED
    BY <1>4
<1>6. Eq(pow2)
  BY <1>5 DEF pow2
<1> DEFINE S == {k \in Nat : pow2[k] \in Nat}
<1>7. Nat \subseteq S
  <2>1. 0 \in S
    BY <1>6
  <2>2. ASSUME NEW k \in Nat, k \in S PROVE k + 1 \in S
    BY <1>6, <2>2
  <2> HIDE DEF S
  <2> QED
    BY <2>1, <2>2, Induct
<1>8. pow2 \in [Nat -> Nat]
  BY <1>6, <1>7
<1> QED
  BY <1>6, <1>8

LEMMA PowType == \A k \in Nat : pow2[k] \in Nat \ {0}
<1> DEFINE S == {k \in Nat : pow2[k] # 0}
<1>1. 0 \in S
  BY PowDef
<1>2. ASSUME NEW k \in Nat, k \in S PROVE k + 1 \in S
  BY PowDef, <1>2
<1>3. Nat \subseteq S
  <2> HIDE DEF S
  <2> QED
    BY <1>1, <1>2, Induct
<1> QED
  BY <1>3, PowDef

LEMMA PowSum == \A a, b \in Nat : pow2[a + b] = pow2[a] * pow2[b]
<1> SUFFICES ASSUME NEW a \in Nat PROVE \A b \in Nat : pow2[a + b] = pow2[a] * pow2[b]
  OBVIOUS
<1> DEFINE S == {b \in Nat : pow2[a + b] = pow2[a] * pow2[b]}
<1>1. 0 \in S
  BY PowDef
<1>2. ASSUME NEW b \in Nat, b \in S PROVE b + 1 \in S
  <2>1. pow2[a + b] = pow2[a] * pow2[b] /\ pow2[b + 1] = 2 * pow2[b]
    BY <1>2, PowDef
  <2>2. a + (b + 1) = (a + b) + 1 /\ a + b \in Nat
    OBVIOUS
  <2>3. pow2[a + (b + 1)] = 2 * pow2[a + b]
    BY <2>2, PowDef
  <2>4. \A x, y \in Nat : 2 * (x * y) = x * (2 * y)
    OBVIOUS
  <2>5. pow2[a] \in Nat /\ pow2[b] \in Nat
    BY PowDef
  <2>6. pow2[a + (b + 1)] = pow2[a] * pow2[b + 1]
    BY <2>1, <2>3, <2>4, <2>5
  <2> QED
    BY <2>6
<1>3. Nat \subseteq S
  <2> HIDE DEF S
  <2> QED
    BY <1>1, <1>2, Induct
<1> QED
  BY <1>3

(* Division by a product, and of a number given by quotient and remainder.  *)

LEMMA Multiple ==
  ASSUME NEW q \in Int, NEW d \in Nat \ {0}, NEW e \in Int, q * d = e, -d < e, e < d
  PROVE  q = 0
<1>1. CASE q >= 1
  <2>1. q * d >= d
    BY <1>1
  <2> QED
    BY <2>1
<1>2. CASE q <= -1
  <2>1. q * d <= -d
    BY <1>2
  <2> QED
    BY <2>1
<1> QED
  BY <1>1, <1>2

LEMMA DivIs ==
  ASSUME NEW d \in Nat \ {0}, NEW x \in Int
  PROVE  /\ x \div d \in Int /\ x % d \in 0 .. d - 1 /\ x = (x \div d) * d + (x % d)
         /\ \A q \in Int, r \in 0 .. d - 1 : x = q * d + r => x \div d = q /\ x % d = r
<1>1. x \div d \in Int /\ x % d \in 0 .. d - 1 /\ x = (x \div d) * d + (x % d)
  OBVIOUS
<1>2. ASSUME NEW q \in Int, NEW r \in 0 .. d - 1, x = q * d + r PROVE x \div d = q /\ x % d = r
  <2>1. ((x \div d) - q) * d = r - (x % d)
    BY <1>1, <1>2
  <2>2. (x \div d) - q = 0
    BY <1>1, <2>1, Multiple
  <2> QED
    BY <1>1, <1>2, <2>2
<1> QED
  BY <1>1, <1>2

LEMMA DivNat ==
  ASSUME NEW d \in Nat \ {0}, NEW x \in Nat
  PROVE  x \div d \in Nat
<1>1. x \div d \in Int /\ x % d \in 0 .. d - 1 /\ x = (x \div d) * d + (x % d)
  BY DivIs
<1>2. CASE x \div d <= -1
  <2>1. (x \div d) * d <= -d
    BY <1>1, <1>2
  <2> QED
    BY <1>1, <2>1
<1> QED
  BY <1>1, <1>2

LEMMA DivBelow ==
  ASSUME NEW d \in Nat \ {0}, NEW n \in Nat, NEW x \in Nat, x < n * d
  PROVE  x \div d < n
<1>1. x \div d \in Int /\ x % d \in 0 .. d - 1 /\ x = (x \div d) * d + (x % d)
  BY DivIs
<1>2. CASE x \div d >= n
  <2>1. (x \div d) * d >= n * d
    BY <1>1, <1>2
  <2> QED
    BY <1>1, <2>1
<1> QED
  BY <1>1, <1>2

LEMMA DivDiv ==
  ASSUME NEW a \in Nat \ {0}, NEW b \in Nat \ {0}, NEW x \in Nat
  PROVE  x \div (a * b) = (x \div a) \div b
<1> DEFINE u == x \div a  r == x % a  v == u \div b  s == u % b
<1>1. u \in Int /\ r \in 0 .. a - 1 /\ x = u * a + r
  BY DivIs
<1>2. v \in Int /\ s \in 0 .. b - 1 /\ u = v * b + s
  BY <1>1, DivIs
<1>3. a * b \in Nat \ {0}
  BY Multiple
<1> HIDE DEF u, r, v, s
<1>4. x = (v * b + s) * a + r
  BY <1>1, <1>2
<1>5. (v * b + s) * a = v * (a * b) + s * a
  BY <1>2
<1>6. s * a + r \in 0 .. (a * b) - 1
  <2>1. s * a >= 0 /\ s * a \in Int
    BY <1>2
  <2>2. s * a <= (b - 1) * a
    BY <1>2
  <2>3. (b - 1) * a = a * b - a
    OBVIOUS
  <2> QED
    BY <1>1, <1>3, <2>1, <2>2, <2>3
<1>7. x = v * (a * b) + (s * a + r)
  BY <1>1, <1>2, <1>3, <1>4, <1>5, <1>6
<1>8. x \div (a * b) = v
  BY <1>2, <1>3, <1>6, <1>7, DivIs, SMTT(30)
<1> QED
  BY <1>8 DEF u, v

LEMMA DivOf ==
  ASSUME NEW d \in Nat \ {0}, NEW q \in Int, NEW r \in 0 .. d - 1, NEW x, x = q * d + r
  PROVE  x \in Int /\ x \div d = q /\ x % d = r
<1>1. x \in Int
  <2>1. q * d \in Int
    OBVIOUS
  <2> QED
    BY <2>1
<1> QED
  BY <1>1, DivIs

-----------------------------------------------------------------------------
(* The LPM tables.                                                          *)

LpmRule == [ip : Ips, depth : 1 .. IpBits, if_out : 0 .. pow2[HopBits] - 1]

LEMMA Bits ==
  /\ IpHigh \in Nat /\ IpLow \in Nat /\ HopBits \in Nat /\ IpBits \in Nat /\ IpBits = IpHigh + IpLow
  /\ pow2[IpHigh] \in Nat \ {0} /\ pow2[IpLow] \in Nat \ {0} /\ pow2[HopBits] \in Nat \ {0}
  /\ pow2[IpBits] = pow2[IpHigh] * pow2[IpLow]
  /\ pow2[IpHigh] <= pow2[HopBits]
<1>1. IpHigh \in Nat /\ IpLow \in Nat /\ HopBits \in Nat /\ IpHigh <= HopBits
  BY LpmAssumption
<1>2. IpBits \in Nat /\ IpBits = IpHigh + IpLow
  BY <1>1 DEF IpBits
<1>3. pow2[IpHigh] \in Nat \ {0} /\ pow2[IpLow] \in Nat \ {0} /\ pow2[HopBits] \in Nat \ {0}
  BY <1>1, PowType
<1>4. pow2[IpBits] = pow2[IpHigh] * pow2[IpLow]
  BY <1>1, <1>2, PowSum
<1>5. pow2[IpHigh] <= pow2[HopBits]
  <2>1. HopBits - IpHigh \in Nat /\ IpHigh + (HopBits - IpHigh) = HopBits
    BY <1>1
  <2>2. pow2[HopBits] = pow2[IpHigh] * pow2[HopBits - IpHigh]
    BY <1>1, <2>1, PowSum
  <2>3. pow2[HopBits - IpHigh] \in Nat \ {0}
    BY <2>1, PowType
  <2>4. \A x, y \in Nat \ {0} : x <= x * y
    OBVIOUS
  <2> QED
    BY <1>3, <2>2, <2>3, <2>4
<1> QED
  BY <1>1, <1>2, <1>3, <1>4, <1>5

(* The two parts of an address.                                             *)
LEMMA IpParts ==
  ASSUME NEW ip \in Ips
  PROVE  /\ ip \in Nat
         /\ ip \div pow2[IpLow] \in 0 .. pow2[IpHigh] - 1
         /\ ip % pow2[IpLow] \in 0 .. pow2[IpLow] - 1
         /\ (ip \div pow2[IpLow]) * pow2[IpLow] + (ip % pow2[IpLow]) = ip
<1>1. ip \in Nat /\ ip < pow2[IpHigh] * pow2[IpLow]
  BY Bits DEF Ips
<1>2. ip \div pow2[IpLow] \in Nat /\ ip \div pow2[IpLow] < pow2[IpHigh]
  BY <1>1, Bits, DivNat, DivBelow
<1>3. ip % pow2[IpLow] \in 0 .. pow2[IpLow] - 1 /\ ip = (ip \div pow2[IpLow]) * pow2[IpLow] + (ip % pow2[IpLow])
  <2> DEFINE d == pow2[IpLow]
  <2>1. d \in Nat \ {0} /\ ip \in Int
    BY <1>1, Bits
  <2> HIDE DEF d
  <2>2. ip % d \in 0 .. d - 1 /\ ip = (ip \div d) * d + (ip % d)
    BY <2>1, DivIs
  <2> QED
    BY <2>2 DEF d
<1> QED
  BY <1>1, <1>2, <1>3, Bits, SMTT(30)

(* A rule no deeper than tbl24 covers an address if it covers the first of  *)
(* its tbl24 entry.                                                         *)
LEMMA CoversShallow ==
  ASSUME NEW r \in LpmRule, r.depth <= IpHigh, NEW ip \in Ips
  PROVE  Covers(r, ip) <=> Covers(r, (ip \div pow2[IpLow]) * pow2[IpLow])
<1> DEFINE m == pow2[IpHigh - r.depth]  e == ip \div pow2[IpLow]  x == e * pow2[IpLow]
<1>1. r.depth \in Nat /\ IpHigh - r.depth \in Nat /\ IpBits - r.depth = IpLow + (IpHigh - r.depth)
  BY Bits DEF LpmRule
<1>2. m \in Nat \ {0} /\ pow2[IpBits - r.depth] = pow2[IpLow] * m
  BY <1>1, Bits, PowType, PowSum
<1>3. ip \in Nat /\ e \in Nat /\ pow2[IpLow] \in Nat \ {0}
  BY IpParts, Bits
<1> HIDE DEF e
<1>4. x \in Nat
  BY <1>3
<1>5. x \div pow2[IpLow] = e
  <2> DEFINE d == pow2[IpLow]
  <2>1. d \in Nat \ {0} /\ e \in Int
    BY <1>3
  <2> HIDE DEF d
  <2>2. 0 \in 0 .. d - 1 /\ e * d \in Int /\ e * d = e * d + 0
    BY <2>1
  <2>3. (e * d) \div d = e
    BY <2>1, <2>2, DivIs
  <2> QED
    BY <2>3 DEF d
<1> HIDE DEF m, x
<1>6. ip \div (pow2[IpLow] * m) = (ip \div pow2[IpLow]) \div m
  BY <1>2, <1>3, DivDiv
<1>7. x \div (pow2[IpLow] * m) = (x \div pow2[IpLow]) \div m
  BY <1>2, <1>3, <1>4, DivDiv
<1>8. ip \div pow2[IpBits - r.depth] = x \div pow2[IpBits - r.depth]
  BY <1>2, <1>5, <1>6, <1>7 DEF e
<1> QED
  BY <1>8 DEF Covers, x, e

(* A deeper one covers addresses of one tbl24 entry only.                   *)
LEMMA CoversDeep ==
  ASSUME NEW r \in LpmRule, r.depth > IpHigh, NEW ip \in Ips, Covers(r, ip)
  PROVE  r.ip \div pow2[IpLow] = ip \div pow2[IpLow]
<1> DEFINE a == pow2[IpBits - r.depth]  b == pow2[r.depth - IpHigh]
<1>1. r.depth \in Nat /\ IpBits - r.depth \in Nat /\ r.depth - IpHigh \in Nat
      /\ (IpBits - r.depth) + (r.depth - IpHigh) = IpLow
  BY Bits DEF LpmRule
<1>2. a \in Nat \ {0} /\ b \in Nat \ {0} /\ pow2[IpLow] = a * b
  BY <1>1, PowType, PowSum
<1>3. ip \in Nat /\ r.ip \in Nat
  BY Bits DEF Ips, LpmRule
<1>4. r.ip \div a = ip \div a
  BY DEF Covers
<1> HIDE DEF a, b
<1>5. r.ip \div (a * b) = (r.ip \div a) \div b /\ ip \div (a * b) = (ip \div a) \div b
  BY <1>2, <1>3, DivDiv
<1> QED
  BY <1>2, <1>4, <1>5

LEMMA DeepestLast ==
  ASSUME NEW n \in Nat, NEW b \in Nat, NEW S \in SUBSET (1 .. n), S # {}, NEW d \in [S -> 0 .. b]
  PROVE  \E i \in S : \A j \in S : d[j] < d[i] \/ (d[j] = d[i] /\ j <= i)
<1> DEFINE T == {b - d[i] : i \in S}
<1>1. T \in SUBSET Nat /\ T # {}
  <2>1. ASSUME NEW i \in S PROVE b - d[i] \in Nat
    <3>1. d[i] \in 0 .. b
      OBVIOUS
    <3> QED
      BY <3>1
  <2> QED
    BY <2>1
<1>2. PICK m \in T : \A x \in T : m <= x
  <2> HIDE DEF T
  <2> QED
    BY <1>1, LeastNat
<1>3. PICK h \in S : m = b - d[h]
  BY <1>2
<1>4. ASSUME NEW j \in S PROVE d[j] <= d[h]
  <2>1. b - d[h] <= b - d[j] /\ d[j] \in 0 .. b /\ d[h] \in 0 .. b
    BY <1>2, <1>3
  <2> QED
    BY <2>1
<1> DEFINE U == {n - i : i \in {j \in S : d[j] = d[h]}}
<1>5. U \in SUBSET Nat /\ U # {}
  <2>1. ASSUME NEW i \in S PROVE n - i \in Nat
    <3>1. i \in 1 .. n
      OBVIOUS
    <3> QED
      BY <3>1
  <2> QED
    BY <2>1
<1>6. PICK k \in U : \A x \in U : k <= x
  <2> HIDE DEF U
  <2> QED
    BY <1>5, LeastNat
<1>7. PICK i \in S : d[i] = d[h] /\ k = n - i
  BY <1>6
<1>8. ASSUME NEW j \in S PROVE d[j] < d[i] \/ (d[j] = d[i] /\ j <= i)
  <2>1. d[j] \in 0 .. b /\ d[i] \in 0 .. b /\ d[j] <= d[i] /\ j \in 1 .. n /\ i \in 1 .. n
    BY <1>4, <1>7
  <2>2. d[j] = d[i] => n - i <= n - j
    BY <1>6, <1>7
  <2> QED
    BY <2>1, <2>2
<1> QED
  BY <1>8

(* Best is the deepest of the rules that match, the last of those.          *)
LEMMA BestIs ==
  ASSUME NEW rs \in Seq(LpmRule), NEW ip, NEW depths
  PROVE  IF Match(rs, ip, depths) = {} THEN Best(rs, ip, depths) = 0
         ELSE /\ Best(rs, ip, depths) \in Match(rs, ip, depths)
              /\ \A j \in Match(rs, ip, depths) :
                   \/ rs[j].depth < rs[Best(rs, ip, depths)].depth
                   \/ rs[j].depth = rs[Best(rs, ip, depths)].depth /\ j <= Best(rs, ip, depths)
<1> DEFINE match == Match(rs, ip, depths)
           d == [i \in match |-> rs[i].depth]
           Last(i) == \A j \in match : rs[j].depth < rs[i].depth \/ (rs[j].depth = rs[i].depth /\ j <= i)
<1>1. match \subseteq 1 .. Len(rs) /\ Len(rs) \in Nat
  BY LenProperties DEF Match
<1>2. \A i \in match : rs[i].depth \in 0 .. IpBits
  <2>1. \A i \in match : rs[i] \in LpmRule
    BY <1>1, ElementOfSeq
  <2> HIDE DEF match
  <2> QED
    BY <2>1, Bits DEF LpmRule
<1> HIDE DEF match
<1>3. CASE match # {}
  <2>1. d \in [match -> 0 .. IpBits]
    BY <1>2
  <2>2. PICK i \in match : \A j \in match : d[j] < d[i] \/ (d[j] = d[i] /\ j <= i)
    <3> HIDE DEF d
    <3> QED
      BY <1>1, <1>3, <2>1, Bits, DeepestLast
  <2>3. Last(i)
    BY <2>2
  <2>4. (CHOOSE x \in match : Last(x)) \in match /\ Last(CHOOSE x \in match : Last(x))
    <3> HIDE DEF Last
    <3> QED
      BY <2>3
  <2>5. Best(rs, ip, depths) = CHOOSE x \in match : Last(x)
    BY <1>3 DEF Best, match
  <2> QED
    BY <1>3, <2>4, <2>5 DEF match
<1>4. CASE match = {}
  BY <1>4 DEF Best, match
<1> QED
  BY <1>3, <1>4 DEF match

LEMMA BestSame ==
  ASSUME NEW rs, NEW ip, NEW depths, NEW ip1, NEW depths1,
         Match(rs, ip, depths) = Match(rs, ip1, depths1)
  PROVE  Best(rs, ip, depths) = Best(rs, ip1, depths1)
  BY DEF Best

(* The tbl24 entries with a group of tbl8, and the numbers of the groups.    *)
LEMMA Groups ==
  ASSUME NEW rs \in Seq(LpmRule)
  PROVE  /\ Extended(rs) \subseteq 0 .. pow2[IpHigh] - 1
         /\ Cardinality(Extended(rs)) \in Nat /\ Cardinality(Extended(rs)) <= pow2[IpHigh]
         /\ \A e \in Extended(rs) : GroupIndex(rs, e) \in 0 .. Cardinality(Extended(rs)) - 1
         /\ \A e, f \in Extended(rs) : GroupIndex(rs, e) = GroupIndex(rs, f) => e = f
<1> DEFINE X == Extended(rs)  n == pow2[IpHigh]  Below(e) == {f \in X : f < e}
<1>1. X \subseteq 0 .. n - 1
  <2>1. ASSUME NEW i \in DOMAIN rs PROVE rs[i].ip \div pow2[IpLow] \in 0 .. n - 1
    <3>1. rs[i] \in LpmRule
      BY <2>1, LenProperties, ElementOfSeq
    <3>2. rs[i].ip \in Ips
      BY <3>1 DEF LpmRule
    <3> QED
      BY <3>2, IpParts
  <2> QED
    BY <2>1 DEF Extended
<1>2. n \in Nat \ {0}
  BY Bits
<1>3. \A e \in X : GroupIndex(rs, e) = Cardinality(Below(e))
  BY DEF GroupIndex
<1> HIDE DEF X, n
<1>4. IsFiniteSet(X) /\ Cardinality(X) \in Nat /\ Cardinality(X) <= n
  <2>1. IsFiniteSet(0 .. n - 1) /\ Cardinality(0 .. n - 1) = n
    BY <1>2, FS_Interval
  <2> QED
    BY <1>1, <2>1, FS_Subset, FS_CardinalityType
<1>5. ASSUME NEW S \in SUBSET X, NEW e \in X \ S, NEW T \in SUBSET X, S \subseteq T, e \in T
      PROVE  Cardinality(S) \in Nat /\ Cardinality(T) \in Nat /\ Cardinality(S) < Cardinality(T)
  <2>1. IsFiniteSet(T) /\ IsFiniteSet(S)
    BY <1>4, FS_Subset
  <2>2. Cardinality(S) <= Cardinality(T) /\ Cardinality(S) # Cardinality(T)
    BY <1>5, <2>1, FS_Subset
  <2>3. Cardinality(S) \in Nat /\ Cardinality(T) \in Nat
    BY <2>1, FS_CardinalityType
  <2> QED
    BY <2>2, <2>3
<1>6. ASSUME NEW e \in X PROVE Cardinality(Below(e)) \in 0 .. Cardinality(X) - 1
  <2>1. Below(e) \in SUBSET X /\ e \in X \ Below(e)
    BY <1>1, <1>2
  <2> HIDE DEF Below
  <2>2. Cardinality(Below(e)) \in Nat /\ Cardinality(Below(e)) < Cardinality(X)
    BY <1>5, <2>1
  <2> QED
    BY <1>4, <2>2
<1>7. ASSUME NEW e \in X, NEW f \in X, e < f PROVE Cardinality(Below(e)) # Cardinality(Below(f))
  <2>1. e \in Int /\ f \in Int /\ \A g \in X : g \in Int
    BY <1>1, <1>2
  <2>2. Below(e) \in SUBSET X /\ Below(f) \in SUBSET X /\ e \in X \ Below(e) /\ e \in Below(f)
    BY <1>7, <2>1
  <2>4. Below(e) \subseteq Below(f)
    <3>1. ASSUME NEW g \in X, g < e PROVE g < f
      BY <1>7, <2>1, <3>1
    <3> QED
      BY <3>1
  <2> HIDE DEF Below
  <2>3. Cardinality(Below(e)) \in Nat /\ Cardinality(Below(f)) \in Nat /\ Cardinality(Below(e)) < Cardinality(Below(f))
    BY <1>5, <2>2, <2>4
  <2> QED
    BY <2>3
<1>8. ASSUME NEW e \in X, NEW f \in X, e # f PROVE Cardinality(Below(e)) # Cardinality(Below(f))
  <2>1. e < f \/ f < e
    BY <1>1, <1>2, <1>8
  <2> HIDE DEF Below
  <2> QED
    BY <1>7, <2>1
<1> HIDE DEF Below
<1> QED
  BY <1>1, <1>3, <1>4, <1>6, <1>8 DEF X, n

(* What the lookups read from the word of an entry.                         *)
LEMMA Decode ==
  ASSUME NEW next_hop \in 0 .. pow2[HopBits] - 1, NEW valid \in 0 .. 1, NEW vg \in 0 .. 1, NEW depth \in Nat
  PROVE  LET entry == Entry(next_hop, valid, vg, depth)
         IN  /\ NextHop(entry) = next_hop
             /\ RTE_LPM_VALID_EXT_ENTRY(entry) <=> valid = 1 /\ vg = 1
             /\ RTE_LPM_LOOKUP_SUCCESS(entry) <=> valid = 1
<1> DEFINE d == pow2[HopBits]  k == valid + 2 * vg + 4 * depth  entry == Entry(next_hop, valid, vg, depth)
<1>1. d \in Nat \ {0} /\ next_hop \in 0 .. d - 1
  BY Bits
<1>2. k \in Nat
  OBVIOUS
<1>3. k % 4 = valid + 2 * vg
  <2> DEFINE r == valid + 2 * vg
  <2>1. k = depth * 4 + r /\ r \in 0 .. 4 - 1 /\ depth \in Int /\ 4 \in Nat \ {0}
    OBVIOUS
  <2> HIDE DEF k, r
  <2>2. k % 4 = r
    BY ONLY <2>1, DivOf
  <2> QED
    BY <2>2 DEF r
<1>4. k % 2 = valid
  <2> DEFINE q == vg + 2 * depth
  <2>1. k = q * 2 + valid /\ valid \in 0 .. 2 - 1 /\ q \in Int /\ 2 \in Nat \ {0}
    OBVIOUS
  <2> HIDE DEF k, q
  <2> QED
    BY ONLY <2>1, DivOf
<1>5. entry = next_hop + d * k
  BY DEF Entry
<1> HIDE DEF d, k
<1>6. entry = k * d + next_hop
  BY <1>1, <1>2, <1>5
<1> HIDE DEF entry
<1>8. entry \div d = k /\ entry % d = next_hop
  <2>1. k \in Int
    BY <1>2
  <2> QED
    BY ONLY <1>1, <1>6, <2>1, DivOf
<1>9. NextHop(entry) = next_hop
  BY <1>8 DEF NextHop, d
<1>10. RTE_LPM_VALID_EXT_ENTRY(entry) <=> valid = 1 /\ vg = 1
  <2>1. RTE_LPM_VALID_EXT_ENTRY(entry) <=> k % 4 = 3
    BY <1>8 DEF RTE_LPM_VALID_EXT_ENTRY, d
  <2> QED
    BY <1>3, <2>1
<1>11. RTE_LPM_LOOKUP_SUCCESS(entry) <=> valid = 1
  <2>1. RTE_LPM_LOOKUP_SUCCESS(entry) <=> k % 2 = 1
    BY <1>8 DEF RTE_LPM_LOOKUP_SUCCESS, d
  <2> QED
    BY <1>4, <2>1
<1> QED
  BY <1>9, <1>10, <1>11 DEF entry

LEMMA RuleDecode ==
  ASSUME NEW rs \in Seq(LpmRule), NEW best \in 0 .. Len(rs), NEW vg \in 0 .. 1
  PROVE  LET entry == RuleEntry(rs, best, vg)
         IN  /\ NextHop(entry) = IF best = 0 THEN 0 ELSE rs[best].if_out
             /\ RTE_LPM_VALID_EXT_ENTRY(entry) <=> best # 0 /\ vg = 1
             /\ RTE_LPM_LOOKUP_SUCCESS(entry) <=> best # 0
<1> DEFINE entry == RuleEntry(rs, best, vg)
<1>1. CASE best = 0
  <2>1. entry = Entry(0, 0, vg, 0)
    BY <1>1 DEF RuleEntry
  <2>2. 0 \in 0 .. pow2[HopBits] - 1
    BY Bits
  <2> HIDE DEF entry
  <2>3. NextHop(entry) = 0 /\ ~RTE_LPM_VALID_EXT_ENTRY(entry) /\ ~RTE_LPM_LOOKUP_SUCCESS(entry)
    BY <2>1, <2>2, Decode
  <2> QED
    BY <1>1, <2>3 DEF entry
<1>2. CASE best # 0
  <2>1. entry = Entry(rs[best].if_out, 1, vg, rs[best].depth)
    BY <1>2 DEF RuleEntry
  <2>2. rs[best] \in LpmRule
    BY <1>2, LenProperties, ElementOfSeq
  <2>3. rs[best].if_out \in 0 .. pow2[HopBits] - 1 /\ rs[best].depth \in Nat
    BY <2>2 DEF LpmRule
  <2> HIDE DEF entry
  <2>4. NextHop(entry) = rs[best].if_out /\ (RTE_LPM_VALID_EXT_ENTRY(entry) <=> vg = 1) /\ RTE_LPM_LOOKUP_SUCCESS(entry)
    BY <2>1, <2>3, Decode
  <2> QED
    BY <1>2, <2>4 DEF entry
<1> QED
  BY <1>1, <1>2

LEMMA BestRange ==
  ASSUME NEW rs \in Seq(LpmRule), NEW ip, NEW depths
  PROVE  Best(rs, ip, depths) \in 0 .. Len(rs)
<1>1. Match(rs, ip, depths) \subseteq 1 .. Len(rs) /\ Len(rs) \in Nat
  BY LenProperties DEF Match
<1> QED
  BY <1>1, BestIs

(* The rules no deeper than tbl24 that match the first address of an entry  *)
(* without a group are the rules that match the address.                    *)
LEMMA MatchShallow ==
  ASSUME NEW rs \in Seq(LpmRule), NEW ip \in Ips, ip \div pow2[IpLow] \notin Extended(rs)
  PROVE  Match(rs, (ip \div pow2[IpLow]) * pow2[IpLow], 0 .. IpHigh) = Match(rs, ip, 0 .. IpBits)
<1> DEFINE x == (ip \div pow2[IpLow]) * pow2[IpLow]
<1>1. ASSUME NEW i \in DOMAIN rs
      PROVE  Covers(rs[i], x) /\ rs[i].depth \in 0 .. IpHigh <=> Covers(rs[i], ip) /\ rs[i].depth \in 0 .. IpBits
  <2>1. rs[i] \in LpmRule
    BY <1>1, LenProperties, ElementOfSeq
  <2>2. rs[i].depth \in Nat /\ rs[i].depth <= IpBits /\ IpHigh <= IpBits /\ IpHigh \in Nat /\ IpBits \in Nat
    BY <2>1, Bits, SMTT(30) DEF LpmRule
  <2>3. CASE rs[i].depth <= IpHigh
    <3>1. Covers(rs[i], x) <=> Covers(rs[i], ip)
      BY <2>1, <2>3, CoversShallow
    <3> QED
      BY <2>2, <2>3, <3>1
  <2>4. CASE rs[i].depth > IpHigh
    <3>1. rs[i].ip \div pow2[IpLow] \in Extended(rs)
      BY <2>4 DEF Extended
    <3>2. ~Covers(rs[i], ip)
      BY <2>1, <2>4, <3>1, CoversDeep
    <3>3. rs[i].depth \notin 0 .. IpHigh
      BY <2>2, <2>4
    <3> QED
      BY <3>2, <3>3
  <2> QED
    BY <2>2, <2>3, <2>4
<1> HIDE DEF x
<1>2. Match(rs, x, 0 .. IpHigh) = Match(rs, ip, 0 .. IpBits)
  BY <1>1 DEF Match
<1> QED
  BY <1>2 DEF x

(* The entry a lookup ends at is that of the deepest rule for the address.  *)
LEMMA LookupFinds ==
  ASSUME NEW rs \in Seq(LpmRule), NEW ip \in Ips
  PROVE  \E vg \in 0 .. 1 : TblEntry(rte_lpm(rs), ip) = RuleEntry(rs, Best(rs, ip, 0 .. IpBits), vg)
<1> DEFINE L == pow2[IpLow]  e == ip \div L  X == Extended(rs)  lp == rte_lpm(rs)  word == lp.tbl24[e]
           G(f) == GroupIndex(rs, f)
<1>1. e \in 0 .. pow2[IpHigh] - 1 /\ ip % L \in 0 .. L - 1 /\ e * L + (ip % L) = ip /\ L \in Nat \ {0}
  BY IpParts, Bits
<1>2. word = IF e \in X THEN Entry(G(e), 1, 1, 0) ELSE RuleEntry(rs, Best(rs, e * L, 0 .. IpHigh), 0)
  BY <1>1 DEF rte_lpm, RTE_LPM_TBL24_NUM_ENTRIES
<1>3. TblEntry(lp, ip) = IF RTE_LPM_VALID_EXT_ENTRY(word) THEN lp.tbl8[(ip % L) + NextHop(word) * L] ELSE word
  BY DEF TblEntry, RTE_LPM_TBL8_GROUP_NUM_ENTRIES
<1>4. CASE e \notin X
  <2>1. Match(rs, e * L, 0 .. IpHigh) = Match(rs, ip, 0 .. IpBits)
    BY <1>4, MatchShallow
  <2>2. word = RuleEntry(rs, Best(rs, ip, 0 .. IpBits), 0)
    BY <1>2, <1>4, <2>1, BestSame
  <2>3. ~RTE_LPM_VALID_EXT_ENTRY(word)
    <3> HIDE DEF word
    <3> QED
      BY <2>2, BestRange, RuleDecode
  <2> QED
    BY <1>3, <2>2, <2>3
<1>5. CASE e \in X
  <2>1. Cardinality(X) \in Nat /\ Cardinality(X) <= pow2[IpHigh] /\ pow2[IpHigh] <= pow2[HopBits]
        /\ G(e) \in 0 .. Cardinality(X) - 1 /\ \A f \in X : G(f) = G(e) => f = e
    BY <1>5, Groups, Bits
  <2> DEFINE g == G(e)  x == (ip % L) + g * L  m == ip % L  c == Cardinality(X)
  <2>2. g \in 0 .. pow2[HopBits] - 1
    BY <2>1, Bits
  <2>3. RTE_LPM_VALID_EXT_ENTRY(word) /\ NextHop(word) = g
    <3>1. word = Entry(g, 1, 1, 0)
      BY <1>2, <1>5
    <3> HIDE DEF word, g
    <3> QED
      BY <2>2, <3>1, Decode
  <2>4. x \in 0 .. c * L - 1 /\ x \div L = g /\ x % L = m
    <3>1. L \in Nat \ {0} /\ g \in Nat /\ g <= c - 1 /\ c \in Nat /\ m \in 0 .. L - 1
      BY <1>1, <2>1
    <3>2. x = g * L + m
      BY <3>1
    <3> HIDE DEF L, g, m, c
    <3>3. g * L \in Nat /\ g * L <= (c - 1) * L /\ (c - 1) * L = c * L - L
      BY <3>1
    <3>4. x \in Int /\ x >= 0 /\ x <= c * L - 1
      <4> DEFINE y == g * L  z == c * L
      <4>1. z \in Int
        BY <3>1
      <4> HIDE DEF y, z
      <4>2. y \in Nat /\ y <= z - L /\ x = y + m
        BY <3>1, <3>2, <3>3 DEF y, z
      <4> HIDE DEF x
      <4>3. x \in Int /\ x >= 0 /\ x <= z - 1
        BY <3>1, <4>1, <4>2
      <4> QED
        BY <4>3 DEF z
    <3>5. x \div L = g /\ x % L = m
      <4> HIDE DEF x
      <4>1. g \in Int
        BY <3>1
      <4> QED
        BY ONLY <3>1, <3>2, <4>1, DivOf
    <3>6. c * L \in Int
      BY <3>1
    <3> QED
      BY <3>4, <3>5, <3>6
  <2>5. (CHOOSE f \in X : G(f) = x \div L) = e
    <3>1. \A f \in X : G(f) = g <=> f = e
      BY <2>1
    <3> QED
      BY <1>5, <2>4, <3>1
  <2>6. lp.tbl8[x] = RuleEntry(rs, Best(rs, e * L + m, 0 .. IpBits), 1)
    <3>1. lp.tbl8 = [y \in 0 .. c * L - 1 |->
                       RuleEntry(rs, Best(rs, (CHOOSE f \in X : G(f) = y \div L) * L + (y % L), 0 .. IpBits), 1)]
      BY DEF rte_lpm, RTE_LPM_TBL8_GROUP_NUM_ENTRIES
    <3> HIDE DEF x, m, L, e, lp, c, G, X
    <3> QED
      BY <2>4, <2>5, <3>1
  <2>7. TblEntry(lp, ip) = lp.tbl8[x]
    BY <1>3, <2>3
  <2> QED
    BY <1>1, <2>6, <2>7
<1> QED
  BY <1>4, <1>5

LEMMA LookupIs ==
  ASSUME NEW rs \in Seq(LpmRule), NEW ip \in Ips
  PROVE  LET best == Best(rs, ip, 0 .. IpBits)
             entry == TblEntry(rte_lpm(rs), ip)
             hop == IF best = 0 THEN 0 ELSE rs[best].if_out
         IN  /\ rte_lpm_lookup(rte_lpm(rs), ip) = [ret |-> IF best = 0 THEN "-ENOENT" ELSE "0", next_hop |-> hop]
             /\ RTE_LPM_LOOKUP_SUCCESS(entry) <=> best # 0
             /\ NextHop(entry) = hop
<1> DEFINE best == Best(rs, ip, 0 .. IpBits)
           entry == TblEntry(rte_lpm(rs), ip)
           hop == IF best = 0 THEN 0 ELSE rs[best].if_out
<1>1. (RTE_LPM_LOOKUP_SUCCESS(entry) <=> best # 0) /\ NextHop(entry) = hop
  <2>1. PICK vg \in 0 .. 1 : entry = RuleEntry(rs, best, vg)
    BY LookupFinds
  <2>2. best \in 0 .. Len(rs)
    BY BestRange
  <2> HIDE DEF entry, best
  <2> QED
    BY <2>1, <2>2, RuleDecode
<1>2. rte_lpm_lookup(rte_lpm(rs), ip)
        = [ret |-> IF RTE_LPM_LOOKUP_SUCCESS(entry) THEN "0" ELSE "-ENOENT", next_hop |-> NextHop(entry)]
  BY DEF rte_lpm_lookup
<1> HIDE DEF entry, best
<1> QED
  BY <1>1, <1>2 DEF entry, best

-----------------------------------------------------------------------------
(* Sequences of packets.                                                    *)

LEMMA ListsIs ==
  ASSUME NEW T, NEW s \in Seq(T)
  PROVE  Lists(s) \subseteq T /\ \A x : x \in Lists(s) <=> \E i \in 1 .. Len(s) : s[i] = x
<1>1. DOMAIN s = 1 .. Len(s) /\ \A i \in 1 .. Len(s) : s[i] \in T
  BY LenProperties, ElementOfSeq
<1> QED
  BY <1>1 DEF Lists

\* the registers are drained in the order they were filled
LEMMA PipelineKeeps == \A array \in Seq(Nat) : Pipeline(array) = array
<1> SUFFICES ASSUME NEW array \in Seq(Nat) PROVE Pipeline(array) = array
  OBVIOUS
<1> DEFINE n == Len(array)
           S == {j \in 0 .. n : j % 2 = 0 /\ j + 3 < n}
           r == IF n > 3 THEN (n - 2) \div 2 ELSE 0
           a(x) == IF x < n THEN array[x + 1] ELSE 0
           regs(u) == <<a(2 * u), a(2 * u + 1), a(2 * u + 2), a(2 * u + 3)>>
           even(u) == [x \in 1 .. 2 * u |-> IF x % 2 = 1 THEN a(2 * ((x - 1) \div 2)) ELSE a(2 * ((x - 2) \div 2) + 1)]
<1>1. n \in Nat /\ \A i \in 1 .. n : array[i] \in Nat
  BY LenProperties, ElementOfSeq
<1>2. Pipeline(array) = even(Cardinality(S)) \o SubSeq(regs(Cardinality(S)), 1, n - 2 * Cardinality(S))
  BY DEF Pipeline
<1>3. /\ r \in Nat /\ 2 * r <= n /\ n - 2 * r <= 3
      /\ \A i \in Nat : 2 * i + 3 < n <=> i < r
  <2> HIDE DEF n
  <2>1. CASE n > 3
    <3> DEFINE s == (n - 2) % 2  q == (n - 2) \div 2
    <3>1. q \in Nat /\ s \in 0 .. 1 /\ n - 2 = q * 2 + s
      <4>1. n - 2 \in Nat /\ 2 \in Nat \ {0} /\ n - 2 \in Int
        BY <1>1, <2>1
      <4>2. q \in Nat
        BY ONLY <4>1, DivNat
      <4>3. s \in 0 .. 2 - 1 /\ n - 2 = q * 2 + s
        BY ONLY <4>1, DivIs
      <4> QED
        BY <4>2, <4>3
    <3>2. r = q
      BY <2>1
    <3> HIDE DEF r, q, s
    <3> QED
      BY <1>1, <2>1, <3>1, <3>2
  <2>2. CASE ~(n > 3)
    BY <1>1, <2>2
  <2> QED
    BY <2>1, <2>2
<1> HIDE DEF r
<1>4. Cardinality(S) = r
  <2> DEFINE f == [i \in 0 .. r - 1 |-> 2 * i]
  <2>1. IsFiniteSet(0 .. r - 1) /\ Cardinality(0 .. r - 1) = r
    <3>1. 0 \in Int /\ r - 1 \in Int
      BY <1>3
    <3>2. IsFiniteSet(0 .. r - 1) /\ Cardinality(0 .. r - 1) = IF 0 > r - 1 THEN 0 ELSE r - 1 - 0 + 1
      BY ONLY <3>1, FS_Interval
    <3> QED
      BY <1>3, <3>2
  <2>2. ASSUME NEW i \in 0 .. r - 1 PROVE 2 * i \in S
    <3> DEFINE y == 2 * i
    <3>1. y = i * 2 + 0 /\ i \in Int /\ 0 \in 0 .. 2 - 1 /\ 2 \in Nat \ {0}
      BY <1>3
    <3>2. y + 3 < n /\ y \in 0 .. n
      BY <1>1, <1>3
    <3> HIDE DEF y
    <3>3. y % 2 = 0
      BY ONLY <3>1, DivOf
    <3> QED
      BY <3>2, <3>3 DEF y
  <2>3. ASSUME NEW j \in S PROVE \E i \in 0 .. r - 1 : j = 2 * i
    <3> DEFINE i == j \div 2
    <3>1. j \in Nat /\ j \in Int /\ 2 \in Nat \ {0} /\ j % 2 = 0 /\ j + 3 < n
      BY <1>1
    <3>2. i \in Nat
      BY ONLY <3>1, DivNat
    <3>3. j = i * 2 + (j % 2)
      BY ONLY <3>1, DivIs
    <3> HIDE DEF i
    <3>4. j = 2 * i /\ i < r
      BY <1>3, <3>1, <3>2, <3>3
    <3> QED
      BY <1>3, <3>2, <3>4
  <2> HIDE DEF S
  <2>4. f \in [0 .. r - 1 -> S] /\ \A x, y \in 0 .. r - 1 : f[x] = f[y] => x = y
    BY <1>3, <2>2
  <2>5. \A j \in S : \E i \in 0 .. r - 1 : f[i] = j
    BY <2>3
  <2>6. f \in Bijection(0 .. r - 1, S)
    <3> HIDE DEF f
    <3> QED
      BY <2>4, <2>5, Fun_IsBij, Fun_IsSurj
  <2>7. ExistsBijection(0 .. r - 1, S)
    BY <2>6 DEF ExistsBijection
  <2> QED
    BY <2>1, <2>7, FS_Bijection
<1> DEFINE m == n - 2 * r
<1>5. m \in 0 .. 3 /\ n = 2 * r + m
  BY <1>1, <1>3
<1>6. even(r) \in Seq(Nat) /\ Len(even(r)) = 2 * r /\ \A x \in 1 .. 2 * r : even(r)[x] = array[x]
  <2>1. ASSUME NEW x \in 1 .. 2 * r PROVE even(r)[x] = array[x]
    <3> DEFINE q == x \div 2
    <3>1. x \in Nat /\ x \in Int /\ 2 \in Nat \ {0} /\ x <= n
      BY <1>1, <1>3
    <3>2. q \in Nat
      BY ONLY <3>1, DivNat
    <3>3. x % 2 \in 0 .. 2 - 1 /\ x = q * 2 + (x % 2)
      BY ONLY <3>1, DivIs
    <3> HIDE DEF q, n
    <3>4. CASE x % 2 = 1
      <4>1. x - 1 = q * 2 + 0 /\ 0 \in 0 .. 2 - 1 /\ q \in Int
        BY <3>1, <3>2, <3>3, <3>4
      <4> DEFINE y == x - 1
      <4>2. y = q * 2 + 0
        BY <4>1
      <4> HIDE DEF y
      <4>3. y \div 2 = q
        BY ONLY <3>1, <4>1, <4>2, DivOf
      <4>4. (x - 1) \div 2 = q
        BY <4>3 DEF y
      <4>5. even(r)[x] = a(2 * q)
        BY <3>4, <4>4
      <4>6. 2 * q < n /\ 2 * q + 1 = x
        BY <1>1, <3>1, <3>2, <3>3, <3>4
      <4> QED
        BY <4>5, <4>6
    <3>5. CASE x % 2 = 0
      <4>1. x - 2 = (q - 1) * 2 + 0 /\ 0 \in 0 .. 2 - 1 /\ q - 1 \in Int
        BY <3>1, <3>2, <3>3, <3>5
      <4> DEFINE y == x - 2  p == q - 1
      <4>2. y = p * 2 + 0 /\ p \in Int
        BY <4>1
      <4> HIDE DEF y, p
      <4>3. y \div 2 = p
        BY ONLY <3>1, <4>1, <4>2, DivOf
      <4>4. (x - 2) \div 2 = q - 1
        BY <4>3 DEF y, p
      <4>5. even(r)[x] = a(2 * (q - 1) + 1)
        BY <3>5, <4>4
      <4>6. 2 * (q - 1) + 1 < n /\ 2 * (q - 1) + 1 + 1 = x
        BY <1>1, <3>1, <3>2, <3>3, <3>5
      <4> QED
        BY <4>5, <4>6
    <3> QED
      BY <3>3, <3>4, <3>5
  <2>2. DOMAIN even(r) = 1 .. 2 * r /\ even(r) = [x \in 1 .. 2 * r |-> even(r)[x]]
    OBVIOUS
  <2>3. 2 * r \in Nat /\ \A x \in 1 .. 2 * r : array[x] \in Nat
    BY <1>1, <1>3
  <2> DEFINE v == even(r)
  <2>4. v \in [1 .. 2 * r -> Nat]
    <3> HIDE DEF v
    <3> QED
      BY <2>1, <2>2, <2>3 DEF v
  <2> HIDE DEF v
  <2>5. v \in Seq(Nat) /\ Len(v) = 2 * r
    BY <2>3, <2>4, SMTT(30)
  <2> QED
    BY <2>1, <2>5 DEF v
<1> DEFINE t == SubSeq(regs(r), 1, m)
<1>7. t \in Seq(Nat) /\ Len(t) = m /\ \A x \in 1 .. m : t[x] = array[2 * r + x]
  <2> DEFINE g == regs(r)
  <2>0. ASSUME NEW x \in 1 .. m
        PROVE  (x = 1 \/ x = 2 \/ x = 3) /\ 2 * r + (x - 1) < n /\ 2 * r + x \in 1 .. n /\ 2 * r + (x - 1) + 1 = 2 * r + x
    <3> HIDE DEF m, n
    <3> QED
      BY <1>1, <1>3, <1>5
  <2>1. ASSUME NEW x \in 1 .. m PROVE g[x] = array[2 * r + x]
    <3> HIDE DEF m, n
    <3>2. CASE x = 1
      <4>1. g[x] = a(2 * r) /\ 2 * r < n
        BY <1>3, <2>0, <3>2
      <4> QED
        BY <3>2, <4>1
    <3>3. CASE x = 2
      <4>1. g[x] = a(2 * r + 1) /\ 2 * r + 1 < n /\ 2 * r + 1 + 1 = 2 * r + 2
        BY <1>3, <2>0, <3>3
      <4> QED
        BY <3>3, <4>1
    <3>4. CASE x = 3
      <4>1. g[x] = a(2 * r + 2) /\ 2 * r + 2 < n /\ 2 * r + 2 + 1 = 2 * r + 3
        BY <1>3, <2>0, <3>4
      <4> QED
        BY <3>4, <4>1
    <3> QED
      BY <2>0, <3>2, <3>3, <3>4
  <2>2. \A x \in 1 .. m : g[x] \in Nat
    <3> HIDE DEF m, n, g
    <3> QED
      BY <1>1, <2>0, <2>1
  <2> HIDE DEF g, m
  <2>3. SubSeq(g, 1, m) \in Seq(Nat) /\ Len(SubSeq(g, 1, m)) = m /\ \A x \in 1 .. m : SubSeq(g, 1, m)[x] = g[x]
    <3>1. 1 \in Int /\ m \in Int /\ m >= 0
      BY <1>5
    <3>2. SubSeq(g, 1, m) \in Seq(Nat) /\ Len(SubSeq(g, 1, m)) = (IF 1 <= m THEN m - 1 + 1 ELSE 0)
          /\ \A x \in 1 .. m - 1 + 1 : SubSeq(g, 1, m)[x] = g[1 + x - 1]
      BY ONLY <2>2, <3>1, SubSeqProperties
    <3> QED
      BY <3>1, <3>2
  <2> QED
    BY <2>1, <2>3 DEF g
<1> DEFINE s == even(r)
<1> HIDE DEF t, s, m
<1>8. s \o t = array
  <2>0. s \in Seq(Nat) /\ Len(s) = 2 * r /\ (\A x \in 1 .. 2 * r : s[x] = array[x])
    BY <1>6 DEF s
  <2> HIDE DEF n
  <2>1. s \o t \in Seq(Nat) /\ Len(s \o t) = Len(s) + Len(t)
        /\ \A i \in 1 .. Len(s) + Len(t) : (s \o t)[i] = IF i <= Len(s) THEN s[i] ELSE t[i - Len(s)]
    BY ONLY <1>7, <2>0, ConcatProperties
  <2>2. Len(s) + Len(t) = n
    BY <1>1, <1>3, <1>5, <1>7, <2>0
  <2>3. ASSUME NEW i \in 1 .. n PROVE (s \o t)[i] = array[i]
    <3>0. i \in Int /\ 2 * r \in Int /\ (s \o t)[i] = IF i <= 2 * r THEN s[i] ELSE t[i - 2 * r]
      BY <1>1, <1>3, <2>0, <2>1, <2>2
    <3>1. CASE i <= 2 * r
      BY <1>1, <1>3, <2>0, <3>0, <3>1
    <3>2. CASE i > 2 * r
      <4>1. i - 2 * r \in 1 .. m /\ 2 * r + (i - 2 * r) = i /\ ~(i <= 2 * r)
        BY <1>1, <1>3, <1>5, <3>2
      <4> DEFINE y == i - 2 * r
      <4>2. t[y] = array[2 * r + y]
        BY <1>7, <4>1
      <4> QED
        BY <3>0, <4>1, <4>2
    <3> QED
      BY <3>0, <3>1, <3>2
  <2>4. Len(s \o t) = Len(array) /\ \A i \in 1 .. Len(s \o t) : (s \o t)[i] = array[i]
    BY <2>1, <2>2, <2>3 DEF n
  <2> QED
    BY <2>1, <2>4, SeqEqual
<1> QED
  BY <1>2, <1>4, <1>8 DEF t, s, m

\* s holds S in order
InOrder(s, S) ==
  /\ s \in Seq(S) /\ Len(s) = Cardinality(S)
  /\ \A i, j \in 1 .. Len(s) : i < j => s[i] < s[j]
  /\ \A x \in S : \E i \in 1 .. Len(s) : s[i] = x

LEMMA AscendingExists ==
  ASSUME NEW m \in Nat, NEW S \in SUBSET (1 .. m)
  PROVE  /\ IsFiniteSet(S) /\ Cardinality(S) \in Nat
         /\ \E s \in [1 .. Cardinality(S) -> S] : \A i, j \in DOMAIN s : i < j => s[i] < s[j]
<1> DEFINE Inc(s) == \A i, j \in DOMAIN s : i < j => s[i] < s[j]
           Has(X) == \E s \in [1 .. Cardinality(X) -> X] : Inc(s)
           T == {n \in Nat : \A X \in SUBSET (1 .. n) : Has(X)}
<1>1. ASSUME NEW n \in Nat, NEW X \in SUBSET (1 .. n) PROVE IsFiniteSet(X) /\ Cardinality(X) \in Nat
  <2>1. 1 \in Int /\ n \in Int
    OBVIOUS
  <2>2. IsFiniteSet(1 .. n)
    BY ONLY <2>1, FS_Interval
  <2> QED
    BY <2>2, FS_Subset, FS_CardinalityType
<1>2. 0 \in T
  <2>1. \A X \in SUBSET (1 .. 0) : X = {}
    OBVIOUS
  <2>2. Has({})
    <3>1. Cardinality({}) = 0
      BY FS_EmptySet
    <3>2. << >> \in [1 .. 0 -> {}] /\ Inc(<< >>)
      OBVIOUS
    <3> HIDE DEF Inc
    <3> QED
      BY <3>1, <3>2
  <2> HIDE DEF Has
  <2> QED
    BY <2>1, <2>2
<1>3. ASSUME NEW n \in Nat, n \in T PROVE n + 1 \in T
  <2> SUFFICES ASSUME NEW X \in SUBSET (1 .. n + 1) PROVE Has(X)
    <3> HIDE DEF Has
    <3> QED
      OBVIOUS
  <2>1. CASE n + 1 \notin X
    <3>1. X \in SUBSET (1 .. n)
      BY <2>1
    <3> HIDE DEF Has
    <3> QED
      BY <1>3, <3>1
  <2>2. CASE n + 1 \in X
    <3> DEFINE Y == X \ {n + 1}  c == Cardinality(Y)
    <3>1. Y \in SUBSET (1 .. n) /\ X = Y \cup {n + 1} /\ n + 1 \notin Y
      BY <2>2
    <3> HIDE DEF Y
    <3>2. IsFiniteSet(Y) /\ c \in Nat
      BY <1>1, <3>1
    <3>3. Cardinality(X) = c + 1
      BY <3>1, <3>2, FS_AddElement
    <3>4. PICK s \in [1 .. c -> Y] : Inc(s)
      BY <1>3, <3>1
    <3> DEFINE t == [i \in 1 .. c + 1 |-> IF i = c + 1 THEN n + 1 ELSE s[i]]
    <3>5. t \in [1 .. c + 1 -> X]
      BY <3>1, <3>2, <3>4
    <3>6. ASSUME NEW i \in 1 .. c + 1, NEW j \in 1 .. c + 1, i < j PROVE t[i] < t[j]
      <4>0. i \in 1 .. c /\ i # c + 1
        BY <3>2, <3>6
      <4>1. i \in 1 .. c /\ t[i] = s[i] /\ s[i] \in 1 .. n
        BY <3>1, <3>4, <4>0
      <4>2. CASE j = c + 1
        BY <4>1, <4>2
      <4>3. CASE j # c + 1
        <5>1. j \in 1 .. c /\ t[j] = s[j]
          BY <3>2, <4>3
        <5> QED
          BY <3>4, <3>6, <4>1, <5>1
      <4> QED
        BY <4>2, <4>3
    <3>7. Inc(t)
      BY <3>6
    <3> HIDE DEF t, Inc
    <3> QED
      BY <3>3, <3>5, <3>7
  <2> QED
    BY <2>1, <2>2
<1>4. Nat \subseteq T
  <2> HIDE DEF T
  <2> QED
    BY <1>2, <1>3, Induct
<1>5. Has(S)
  <2> HIDE DEF Has
  <2> QED
    BY <1>4
<1> QED
  BY <1>1, <1>5

LEMMA AscendingIs ==
  ASSUME NEW m \in Nat, NEW S \in SUBSET (1 .. m)
  PROVE  InOrder(Ascending(S), S)
<1> DEFINE c == Cardinality(S)  s == Ascending(S)
           Inc(t) == \A i, j \in DOMAIN t : i < j => t[i] < t[j]
<1>1. IsFiniteSet(S) /\ c \in Nat /\ \E t \in [1 .. c -> S] : Inc(t)
  BY AscendingExists
<1>2. s = CHOOSE t \in [1 .. c -> S] : Inc(t)
  BY DEF Ascending
<1>3. s \in [1 .. c -> S] /\ Inc(s)
  <2> HIDE DEF Inc, s, c
  <2> QED
    BY <1>1, <1>2
<1> HIDE DEF s
<1>4. s \in Seq(S) /\ Len(s) = c
  <2> HIDE DEF c, Inc
  <2> QED
    BY <1>1, <1>3
<1>5. DOMAIN s = 1 .. c
  BY <1>3
<1>6. \A i, j \in 1 .. c : s[i] = s[j] => i = j
  <2>1. ASSUME NEW i \in 1 .. c, NEW j \in 1 .. c, i < j PROVE s[i] # s[j]
    <3>1. s[i] < s[j] /\ s[i] \in 1 .. m /\ s[j] \in 1 .. m
      BY <1>3, <1>5, <2>1
    <3> QED
      BY <3>1
  <2>2. \A i, j \in 1 .. c : i < j \/ j < i \/ i = j
    BY <1>1
  <2> QED
    BY <2>1, <2>2
<1>7. s \in Surjection(1 .. c, S)
  <2>1. s \in Injection(1 .. c, S)
    BY <1>3, <1>6, Fun_IsInj
  <2>2. Cardinality(1 .. c) = c
    <3>1. 1 \in Int /\ c \in Int
      BY <1>1
    <3>2. Cardinality(1 .. c) = IF 1 > c THEN 0 ELSE c - 1 + 1
      BY ONLY <3>1, FS_Interval
    <3> QED
      BY <1>1, <3>2
  <2> QED
    BY <1>1, <2>1, <2>2, FS_Injection
<1>8. \A x \in S : \E i \in 1 .. c : s[i] = x
  BY <1>7 DEF Surjection
<1>9. InOrder(s, S)
  BY <1>3, <1>4, <1>5, <1>8 DEF InOrder
<1> QED
  BY <1>9 DEF s

-----------------------------------------------------------------------------
(* Where packets are.  A place is a queue, array or ring with its key; a    *)
(* packet moves from a place of one stage to one of the next.               *)

Places ==
  ({"nic"} \X Lists(nic_queues)) \cup {<<"burst", 0>>} \cup ({"rx", "rxring", "bulk"} \X Workers)
  \cup ({"wout"} \X (Ports \X Workers)) \cup ({"txring"} \X Pairs) \cup ({"tx", "sent"} \X Ports)

Stages == [nic |-> 1, burst |-> 2, rx |-> 3, rxring |-> 4, bulk |-> 5, wout |-> 6, txring |-> 7, tx |-> 8, sent |-> 9]

Stage(l) == Stages[l[1]]

Worker(id) == Packets[id].lb % n_workers

Queue(id) == RssQueue(Packets[id])

\* the places a packet bound for port route[id] may be in
Home(route, l, id) ==
  /\ l[1] = "nic" => l[2] = Queue(id)
  /\ l[1] \in {"rx", "rxring", "bulk"} => l[2] = Worker(id)
  /\ l[1] \in {"wout", "txring"} => l[2] = <<route[id], Worker(id)>>
  /\ l[1] \in {"tx", "sent"} => l[2] = route[id]

Flow(route, a, b) == Queue(a) = Queue(b) /\ Worker(a) = Worker(b) /\ route[a] = route[b]

\* c says what each place holds and f what was freed: each packet is in one
\* place, its own, or freed, and no packet of a flow is before an earlier one
Held(route, c, f) ==
  /\ c \in [Places -> Seq(Ids)] /\ f \subseteq Ids
  /\ \A l \in Places : \A i \in 1 .. Len(c[l]) : Home(route, l, c[l][i]) /\ c[l][i] \notin f
  /\ \A l, m \in Places : \A i \in 1 .. Len(c[l]), j \in 1 .. Len(c[m]) :
       Flow(route, c[l][i], c[m][j]) /\ c[l][i] <= c[m][j] => Stage(l) > Stage(m) \/ (l = m /\ i <= j)
  /\ \A id \in Ids \ f : \E l \in Places : \E i \in 1 .. Len(c[l]) : c[l][i] = id

\* of each place s of S the first n[s] packets are taken; k[s] of them go to
\* D[s] and the others are freed
Moved(c, f, c2, f2, S, D, n, k) ==
  /\ S \subseteq Places /\ D \in [S -> Places] /\ n \in [S -> Nat] /\ k \in [S -> Nat]
  /\ \A s \in S : D[s] \notin S /\ Stage(D[s]) = Stage(s) + 1 /\ k[s] <= n[s] /\ n[s] <= Len(c[s])
  /\ \A s, t \in S : D[s] = D[t] => s = t
  /\ \A s \in S : /\ c2[s] = SubSeq(c[s], n[s] + 1, Len(c[s]))
                  /\ c2[D[s]] = c[D[s]] \o SubSeq(c[s], 1, k[s])
  /\ \A l \in Places \ S : (\A s \in S : D[s] # l) => c2[l] = c[l]
  /\ f2 = f \cup UNION {Lists(SubSeq(c[s], k[s] + 1, n[s])) : s \in S}

LEMMA StageType == \A l \in Places : Stage(l) \in 1 .. 9
<1> SUFFICES ASSUME NEW l \in Places PROVE Stage(l) \in 1 .. 9
  OBVIOUS
<1>1. l[1] \in {"nic", "burst", "rx", "rxring", "bulk", "wout", "txring", "tx", "sent"}
  BY DEF Places
<1> QED
  BY <1>1 DEF Stage, Stages

\* a flow has one place of a stage
LEMMA HomeOne ==
  ASSUME NEW route, NEW l \in Places, NEW m \in Places, NEW a, NEW b,
         Home(route, l, a), Home(route, m, b), Flow(route, a, b), Stage(l) = Stage(m)
  PROVE  l = m
<1>1. l = <<l[1], l[2]>> /\ m = <<m[1], m[2]>>
      /\ l[1] \in {"nic", "burst", "rx", "rxring", "bulk", "wout", "txring", "tx", "sent"}
      /\ m[1] \in {"nic", "burst", "rx", "rxring", "bulk", "wout", "txring", "tx", "sent"}
  BY DEF Places
<1>2. l[1] = m[1]
  BY <1>1 DEF Stage, Stages
<1>3. l[1] = "burst" => l[2] = m[2]
  BY <1>2 DEF Places
<1>4. l[2] = m[2]
  BY <1>1, <1>2, <1>3 DEF Home, Flow
<1> QED
  BY <1>1, <1>2, <1>4

LEMMA Shorter ==
  ASSUME NEW T, NEW s \in Seq(T), NEW n \in 0 .. Len(s), NEW m \in n .. Len(s)
  PROVE  /\ SubSeq(s, n + 1, m) \in Seq(T) /\ Len(SubSeq(s, n + 1, m)) = m - n
         /\ \A i \in 1 .. m - n : SubSeq(s, n + 1, m)[i] = s[n + i]
<1>1. Len(s) \in Nat /\ \A i \in 1 .. Len(s) : s[i] \in T
  BY LenProperties, ElementOfSeq
<1>2. n + 1 \in Int /\ m \in Int /\ n \in Nat /\ n <= m /\ \A i \in n + 1 .. m : s[i] \in T
  BY <1>1
<1>3. /\ SubSeq(s, n + 1, m) \in Seq(T)
      /\ Len(SubSeq(s, n + 1, m)) = IF n + 1 <= m THEN m - (n + 1) + 1 ELSE 0
      /\ \A i \in 1 .. m - (n + 1) + 1 : SubSeq(s, n + 1, m)[i] = s[n + 1 + i - 1]
  BY ONLY <1>2, SubSeqProperties
<1>4. Len(SubSeq(s, n + 1, m)) = m - n
  BY <1>2, <1>3
<1>5. ASSUME NEW i \in 1 .. m - n PROVE SubSeq(s, n + 1, m)[i] = s[n + i]
  <2>1. i \in 1 .. m - (n + 1) + 1 /\ n + 1 + i - 1 = n + i
    BY <1>2
  <2> QED
    BY <1>3, <2>1
<1> QED
  BY <1>3, <1>4, <1>5

LEMMA Joined ==
  ASSUME NEW T, NEW s \in Seq(T), NEW t \in Seq(T), NEW k \in 0 .. Len(t)
  PROVE  /\ s \o SubSeq(t, 1, k) \in Seq(T) /\ Len(s \o SubSeq(t, 1, k)) = Len(s) + k
         /\ \A i \in 1 .. Len(s) + k : (s \o SubSeq(t, 1, k))[i] = IF i <= Len(s) THEN s[i] ELSE t[i - Len(s)]
<1> DEFINE u == SubSeq(t, 1, k)
<1>1. Len(s) \in Nat /\ Len(t) \in Nat /\ k \in Nat
  BY LenProperties
<1>2. u \in Seq(T) /\ Len(u) = k /\ \A i \in 1 .. k : u[i] = t[i]
  <2>1. 0 \in 0 .. Len(t) /\ k \in 0 .. Len(t) /\ 0 + 1 = 1 /\ k - 0 = k /\ \A i \in 1 .. k : 0 + i = i
    BY <1>1
  <2>2. SubSeq(t, 0 + 1, k) \in Seq(T) /\ Len(SubSeq(t, 0 + 1, k)) = k - 0
        /\ \A i \in 1 .. k - 0 : SubSeq(t, 0 + 1, k)[i] = t[0 + i]
    BY <2>1, Shorter
  <2> QED
    BY <2>1, <2>2
<1> HIDE DEF u
<1>3. /\ s \o u \in Seq(T) /\ Len(s \o u) = Len(s) + Len(u)
      /\ \A i \in 1 .. Len(s) + Len(u) : (s \o u)[i] = IF i <= Len(s) THEN s[i] ELSE u[i - Len(s)]
  BY <1>2, ConcatProperties
<1>4. ASSUME NEW i \in 1 .. Len(s) + k PROVE (s \o u)[i] = IF i <= Len(s) THEN s[i] ELSE t[i - Len(s)]
  <2>1. i > Len(s) => i - Len(s) \in 1 .. k
    BY <1>1
  <2> QED
    BY <1>1, <1>2, <1>3, <2>1
<1> QED
  BY <1>2, <1>3, <1>4 DEF u

LEMMA ShorterLists ==
  ASSUME NEW T, NEW s \in Seq(T), NEW a \in 0 .. Len(s), NEW b \in a .. Len(s)
  PROVE  \A x : x \in Lists(SubSeq(s, a + 1, b)) <=> \E i \in a + 1 .. b : s[i] = x
<1> SUFFICES ASSUME NEW x PROVE x \in Lists(SubSeq(s, a + 1, b)) <=> \E i \in a + 1 .. b : s[i] = x
  OBVIOUS
<1> DEFINE t == SubSeq(s, a + 1, b)
<1>1. Len(s) \in Nat /\ a \in Nat /\ b \in Nat
  BY LenProperties
<1>2. t \in Seq(T) /\ Len(t) = b - a /\ \A i \in 1 .. b - a : t[i] = s[a + i]
  BY Shorter
<1> HIDE DEF t
<1>3. x \in Lists(t) <=> \E i \in 1 .. Len(t) : t[i] = x
  BY <1>2, ListsIs
<1>4. ASSUME NEW i \in a + 1 .. b, s[i] = x PROVE \E j \in 1 .. Len(t) : t[j] = x
  <2>1. i - a \in 1 .. b - a /\ a + (i - a) = i
    BY <1>1
  <2>2. t[i - a] = s[a + (i - a)]
    BY <1>2, <2>1
  <2> QED
    BY <1>2, <1>4, <2>1, <2>2
<1>5. ASSUME NEW j \in 1 .. Len(t), t[j] = x PROVE \E i \in a + 1 .. b : s[i] = x
  <2>1. a + j \in a + 1 .. b
    BY <1>1, <1>2
  <2> QED
    BY <1>2, <1>5, <2>1
<1> QED
  BY <1>3, <1>4, <1>5 DEF t

LEMMA MovedType ==
  ASSUME NEW c \in [Places -> Seq(Ids)], NEW f, NEW c2, NEW f2, NEW S, NEW D, NEW n, NEW k,
         Moved(c, f, c2, f2, S, D, n, k), NEW s \in S
  PROVE  /\ s \in Places /\ D[s] \in Places /\ c[s] \in Seq(Ids) /\ c[D[s]] \in Seq(Ids)
         /\ k[s] \in Nat /\ n[s] \in Nat /\ Len(c[s]) \in Nat /\ Len(c[D[s]]) \in Nat
         /\ k[s] \in 0 .. Len(c[s]) /\ n[s] \in 0 .. Len(c[s]) /\ Len(c[s]) \in n[s] .. Len(c[s])
         /\ n[s] \in k[s] .. Len(c[s])
<1>1. S \subseteq Places /\ D \in [S -> Places] /\ n \in [S -> Nat] /\ k \in [S -> Nat]
      /\ k[s] <= n[s] /\ n[s] <= Len(c[s])
  BY DEF Moved
<1>2. s \in Places /\ D[s] \in Places /\ c[s] \in Seq(Ids) /\ c[D[s]] \in Seq(Ids) /\ n[s] \in Nat /\ k[s] \in Nat
  BY <1>1
<1>3. Len(c[s]) \in Nat /\ Len(c[D[s]]) \in Nat
  BY <1>2, LenProperties
<1> QED
  BY <1>1, <1>2, <1>3

LEMMA MovedParts ==
  ASSUME NEW c \in [Places -> Seq(Ids)], NEW f, NEW c2, NEW f2, NEW S, NEW D, NEW n, NEW k,
         Moved(c, f, c2, f2, S, D, n, k)
  PROVE  /\ \A l \in Places : c2[l] \in Seq(Ids)
         /\ \A s \in S : /\ Len(c2[s]) = Len(c[s]) - n[s]
                         /\ \A i \in 1 .. Len(c2[s]) : c2[s][i] = c[s][n[s] + i]
         /\ \A s \in S : /\ Len(c2[D[s]]) = Len(c[D[s]]) + k[s]
                         /\ \A i \in 1 .. Len(c2[D[s]]) :
                              c2[D[s]][i] = IF i <= Len(c[D[s]]) THEN c[D[s]][i] ELSE c[s][i - Len(c[D[s]])]
         /\ \A id : id \in f2 <=> id \in f \/ \E s \in S : \E i \in k[s] + 1 .. n[s] : c[s][i] = id
<1>1. ASSUME NEW s \in S
      PROVE  /\ c2[s] \in Seq(Ids) /\ Len(c2[s]) = Len(c[s]) - n[s]
             /\ \A i \in 1 .. Len(c2[s]) : c2[s][i] = c[s][n[s] + i]
  <2> DEFINE t == c[s]  a == n[s]
  <2>1. t \in Seq(Ids) /\ a \in 0 .. Len(t) /\ Len(t) \in a .. Len(t)
    BY MovedType
  <2>2. c2[s] = SubSeq(t, a + 1, Len(t))
    BY DEF Moved
  <2> HIDE DEF t, a
  <2>3. SubSeq(t, a + 1, Len(t)) \in Seq(Ids) /\ Len(SubSeq(t, a + 1, Len(t))) = Len(t) - a
        /\ \A i \in 1 .. Len(t) - a : SubSeq(t, a + 1, Len(t))[i] = t[a + i]
    BY <2>1, Shorter
  <2> QED
    BY <2>2, <2>3 DEF t, a
<1>2. ASSUME NEW s \in S
      PROVE  /\ c2[D[s]] \in Seq(Ids) /\ Len(c2[D[s]]) = Len(c[D[s]]) + k[s]
             /\ \A i \in 1 .. Len(c2[D[s]]) :
                  c2[D[s]][i] = IF i <= Len(c[D[s]]) THEN c[D[s]][i] ELSE c[s][i - Len(c[D[s]])]
  <2> DEFINE t == c[s]  u == c[D[s]]  a == k[s]
  <2>1. t \in Seq(Ids) /\ u \in Seq(Ids) /\ a \in 0 .. Len(t)
    BY MovedType
  <2>2. c2[D[s]] = u \o SubSeq(t, 1, a)
    BY DEF Moved
  <2> HIDE DEF t, u, a
  <2>3. u \o SubSeq(t, 1, a) \in Seq(Ids) /\ Len(u \o SubSeq(t, 1, a)) = Len(u) + a
        /\ \A i \in 1 .. Len(u) + a : (u \o SubSeq(t, 1, a))[i] = IF i <= Len(u) THEN u[i] ELSE t[i - Len(u)]
    BY <2>1, Joined
  <2> QED
    BY <2>2, <2>3 DEF t, u, a
<1>3. ASSUME NEW l \in Places PROVE c2[l] \in Seq(Ids)
  <2>1. CASE l \in S
    BY <1>1, <2>1
  <2>2. CASE \E s \in S : D[s] = l
    BY <1>2, <2>2
  <2>3. CASE l \notin S /\ \A s \in S : D[s] # l
    BY <2>3 DEF Moved
  <2> QED
    BY <2>1, <2>2, <2>3
<1>4. ASSUME NEW s \in S, NEW id
      PROVE  id \in Lists(SubSeq(c[s], k[s] + 1, n[s])) <=> \E i \in k[s] + 1 .. n[s] : c[s][i] = id
  <2> DEFINE t == c[s]  a == k[s]  b == n[s]
  <2>1. t \in Seq(Ids) /\ a \in 0 .. Len(t) /\ b \in a .. Len(t)
    BY MovedType
  <2> HIDE DEF t, a, b
  <2>2. id \in Lists(SubSeq(t, a + 1, b)) <=> \E i \in a + 1 .. b : t[i] = id
    BY <2>1, ShorterLists
  <2> QED
    BY <2>2 DEF t, a, b
<1>5. ASSUME NEW id PROVE id \in f2 <=> id \in f \/ \E s \in S : \E i \in k[s] + 1 .. n[s] : c[s][i] = id
  <2>1. f2 = f \cup UNION {Lists(SubSeq(c[s], k[s] + 1, n[s])) : s \in S}
    BY DEF Moved
  <2>2. id \in f2 <=> id \in f \/ \E s \in S : id \in Lists(SubSeq(c[s], k[s] + 1, n[s]))
    BY <2>1
  <2> QED
    BY <1>4, <2>2
<1> QED
  BY <1>1, <1>2, <1>3, <1>5

\* each packet of the new places stayed where it was or moved
Stayed(S, n, l, i, j) == j = IF l \in S THEN n[l] + i ELSE i

Came(c, S, D, k, l, i, m, j) == m \in S /\ l = D[m] /\ j <= k[m] /\ i = Len(c[l]) + j

LEMMA Origin ==
  ASSUME NEW c \in [Places -> Seq(Ids)], NEW f, NEW c2, NEW f2, NEW S, NEW D, NEW n, NEW k,
         Moved(c, f, c2, f2, S, D, n, k), NEW l \in Places, NEW i \in 1 .. Len(c2[l])
  PROVE  \E m \in Places : \E j \in 1 .. Len(c[m]) :
           /\ c2[l][i] = c[m][j]
           /\ (m = l /\ Stayed(S, n, l, i, j)) \/ Came(c, S, D, k, l, i, m, j)
<1>1. CASE l \in S
  <2>1. Len(c2[l]) = Len(c[l]) - n[l] /\ c2[l][i] = c[l][n[l] + i]
    BY <1>1, MovedParts
  <2>2. n[l] + i \in 1 .. Len(c[l])
    BY <1>1, <2>1, MovedType
  <2> QED
    BY <1>1, <2>1, <2>2 DEF Stayed
<1>2. CASE l \notin S /\ \E s \in S : D[s] = l
  <2>1. PICK s \in S : D[s] = l
    BY <1>2
  <2>2. Len(c2[l]) = Len(c[l]) + k[s]
        /\ c2[l][i] = IF i <= Len(c[l]) THEN c[l][i] ELSE c[s][i - Len(c[l])]
    BY <2>1, MovedParts
  <2>3. Len(c[l]) \in Nat /\ k[s] \in Nat /\ k[s] <= Len(c[s]) /\ Len(c[s]) \in Nat /\ s \in Places
    <3>1. Len(c[D[s]]) \in Nat /\ k[s] \in 0 .. Len(c[s]) /\ Len(c[s]) \in Nat /\ s \in Places
      BY MovedType
    <3> QED
      BY <2>1, <3>1
  <2>4. CASE i <= Len(c[l])
    <3>1. i \in 1 .. Len(c[l]) /\ c2[l][i] = c[l][i]
      BY <2>2, <2>3, <2>4
    <3> QED
      BY <1>2, <3>1 DEF Stayed
  <2>5. CASE i > Len(c[l])
    <3>1. i - Len(c[l]) \in 1 .. Len(c[s]) /\ i - Len(c[l]) <= k[s] /\ i = Len(c[l]) + (i - Len(c[l]))
          /\ c2[l][i] = c[s][i - Len(c[l])]
      BY <2>2, <2>3, <2>5
    <3> QED
      BY <2>1, <2>3, <3>1 DEF Came
  <2> QED
    BY <2>3, <2>4, <2>5
<1>3. CASE l \notin S /\ ~\E s \in S : D[s] = l
  <2>1. c2[l] = c[l]
    BY <1>3 DEF Moved
  <2> QED
    BY <1>3, <2>1 DEF Stayed
<1> QED
  BY <1>1, <1>2, <1>3

LEMMA HeldIs ==
  ASSUME NEW route, NEW c, NEW f, Held(route, c, f), NEW l \in Places, NEW m \in Places,
         NEW i \in 1 .. Len(c[l]), NEW j \in 1 .. Len(c[m])
  PROVE  /\ Len(c[l]) \in Nat /\ Len(c[m]) \in Nat /\ c[l][i] \in Ids /\ c[m][j] \in Ids /\ c[l][i] \in Nat /\ c[m][j] \in Nat
         /\ Home(route, l, c[l][i]) /\ Home(route, m, c[m][j]) /\ c[l][i] \notin f
         /\ Flow(route, c[l][i], c[m][j]) /\ c[l][i] <= c[m][j] => Stage(l) > Stage(m) \/ (l = m /\ i <= j)
         /\ c[l][i] = c[m][j] => l = m /\ i = j
<1>1. /\ Len(c[l]) \in Nat /\ Len(c[m]) \in Nat /\ c[l][i] \in Ids /\ c[m][j] \in Ids
  <2>1. c[l] \in Seq(Ids) /\ c[m] \in Seq(Ids)
    BY DEF Held
  <2> QED
    BY <2>1, LenProperties, ElementOfSeq
<1>2. c[l][i] \in Nat /\ c[m][j] \in Nat
  BY <1>1 DEF Ids
<1>3. /\ Home(route, l, c[l][i]) /\ Home(route, m, c[m][j]) /\ c[l][i] \notin f
      /\ Flow(route, c[l][i], c[m][j]) /\ c[l][i] <= c[m][j] => Stage(l) > Stage(m) \/ (l = m /\ i <= j)
      /\ Flow(route, c[m][j], c[l][i]) /\ c[m][j] <= c[l][i] => Stage(m) > Stage(l) \/ (m = l /\ j <= i)
  BY DEF Held
<1>4. ASSUME c[l][i] = c[m][j] PROVE l = m /\ i = j
  <2>1. Flow(route, c[l][i], c[m][j]) /\ Flow(route, c[m][j], c[l][i]) /\ c[l][i] <= c[m][j] /\ c[m][j] <= c[l][i]
    BY <1>2, <1>4 DEF Flow
  <2>2. Stage(l) \in Int /\ Stage(m) \in Int
    BY StageType
  <2> QED
    BY <1>1, <1>3, <2>1, <2>2
<1> QED
  BY <1>1, <1>2, <1>3, <1>4

(* A move keeps packets held.                                               *)
LEMMA Move ==
  ASSUME NEW route, NEW c, NEW f, NEW c2, NEW f2, NEW S, NEW D, NEW n, NEW k,
         Held(route, c, f), Moved(c, f, c2, f2, S, D, n, k),
         \A s \in S : \A i \in 1 .. k[s] : Home(route, D[s], c[s][i])
  PROVE  (\A l \in Places : c2[l] \in Seq(Ids)) /\ (c2 \in [Places -> Seq(Ids)] => Held(route, c2, f2))
<1>1. c \in [Places -> Seq(Ids)] /\ f \subseteq Ids
  BY DEF Held
<1>2. \A l \in Places : c2[l] \in Seq(Ids)
  BY <1>1, MovedParts
<1>3. ASSUME NEW l \in Places, NEW i \in 1 .. Len(c2[l]) PROVE Home(route, l, c2[l][i]) /\ c2[l][i] \notin f2
  <2>10. PICK m \in Places :
             \E j \in 1 .. Len(c[m]) :
               /\ c2[l][i] = c[m][j]
               /\ (m = l /\ Stayed(S, n, l, i, j)) \/ Came(c, S, D, k, l, i, m, j)
    BY <1>1, Origin
  <2>1. PICK j \in 1 .. Len(c[m]) :
             /\ c2[l][i] = c[m][j]
             /\ (m = l /\ Stayed(S, n, l, i, j)) \/ Came(c, S, D, k, l, i, m, j)
    BY <2>10
  <2>2. Home(route, l, c2[l][i])
    <3>1. CASE m = l
      BY <2>1, <3>1, HeldIs
    <3>2. CASE Came(c, S, D, k, l, i, m, j)
      <4>1. m \in S /\ l = D[m] /\ j <= k[m] /\ k[m] \in Nat
        BY <1>1, <3>2, MovedType DEF Came
      <4>2. j \in 1 .. k[m]
        BY <4>1
      <4> QED
        BY <2>1, <4>1, <4>2
    <3> QED
      BY <2>1, <3>1, <3>2
  <2>3. c[m][j] \notin f
    BY <2>1, HeldIs
  <2>4. ASSUME NEW s \in S, NEW h \in k[s] + 1 .. n[s], c[s][h] = c[m][j] PROVE FALSE
    <3>1. s \in Places /\ k[s] \in Nat /\ n[s] \in Nat /\ n[s] <= Len(c[s]) /\ Len(c[s]) \in Nat
      BY <1>1, MovedType
    <3>2. h \in 1 .. Len(c[s])
      BY <3>1
    <3>3. s = m /\ h = j
      BY <2>4, <3>1, <3>2, HeldIs
    <3>4. CASE m = l /\ Stayed(S, n, l, i, j)
      <4>1. j = n[s] + i /\ i \in Nat \ {0}
        BY <3>3, <3>4 DEF Stayed
      <4> QED
        BY <3>1, <3>3, <4>1
    <3>5. CASE Came(c, S, D, k, l, i, m, j)
      <4>1. j <= k[s]
        BY <3>3, <3>5 DEF Came
      <4> QED
        BY <3>1, <3>3, <4>1
    <3> QED
      BY <2>1, <3>4, <3>5
  <2>5. c[m][j] \notin f2
    <3> DEFINE id == c[m][j]
    <3>1. id \notin f /\ ~\E s \in S : \E h \in k[s] + 1 .. n[s] : c[s][h] = id
      BY <2>3, <2>4
    <3> HIDE DEF id
    <3>2. id \in f2 => id \in f \/ \E s \in S : \E h \in k[s] + 1 .. n[s] : c[s][h] = id
      BY <1>1, MovedParts, SMTT(30)
    <3> QED
      BY <3>1, <3>2 DEF id
  <2> QED
    BY <2>1, <2>2, <2>5
<1>4. ASSUME NEW l \in Places, NEW m \in Places, NEW i \in 1 .. Len(c2[l]), NEW j \in 1 .. Len(c2[m]),
             Flow(route, c2[l][i], c2[m][j]), c2[l][i] <= c2[m][j]
      PROVE  Stage(l) > Stage(m) \/ (l = m /\ i <= j)
  <2>10. PICK l0 \in Places :
             \E i0 \in 1 .. Len(c[l0]) :
               /\ c2[l][i] = c[l0][i0]
               /\ (l0 = l /\ Stayed(S, n, l, i, i0)) \/ Came(c, S, D, k, l, i, l0, i0)
    BY <1>1, Origin, SMTT(30)
  <2>1. PICK i0 \in 1 .. Len(c[l0]) :
             /\ c2[l][i] = c[l0][i0]
             /\ (l0 = l /\ Stayed(S, n, l, i, i0)) \/ Came(c, S, D, k, l, i, l0, i0)
    BY <2>10
  <2>20. PICK m0 \in Places :
             \E j0 \in 1 .. Len(c[m0]) :
               /\ c2[m][j] = c[m0][j0]
               /\ (m0 = m /\ Stayed(S, n, m, j, j0)) \/ Came(c, S, D, k, m, j, m0, j0)
    BY <1>1, Origin
  <2>2. PICK j0 \in 1 .. Len(c[m0]) :
             /\ c2[m][j] = c[m0][j0]
             /\ (m0 = m /\ Stayed(S, n, m, j, j0)) \/ Came(c, S, D, k, m, j, m0, j0)
    BY <2>20
  <2>3. Stage(l0) > Stage(m0) \/ (l0 = m0 /\ i0 <= j0)
    BY <1>4, <2>1, <2>2, HeldIs
  <2>4. Stage(l) \in Int /\ Stage(m) \in Int /\ Stage(l0) \in Int /\ Stage(m0) \in Int /\ i \in Int /\ j \in Int /\ i0 \in Int /\ j0 \in Int
    <3>1. \A p \in Places : Stage(p) \in Int
      BY StageType
    <3> QED
      BY <3>1
  <2>5. Home(route, l, c2[l][i]) /\ Home(route, m, c2[m][j])
    BY <1>3
  <2>6. CASE l0 = l /\ Stayed(S, n, l, i, i0) /\ m0 = m /\ Stayed(S, n, m, j, j0)
    <3>1. CASE l = m /\ i0 <= j0
      <4>1. CASE l \in S
        <5>1. i0 = n[l] + i /\ j0 = n[l] + j /\ n[l] \in Nat
          BY <1>1, <2>6, <3>1, <4>1, MovedType DEF Stayed
        <5> QED
          BY <2>4, <3>1, <5>1
      <4>2. CASE l \notin S
        BY <2>6, <3>1, <4>2 DEF Stayed
      <4> QED
        BY <4>1, <4>2
    <3> QED
      BY <2>3, <2>6, <3>1
  <2>7. CASE Came(c, S, D, k, l, i, l0, i0) /\ m0 = m /\ Stayed(S, n, m, j, j0)
    <3>1. Stage(l) = Stage(l0) + 1
      BY <2>7 DEF Came, Moved
    <3> QED
      BY <2>3, <2>4, <2>7, <3>1
  <2>8. CASE l0 = l /\ Stayed(S, n, l, i, i0) /\ Came(c, S, D, k, m, j, m0, j0)
    <3>1. m0 \in S /\ m = D[m0] /\ j0 <= k[m0] /\ j = Len(c[m]) + j0 /\ Stage(m) = Stage(m0) + 1 /\ m \notin S
          /\ Len(c[m]) \in Nat /\ k[m0] \in Nat /\ n[m0] \in Nat /\ k[m0] <= n[m0]
      <4>1. m0 \in S /\ m = D[m0] /\ j0 <= k[m0] /\ j = Len(c[m]) + j0
        BY <2>8 DEF Came
      <4>2. Stage(D[m0]) = Stage(m0) + 1 /\ D[m0] \notin S /\ k[m0] <= n[m0]
        BY <4>1 DEF Moved
      <4>3. Len(c[D[m0]]) \in Nat /\ k[m0] \in Nat /\ n[m0] \in Nat
        BY <1>1, <4>1, MovedType
      <4> QED
        BY <4>1, <4>2, <4>3
    <3>2. CASE Stage(l) > Stage(m0)
      <4>1. CASE Stage(l) = Stage(m)
        <5>1. l = m
          BY <1>4, <2>5, <4>1, HomeOne
        <5>2. i = i0 /\ i0 <= Len(c[m])
          BY <2>4, <2>8, <3>1, <5>1 DEF Stayed
        <5> QED
          BY <2>4, <3>1, <5>1, <5>2
      <4> QED
        BY <2>4, <3>1, <3>2, <4>1
    <3>3. CASE l = m0 /\ i0 <= j0
      <4>1. i0 = n[l] + i /\ i >= 1
        BY <2>8, <3>1, <3>3 DEF Stayed
      <4> QED
        BY <2>4, <3>1, <3>3, <4>1
    <3> QED
      BY <2>3, <2>8, <3>2, <3>3
  <2>9. CASE Came(c, S, D, k, l, i, l0, i0) /\ Came(c, S, D, k, m, j, m0, j0)
    <3>1. l0 \in S /\ l = D[l0] /\ m0 \in S /\ m = D[m0] /\ i = Len(c[l]) + i0 /\ j = Len(c[m]) + j0
          /\ Stage(l) = Stage(l0) + 1 /\ Stage(m) = Stage(m0) + 1 /\ Len(c[l]) \in Nat
      <4>1. l0 \in S /\ l = D[l0] /\ m0 \in S /\ m = D[m0] /\ i = Len(c[l]) + i0 /\ j = Len(c[m]) + j0
        BY <2>9 DEF Came
      <4>2. Stage(D[m0]) = Stage(m0) + 1 /\ Stage(D[l0]) = Stage(l0) + 1
        BY <4>1 DEF Moved
      <4>3. Len(c[D[l0]]) \in Nat
        BY <1>1, <4>1, MovedType
      <4> QED
        BY <4>1, <4>2, <4>3
    <3> QED
      BY <2>3, <2>4, <3>1
  <2> QED
    BY <2>1, <2>2, <2>6, <2>7, <2>8, <2>9
<1>5. ASSUME NEW id \in Ids \ f2 PROVE \E l \in Places : \E i \in 1 .. Len(c2[l]) : c2[l][i] = id
  <2>1. id \notin f /\ \A s \in S : \A i \in k[s] + 1 .. n[s] : c[s][i] # id
    BY <1>1, <1>5, MovedParts
  <2>20. PICK l \in Places : \E i \in 1 .. Len(c[l]) : c[l][i] = id
    BY <2>1 DEF Held
  <2>2. PICK i \in 1 .. Len(c[l]) : c[l][i] = id
    BY <2>20
  <2>3. CASE l \in S
    <3>1. k[l] \in Nat /\ n[l] \in Nat /\ n[l] <= Len(c[l]) /\ k[l] <= n[l] /\ Len(c[l]) \in Nat /\ Len(c[D[l]]) \in Nat /\ D[l] \in Places
      <4>1. k[l] <= n[l]
        BY <2>3 DEF Moved
      <4> QED
        BY <1>1, <2>3, <4>1, MovedType
    <3>2. CASE i <= k[l]
      <4> DEFINE h == Len(c[D[l]]) + i
      <4>1. Len(c2[D[l]]) = Len(c[D[l]]) + k[l]
        BY <1>1, <2>3, MovedParts
      <4>2. h \in 1 .. Len(c2[D[l]]) /\ ~(h <= Len(c[D[l]])) /\ h - Len(c[D[l]]) = i
        BY <3>1, <3>2, <4>1
      <4> HIDE DEF h
      <4>3. c2[D[l]][h] = c[l][i]
        BY <1>1, <2>3, <4>2, MovedParts
      <4> QED
        BY <2>2, <3>1, <4>2, <4>3
    <3>3. CASE i > n[l]
      <4> DEFINE h == i - n[l]
      <4>1. Len(c2[l]) = Len(c[l]) - n[l]
        BY <1>1, <2>3, MovedParts
      <4>2. h \in 1 .. Len(c2[l]) /\ n[l] + h = i
        BY <3>1, <3>3, <4>1
      <4> HIDE DEF h
      <4>3. c2[l][h] = c[l][i]
        BY <1>1, <2>3, <4>2, MovedParts
      <4> QED
        BY <2>2, <4>2, <4>3
    <3>4. CASE k[l] < i /\ i <= n[l]
      <4>1. i \in k[l] + 1 .. n[l]
        BY <3>1, <3>4
      <4> QED
        BY <2>1, <2>2, <2>3, <4>1
    <3> QED
      BY <3>1, <3>2, <3>3, <3>4
  <2>4. CASE l \notin S /\ \E s \in S : D[s] = l
    <3>1. PICK s \in S : D[s] = l
      BY <2>4
    <3>2. Len(c2[D[s]]) = Len(c[D[s]]) + k[s] /\ k[s] \in Nat /\ Len(c[D[s]]) \in Nat
      BY <1>1, MovedParts, MovedType
    <3>3. i \in 1 .. Len(c2[D[s]]) /\ i <= Len(c[D[s]])
      BY <3>1, <3>2
    <3>4. c2[D[s]][i] = c[D[s]][i]
      BY <1>1, <3>3, MovedParts
    <3> QED
      BY <2>2, <3>1, <3>3, <3>4
  <2>5. CASE l \notin S /\ ~\E s \in S : D[s] = l
    <3>1. c2[l] = c[l]
      BY <2>5 DEF Moved
    <3> QED
      BY <2>2, <3>1
  <2> QED
    BY <2>3, <2>4, <2>5
<1>6. f2 \subseteq Ids
  <2>1. ASSUME NEW s \in S, NEW i \in k[s] + 1 .. n[s] PROVE c[s][i] \in Ids
    <3>1. s \in Places /\ k[s] \in Nat /\ n[s] \in Nat /\ n[s] <= Len(c[s]) /\ Len(c[s]) \in Nat
      BY <1>1, MovedType
    <3>2. i \in 1 .. Len(c[s])
      BY <3>1
    <3> QED
      BY <3>1, <3>2, HeldIs
  <2> QED
    BY <1>1, <2>1, MovedParts
<1>7. ASSUME c2 \in [Places -> Seq(Ids)] PROVE Held(route, c2, f2)
  BY <1>3, <1>4, <1>5, <1>6, <1>7 DEF Held
<1> QED
  BY <1>2, <1>7

One(c, s, d, n, k) ==
  [l \in Places |-> IF l = s THEN SubSeq(c[s], n + 1, Len(c[s]))
                    ELSE IF l = d THEN c[d] \o SubSeq(c[s], 1, k) ELSE c[l]]

LEMMA MoveOne ==
  ASSUME NEW route, NEW c, NEW f, NEW s \in Places, NEW d \in Places,
         Held(route, c, f), Stage(d) = Stage(s) + 1, NEW n \in 0 .. Len(c[s]), NEW k \in 0 .. n,
         \A i \in 1 .. k : Home(route, d, c[s][i])
  PROVE  Held(route, One(c, s, d, n, k), f \cup Lists(SubSeq(c[s], k + 1, n)))
<1> DEFINE S == {s}  D == [x \in S |-> d]  N == [x \in S |-> n]  K == [x \in S |-> k]
           c2 == One(c, s, d, n, k)  f2 == f \cup Lists(SubSeq(c[s], k + 1, n))
<1>1. c \in [Places -> Seq(Ids)] /\ Len(c[s]) \in Nat
  <2>1. c \in [Places -> Seq(Ids)] /\ c[s] \in Seq(Ids)
    BY DEF Held
  <2> QED
    BY <2>1, LenProperties
<1>2. n \in Nat /\ k \in Nat /\ k <= n /\ n <= Len(c[s])
  BY <1>1
<1>3. d # s
  <2>1. Stage(s) \in Int
    BY StageType
  <2> QED
    BY <2>1
<1>4. /\ c2[s] = SubSeq(c[s], n + 1, Len(c[s])) /\ c2[d] = c[d] \o SubSeq(c[s], 1, k)
      /\ \A l \in Places : l # s /\ l # d => c2[l] = c[l]
  BY <1>3 DEF One
<1>5. c2 = [l \in Places |-> c2[l]]
  BY DEF One
<1> HIDE DEF c2
<1>6. f2 = f \cup UNION {Lists(SubSeq(c[x], K[x] + 1, N[x])) : x \in S}
  OBVIOUS
<1> HIDE DEF f2
<1>7. Moved(c, f, c2, f2, S, D, N, K)
  <2>1. S \subseteq Places /\ D \in [S -> Places] /\ N \in [S -> Nat] /\ K \in [S -> Nat]
    BY <1>2
  <2>2. \A x \in S : D[x] \notin S /\ Stage(D[x]) = Stage(x) + 1 /\ K[x] <= N[x] /\ N[x] <= Len(c[x])
    BY <1>2, <1>3
  <2>3. \A x, y \in S : D[x] = D[y] => x = y
    OBVIOUS
  <2>4. \A x \in S : /\ c2[x] = SubSeq(c[x], N[x] + 1, Len(c[x]))
                     /\ c2[D[x]] = c[D[x]] \o SubSeq(c[x], 1, K[x])
    BY <1>4
  <2>5. \A l \in Places \ S : (\A x \in S : D[x] # l) => c2[l] = c[l]
    BY <1>4
  <2> HIDE DEF S, D, N, K
  <2> QED
    BY <1>6, <2>1, <2>2, <2>3, <2>4, <2>5 DEF Moved
<1>8. \A x \in S : \A i \in 1 .. K[x] : Home(route, D[x], c[x][i])
  OBVIOUS
<1> HIDE DEF S, D, N, K
<1>9. (\A l \in Places : c2[l] \in Seq(Ids)) /\ (c2 \in [Places -> Seq(Ids)] => Held(route, c2, f2))
  BY <1>7, <1>8, Move
<1>10. c2 \in [Places -> Seq(Ids)]
  BY <1>5, <1>9
<1> QED
  BY <1>9, <1>10 DEF c2, f2

-----------------------------------------------------------------------------
(* The inductive invariant.                                                 *)

\* of <<nic, io.burst, rx_out, rx_ring, wk, w_out, tx_ring, tx_out, sent>>
ContentOf(x) ==
  [l \in Places |->
     CASE l[1] = "nic" -> x[1][l[2]]
       [] l[1] = "burst" -> x[2]
       [] l[1] = "rx" -> x[3][l[2]].array
       [] l[1] = "rxring" -> x[4][l[2]]
       [] l[1] = "bulk" -> x[5][l[2]].bulk
       [] l[1] = "wout" -> x[6][l[2]].array
       [] l[1] = "txring" -> x[7][l[2]]
       [] l[1] = "tx" -> x[8][l[2]].array
       [] OTHER -> x[9][l[2]]]

Content == ContentOf(<<nic, io.burst, rx_out, rx_ring, wk, w_out, tx_ring, tx_out, sent>>)

Arrivals(q) == Ascending({i \in Ids : Queue(i) = q})

\* before the lcores run every packet is still to come
Unreceived == [l \in Places |-> IF l[1] = "nic" THEN Arrivals(l[2]) ELSE << >>]

\* the port of the deepest rule, or the packet's own
GoalBy(rs, id) ==
  LET best == Best(rs, Packets[id].ip, 0 .. IpBits)
  IN  IF best = 0 THEN Packets[id].port ELSE rs[best].if_out

Goals == [id \in Ids |-> GoalBy(rules, id)]

Outs == [array : Seq(Ids), flush : {0, 1}]

TypeOK ==
  /\ phase \in {"init", "ready", "run", "fail"} /\ rules \in Seq(RuleSet)
  /\ nic \in [Lists(nic_queues) -> Seq(Ids)]
  /\ io \in [pc : {"rx", "tx"}, i : Nat, k : Nat \ {0}, burst : Seq(Ids)]
  /\ wk \in [Workers -> [i : Nat, bulk : Seq(Ids)]]
  /\ rx_out \in [Workers -> Outs] /\ w_out \in [Ports \X Workers -> Outs] /\ tx_out \in [Ports -> Outs]
  /\ rx_ring \in [Workers -> Seq(Ids)] /\ tx_ring \in [Pairs -> Seq(Ids)]
  /\ sent \in [Ports -> Seq(Ids)]

Turn == io.pc = "tx" => io.k <= Len(nic_ports) * n_workers

Tables ==
  phase \in {"ready", "run"} =>
    lpm = rte_lpm(rules) /\ app_check_lpm_table /\ app_check_every_rx_port_is_tx_enabled

Start == phase # "run" => Content = Unreceived /\ freed = {}

LBInv == TypeOK /\ Turn /\ Tables /\ Start /\ Held(Goals, Content, freed)

LEMMA Consts ==
  /\ n_workers \in Nat \ {0} /\ nic_tx_ports \subseteq Ports /\ Pairs \subseteq Ports \X Workers
  /\ RuleSet \subseteq LpmRule
  /\ Len(Packets) \in Nat /\ Ids = 1 .. Len(Packets)
  /\ \A id \in Ids : /\ Packets[id].ip \in Ips /\ Packets[id].port \in Ports
                     /\ Worker(id) \in Workers /\ Queue(id) \in Lists(nic_queues)
<1>1. n_workers \in Nat \ {0}
  BY LoadBalancerAssumption, PowType
<1>2. nic_tx_ports \subseteq Ports
  <2>1. nic_ports \in Seq(Ports)
    BY LoadBalancerAssumption
  <2> QED
    BY <2>1, ListsIs DEF nic_tx_ports
<1>3. Pairs \subseteq Ports \X Workers
  BY <1>2 DEF Pairs
<1>4. RuleSet \subseteq LpmRule
  BY LoadBalancerAssumption DEF LpmRule
<1>5. Len(Packets) \in Nat /\ Ids = 1 .. Len(Packets)
      /\ \A id \in Ids : Packets[id] \in [lb : Nat, ip : Ips, port : Ports, type : ETH_RSS]
  <2>1. Packets \in Seq([lb : Nat, ip : Ips, port : Ports, type : ETH_RSS])
    BY LoadBalancerAssumption
  <2> QED
    BY <2>1, LenProperties, ElementOfSeq DEF Ids
<1>6. ASSUME NEW id \in Ids PROVE Worker(id) \in Workers
  <2> DEFINE x == Packets[id].lb  d == n_workers
  <2>1. x \in Int
    BY <1>5
  <2> HIDE DEF x, d
  <2>2. d \in Nat \ {0}
    BY <1>1 DEF d
  <2>3. x % d \in 0 .. d - 1
    BY <2>1, <2>2, DivIs
  <2> QED
    BY <2>3 DEF x, d, Worker, Workers
<1> QED
  BY <1>1, <1>2, <1>3, <1>4, <1>5, <1>6, QueuesAssumption DEF Queue

LEMMA PlaceKinds ==
  \A l \in Places :
    \/ \E q \in Lists(nic_queues) : l = <<"nic", q>>
    \/ l = <<"burst", 0>>
    \/ \E w \in Workers : l \in {<<"rx", w>>, <<"rxring", w>>, <<"bulk", w>>}
    \/ \E x \in Ports \X Workers : l = <<"wout", x>>
    \/ \E x \in Pairs : l = <<"txring", x>>
    \/ \E p \in Ports : l \in {<<"tx", p>>, <<"sent", p>>}
  BY DEF Places

LEMMA PlaceTypes ==
  /\ \A q \in Lists(nic_queues) : <<"nic", q>> \in Places
  /\ <<"burst", 0>> \in Places
  /\ \A w \in Workers : <<"rx", w>> \in Places /\ <<"rxring", w>> \in Places /\ <<"bulk", w>> \in Places
  /\ \A x \in Ports \X Workers : <<"wout", x>> \in Places
  /\ \A x \in Pairs : <<"txring", x>> \in Places
  /\ \A p \in Ports : <<"tx", p>> \in Places /\ <<"sent", p>> \in Places
  BY DEF Places

LEMMA ContentIs ==
  ASSUME NEW x
  PROVE  /\ \A q \in Lists(nic_queues) : ContentOf(x)[<<"nic", q>>] = x[1][q]
         /\ ContentOf(x)[<<"burst", 0>>] = x[2]
         /\ \A w \in Workers : /\ ContentOf(x)[<<"rx", w>>] = x[3][w].array
                               /\ ContentOf(x)[<<"rxring", w>>] = x[4][w]
                               /\ ContentOf(x)[<<"bulk", w>>] = x[5][w].bulk
         /\ \A e \in Ports \X Workers : ContentOf(x)[<<"wout", e>>] = x[6][e].array
         /\ \A e \in Pairs : ContentOf(x)[<<"txring", e>>] = x[7][e]
         /\ \A p \in Ports : /\ ContentOf(x)[<<"tx", p>>] = x[8][p].array
                             /\ ContentOf(x)[<<"sent", p>>] = x[9][p]
<1>1. \A q \in Lists(nic_queues) : ContentOf(x)[<<"nic", q>>] = x[1][q]
  BY PlaceTypes DEF ContentOf
<1>2. ContentOf(x)[<<"burst", 0>>] = x[2]
  BY PlaceTypes DEF ContentOf
<1>3. \A w \in Workers : /\ ContentOf(x)[<<"rx", w>>] = x[3][w].array
                         /\ ContentOf(x)[<<"rxring", w>>] = x[4][w]
                         /\ ContentOf(x)[<<"bulk", w>>] = x[5][w].bulk
  BY PlaceTypes DEF ContentOf
<1>4. \A e \in Ports \X Workers : ContentOf(x)[<<"wout", e>>] = x[6][e].array
  BY PlaceTypes DEF ContentOf
<1>5. \A e \in Pairs : ContentOf(x)[<<"txring", e>>] = x[7][e]
  BY PlaceTypes DEF ContentOf
<1>6. \A p \in Ports : ContentOf(x)[<<"tx", p>>] = x[8][p].array /\ ContentOf(x)[<<"sent", p>>] = x[9][p]
  BY PlaceTypes DEF ContentOf
<1> QED
  BY <1>1, <1>2, <1>3, <1>4, <1>5, <1>6

ContentHolds ==
  /\ \A q \in Lists(nic_queues) : Content[<<"nic", q>>] = nic[q]
  /\ Content[<<"burst", 0>>] = io.burst
  /\ \A w \in Workers : Content[<<"rx", w>>] = rx_out[w].array
  /\ \A w \in Workers : Content[<<"rxring", w>>] = rx_ring[w]
  /\ \A w \in Workers : Content[<<"bulk", w>>] = wk[w].bulk
  /\ \A e \in Ports \X Workers : Content[<<"wout", e>>] = w_out[e].array
  /\ \A e \in Pairs : Content[<<"txring", e>>] = tx_ring[e]
  /\ \A p \in Ports : Content[<<"tx", p>>] = tx_out[p].array
  /\ \A p \in Ports : Content[<<"sent", p>>] = sent[p]

LEMMA ContentNow == ContentHolds
<1> DEFINE x == <<nic, io.burst, rx_out, rx_ring, wk, w_out, tx_ring, tx_out, sent>>
<1>1. x[1] = nic /\ x[2] = io.burst /\ x[3] = rx_out /\ x[4] = rx_ring /\ x[5] = wk
      /\ x[6] = w_out /\ x[7] = tx_ring /\ x[8] = tx_out /\ x[9] = sent
  OBVIOUS
<1>2. Content = ContentOf(x)
  BY DEF Content
<1> HIDE DEF x
<1>3. \A q \in Lists(nic_queues) : Content[<<"nic", q>>] = nic[q]
  BY <1>1, <1>2, ContentIs
<1>4. Content[<<"burst", 0>>] = io.burst
  BY <1>1, <1>2, ContentIs
<1>5. \A w \in Workers : Content[<<"rx", w>>] = rx_out[w].array
  BY <1>1, <1>2, ContentIs
<1>6. \A w \in Workers : Content[<<"rxring", w>>] = rx_ring[w]
  BY <1>1, <1>2, ContentIs
<1>7. \A w \in Workers : Content[<<"bulk", w>>] = wk[w].bulk
  BY <1>1, <1>2, ContentIs
<1>8. \A e \in Ports \X Workers : Content[<<"wout", e>>] = w_out[e].array
  BY <1>1, <1>2, ContentIs
<1>9. \A e \in Pairs : Content[<<"txring", e>>] = tx_ring[e]
  BY <1>1, <1>2, ContentIs
<1>10. \A p \in Ports : Content[<<"tx", p>>] = tx_out[p].array
  BY <1>1, <1>2, ContentIs
<1>11. \A p \in Ports : Content[<<"sent", p>>] = sent[p]
  BY <1>1, <1>2, ContentIs
<1> QED
  BY <1>3, <1>4, <1>5, <1>6, <1>7, <1>8, <1>9, <1>10, <1>11 DEF ContentHolds

LEMMA ContentNext == ContentHolds'
  BY ContentNow, PTL

\* a step changes the places of X only
Unchanged(X) ==
  /\ \A q \in Lists(nic_queues) : <<"nic", q>> \in X \/ nic'[q] = nic[q]
  /\ <<"burst", 0>> \in X \/ io'.burst = io.burst
  /\ \A w \in Workers : <<"rx", w>> \in X \/ rx_out'[w].array = rx_out[w].array
  /\ \A w \in Workers : <<"rxring", w>> \in X \/ rx_ring'[w] = rx_ring[w]
  /\ \A w \in Workers : <<"bulk", w>> \in X \/ wk'[w].bulk = wk[w].bulk
  /\ \A e \in Ports \X Workers : <<"wout", e>> \in X \/ w_out'[e].array = w_out[e].array
  /\ \A e \in Pairs : <<"txring", e>> \in X \/ tx_ring'[e] = tx_ring[e]
  /\ \A p \in Ports : <<"tx", p>> \in X \/ tx_out'[p].array = tx_out[p].array
  /\ \A p \in Ports : <<"sent", p>> \in X \/ sent'[p] = sent[p]

LEMMA ContentSame ==
  ASSUME NEW X, Unchanged(X), NEW l \in Places, l \notin X
  PROVE  Content'[l] = Content[l]
<1>1. ASSUME NEW q \in Lists(nic_queues), l = <<"nic", q>> PROVE Content'[l] = Content[l]
  <2>1. Content[<<"nic", q>>] = nic[q] /\ Content'[<<"nic", q>>] = nic'[q]
    BY ContentNow, ContentNext DEF ContentHolds
  <2>2. nic'[q] = nic[q]
    BY <1>1 DEF Unchanged
  <2> QED
    BY <1>1, <2>1, <2>2
<1>2. ASSUME l = <<"burst", 0>> PROVE Content'[l] = Content[l]
  <2>1. Content[<<"burst", 0>>] = io.burst /\ Content'[<<"burst", 0>>] = io'.burst
    BY ContentNow, ContentNext DEF ContentHolds
  <2>2. io'.burst = io.burst
    BY <1>2 DEF Unchanged
  <2> QED
    BY <1>2, <2>1, <2>2
<1>3. ASSUME NEW w \in Workers, l = <<"rx", w>> PROVE Content'[l] = Content[l]
  <2>1. Content[<<"rx", w>>] = rx_out[w].array /\ Content'[<<"rx", w>>] = rx_out'[w].array
    BY ContentNow, ContentNext DEF ContentHolds
  <2>2. rx_out'[w].array = rx_out[w].array
    BY <1>3 DEF Unchanged
  <2> QED
    BY <1>3, <2>1, <2>2
<1>4. ASSUME NEW w \in Workers, l = <<"rxring", w>> PROVE Content'[l] = Content[l]
  <2>1. Content[<<"rxring", w>>] = rx_ring[w] /\ Content'[<<"rxring", w>>] = rx_ring'[w]
    BY ContentNow, ContentNext DEF ContentHolds
  <2>2. rx_ring'[w] = rx_ring[w]
    BY <1>4 DEF Unchanged
  <2> QED
    BY <1>4, <2>1, <2>2
<1>5. ASSUME NEW w \in Workers, l = <<"bulk", w>> PROVE Content'[l] = Content[l]
  <2>1. Content[<<"bulk", w>>] = wk[w].bulk /\ Content'[<<"bulk", w>>] = wk'[w].bulk
    BY ContentNow, ContentNext DEF ContentHolds
  <2>2. wk'[w].bulk = wk[w].bulk
    BY <1>5 DEF Unchanged
  <2> QED
    BY <1>5, <2>1, <2>2
<1>6. ASSUME NEW e \in Ports \X Workers, l = <<"wout", e>> PROVE Content'[l] = Content[l]
  <2>1. Content[<<"wout", e>>] = w_out[e].array /\ Content'[<<"wout", e>>] = w_out'[e].array
    BY ContentNow, ContentNext DEF ContentHolds
  <2>2. w_out'[e].array = w_out[e].array
    BY <1>6 DEF Unchanged
  <2> QED
    BY <1>6, <2>1, <2>2
<1>7. ASSUME NEW e \in Pairs, l = <<"txring", e>> PROVE Content'[l] = Content[l]
  <2>1. Content[<<"txring", e>>] = tx_ring[e] /\ Content'[<<"txring", e>>] = tx_ring'[e]
    BY ContentNow, ContentNext DEF ContentHolds
  <2>2. tx_ring'[e] = tx_ring[e]
    BY <1>7 DEF Unchanged
  <2> QED
    BY <1>7, <2>1, <2>2
<1>8. ASSUME NEW p \in Ports, l = <<"tx", p>> PROVE Content'[l] = Content[l]
  <2>1. Content[<<"tx", p>>] = tx_out[p].array /\ Content'[<<"tx", p>>] = tx_out'[p].array
    BY ContentNow, ContentNext DEF ContentHolds
  <2>2. tx_out'[p].array = tx_out[p].array
    BY <1>8 DEF Unchanged
  <2> QED
    BY <1>8, <2>1, <2>2
<1>9. ASSUME NEW p \in Ports, l = <<"sent", p>> PROVE Content'[l] = Content[l]
  <2>1. Content[<<"sent", p>>] = sent[p] /\ Content'[<<"sent", p>>] = sent'[p]
    BY ContentNow, ContentNext DEF ContentHolds
  <2>2. sent'[p] = sent[p]
    BY <1>9 DEF Unchanged
  <2> QED
    BY <1>9, <2>1, <2>2
<1> QED
  BY <1>1, <1>2, <1>3, <1>4, <1>5, <1>6, <1>7, <1>8, <1>9, PlaceKinds

LEMMA ContentIsAFunction == Content = [l \in Places |-> Content[l]]
  BY DEF Content, ContentOf

LEMMA ContentNextIsAFunction == Content' = [l \in Places |-> Content'[l]]
  BY DEF Content, ContentOf

(* The initial state.                                                       *)
LEMMA Initially == \A route : Held(route, Unreceived, {})
<1> SUFFICES ASSUME NEW route PROVE Held(route, Unreceived, {})
  OBVIOUS
<1> DEFINE c == Unreceived  In(q) == {i \in Ids : Queue(i) = q}
<1>1. ASSUME NEW q \in Lists(nic_queues) PROVE InOrder(Arrivals(q), In(q))
  <2>1. In(q) \in SUBSET (1 .. Len(Packets)) /\ Len(Packets) \in Nat
    BY Consts
  <2> HIDE DEF In
  <2>2. InOrder(Ascending(In(q)), In(q))
    BY <2>1, AscendingIs
  <2> QED
    BY <2>2 DEF Arrivals, In
<1>2. ASSUME NEW l \in Places
      PROVE  \/ l[1] = "nic" /\ l[2] \in Lists(nic_queues) /\ c[l] = Arrivals(l[2]) /\ InOrder(c[l], In(l[2]))
             \/ c[l] = << >>
  <2>1. CASE l[1] = "nic"
    <3>1. l[2] \in Lists(nic_queues)
      BY <2>1 DEF Places
    <3>2. c[l] = Arrivals(l[2])
      BY <2>1 DEF Unreceived
    <3> HIDE DEF c, In
    <3> QED
      BY <1>1, <2>1, <3>1, <3>2
  <2>2. CASE l[1] # "nic"
    BY <2>2 DEF Unreceived
  <2> QED
    BY <2>1, <2>2
<1>3. \A q : In(q) \subseteq Ids
  OBVIOUS
<1>4. c = [l \in Places |-> c[l]]
  BY DEF Unreceived
<1> HIDE DEF c
<1>5. ASSUME NEW l \in Places PROVE c[l] \in Seq(Ids)
  <2>1. CASE c[l] = << >>
    BY <2>1
  <2>2. CASE InOrder(c[l], In(l[2]))
    <3>1. c[l] \in Seq(In(l[2])) /\ In(l[2]) \subseteq Ids
      BY <2>2 DEF InOrder
    <3> QED
      BY <3>1, SeqMonotonic
  <2> QED
    BY <1>2, <2>1, <2>2
<1>6. ASSUME NEW l \in Places, NEW i \in 1 .. Len(c[l])
      PROVE  l[1] = "nic" /\ InOrder(c[l], In(l[2])) /\ c[l][i] \in Ids /\ Queue(c[l][i]) = l[2]
  <2>1. l[1] = "nic" /\ InOrder(c[l], In(l[2]))
    <3>1. c[l] # << >>
      <4>1. Len(<< >>) = 0
        OBVIOUS
      <4> QED
        BY <4>1
    <3> HIDE DEF In
    <3> QED
      BY <1>2, <3>1
  <2>2. c[l] \in Seq(In(l[2]))
    BY <2>1 DEF InOrder
  <2>3. c[l][i] \in In(l[2])
    <3> HIDE DEF In
    <3> QED
      BY <2>2, ElementOfSeq
  <2> QED
    BY <2>1, <2>3
<1>7. ASSUME NEW l \in Places, NEW i \in 1 .. Len(c[l]) PROVE Home(route, l, c[l][i]) /\ c[l][i] \notin {}
  BY <1>6 DEF Home
<1>8. ASSUME NEW l \in Places, NEW m \in Places, NEW i \in 1 .. Len(c[l]), NEW j \in 1 .. Len(c[m]),
             Flow(route, c[l][i], c[m][j]), c[l][i] <= c[m][j]
      PROVE  l = m /\ i <= j
  <2>1. l[1] = "nic" /\ m[1] = "nic" /\ Queue(c[l][i]) = l[2] /\ Queue(c[m][j]) = m[2]
    BY <1>6
  <2>2. l = m
    <3>1. Stage(l) = Stage(m)
      BY <2>1 DEF Stage
    <3> QED
      BY <1>7, <1>8, <3>1, HomeOne
  <2>3. InOrder(c[l], In(l[2])) /\ c[l][i] \in Ids /\ c[m][j] \in Ids /\ j \in 1 .. Len(c[l])
    BY <1>6, <2>2
  <2>4. j < i => c[l][j] < c[l][i]
    BY <2>3 DEF InOrder
  <2>5. Len(c[l]) \in Nat /\ c[l][i] \in Nat /\ c[l][j] \in Nat
    BY <1>5, <2>2, <2>3, LenProperties DEF Ids
  <2>6. i \in Int /\ j \in Int
    OBVIOUS
  <2> QED
    BY <1>8, <2>2, <2>4, <2>5, <2>6
<1>9. ASSUME NEW id \in Ids PROVE \E l \in Places : \E i \in 1 .. Len(c[l]) : c[l][i] = id
  <2> DEFINE l == <<"nic", Queue(id)>>
  <2>1. l \in Places
    BY Consts, PlaceTypes
  <2>2. c[l] = Arrivals(Queue(id))
    BY <2>1 DEF c, Unreceived
  <2>3. InOrder(c[l], In(Queue(id)))
    <3> HIDE DEF In
    <3> QED
      BY <1>1, <2>2, Consts
  <2>4. id \in In(Queue(id))
    OBVIOUS
  <2>5. \E i \in 1 .. Len(c[l]) : c[l][i] = id
    <3> HIDE DEF In, l
    <3> QED
      BY <2>3, <2>4 DEF InOrder
  <2> QED
    BY <2>1, <2>5
<1>10. c \in [Places -> Seq(Ids)]
  BY <1>4, <1>5
<1> HIDE DEF In
<1>11. Held(route, c, {})
  BY <1>7, <1>8, <1>9, <1>10 DEF Held
<1> QED
  BY <1>11 DEF c

LEMMA MoveAll ==
  ASSUME NEW route, NEW c, NEW f, NEW s \in Places, NEW d \in Places,
         Held(route, c, f), Stage(d) = Stage(s) + 1, NEW n \in 0 .. Len(c[s]),
         \A i \in 1 .. n : Home(route, d, c[s][i])
  PROVE  Held(route, One(c, s, d, n, n), f)
<1>1. n \in Int /\ n + 1 \in Int /\ n < n + 1 /\ n \in 0 .. n
  OBVIOUS
<1>2. SubSeq(c[s], n + 1, n) = << >>
  BY <1>1, SubSeqEmpty
<1>3. Lists(<< >>) = {}
  BY DEF Lists
<1>4. Held(route, One(c, s, d, n, n), f \cup Lists(SubSeq(c[s], n + 1, n)))
  BY <1>1, MoveOne
<1> QED
  BY <1>2, <1>3, <1>4

LEMMA StageIs ==
  /\ \A q : Stage(<<"nic", q>>) = 1 /\ Stage(<<"burst", q>>) = 2 /\ Stage(<<"rx", q>>) = 3
            /\ Stage(<<"rxring", q>>) = 4 /\ Stage(<<"bulk", q>>) = 5 /\ Stage(<<"wout", q>>) = 6
            /\ Stage(<<"txring", q>>) = 7 /\ Stage(<<"tx", q>>) = 8 /\ Stage(<<"sent", q>>) = 9
  BY DEF Stage, Stages

LEMMA HomeIs ==
  \A route, id, q :
    /\ Home(route, <<"burst", q>>, id)
    /\ q = Worker(id) => Home(route, <<"rx", q>>, id) /\ Home(route, <<"rxring", q>>, id) /\ Home(route, <<"bulk", q>>, id)
    /\ q = <<route[id], Worker(id)>> => Home(route, <<"wout", q>>, id) /\ Home(route, <<"txring", q>>, id)
    /\ q = route[id] => Home(route, <<"tx", q>>, id) /\ Home(route, <<"sent", q>>, id)
<1> SUFFICES ASSUME NEW route, NEW id, NEW q
             PROVE  /\ Home(route, <<"burst", q>>, id)
                    /\ q = Worker(id) => Home(route, <<"rx", q>>, id) /\ Home(route, <<"rxring", q>>, id) /\ Home(route, <<"bulk", q>>, id)
                    /\ q = <<route[id], Worker(id)>> => Home(route, <<"wout", q>>, id) /\ Home(route, <<"txring", q>>, id)
                    /\ q = route[id] => Home(route, <<"tx", q>>, id) /\ Home(route, <<"sent", q>>, id)
  OBVIOUS
<1>1. Home(route, <<"burst", q>>, id)
  BY DEF Home
<1>2. ASSUME q = Worker(id)
      PROVE  Home(route, <<"rx", q>>, id) /\ Home(route, <<"rxring", q>>, id) /\ Home(route, <<"bulk", q>>, id)
  BY <1>2 DEF Home
<1>3. ASSUME q = <<route[id], Worker(id)>> PROVE Home(route, <<"wout", q>>, id) /\ Home(route, <<"txring", q>>, id)
  BY <1>3 DEF Home
<1>4. ASSUME q = route[id] PROVE Home(route, <<"tx", q>>, id) /\ Home(route, <<"sent", q>>, id)
  BY <1>4 DEF Home
<1> QED
  BY <1>1, <1>2, <1>3, <1>4

LEMMA RulesType == rules \in Seq(RuleSet) => rules \in Seq(LpmRule)
  BY Consts, SeqMonotonic

\* in the run a packet goes where its deepest rule says, and can
LEMMA RouteIs ==
  ASSUME LBInv, phase = "run", NEW id \in Ids
  PROVE  Route(id) = Goals[id] /\ Goals[id] \in nic_tx_ports /\ Goals[id] \in Ports
<1> DEFINE ip == Packets[id].ip  best == Best(rules, ip, 0 .. IpBits)
<1>1. rules \in Seq(LpmRule) /\ rules \in Seq(RuleSet) /\ ip \in Ips
  BY RulesType, Consts DEF LBInv, TypeOK
<1>2. lpm = rte_lpm(rules) /\ app_check_lpm_table /\ app_check_every_rx_port_is_tx_enabled
  BY DEF LBInv, Tables
<1>3. Goals[id] = IF best = 0 THEN Packets[id].port ELSE rules[best].if_out
  BY DEF Goals, GoalBy
<1> HIDE DEF ip
<1>4. rte_lpm_lookup(lpm, ip) = [ret |-> IF best = 0 THEN "-ENOENT" ELSE "0",
                                 next_hop |-> IF best = 0 THEN 0 ELSE rules[best].if_out]
  BY <1>1, <1>2, LookupIs
<1>5. best \in 0 .. Len(rules) /\ DOMAIN rules = 1 .. Len(rules) /\ Len(rules) \in Nat
  BY <1>1, BestRange, LenProperties
<1> HIDE DEF best
<1>6. Route(id) = Goals[id]
  <2>1. Route(id) = IF rte_lpm_lookup(lpm, ip).ret = "0" THEN rte_lpm_lookup(lpm, ip).next_hop ELSE Packets[id].port
    BY DEF Route, ip
  <2>2. CASE best = 0
    BY <1>3, <1>4, <2>1, <2>2
  <2>3. CASE best # 0
    BY <1>3, <1>4, <2>1, <2>3
  <2> QED
    BY <2>2, <2>3
<1>7. Goals[id] \in nic_tx_ports
  <2>1. CASE best # 0
    <3>1. best \in DOMAIN rules
      BY <1>5, <2>1
    <3> QED
      BY <1>2, <1>3, <2>1, <3>1 DEF app_check_lpm_table
  <2>2. CASE best = 0
    <3> DEFINE port == Packets[id].port  L == Lists(nic_queues)  S == {q \in L : q[1] = port}
    <3>1. Queue(id) \in L /\ Queue(id)[1] = port /\ port \in Ports
      BY Consts DEF Queue, RssQueue
    <3>2. IsFiniteSet(L)
      <4>1. nic_queues \in Seq(Ports \X Nat)
        BY LoadBalancerAssumption
      <4>2. DOMAIN nic_queues = 1 .. Len(nic_queues) /\ Len(nic_queues) \in Nat
        BY <4>1, LenProperties
      <4>3. IsFiniteSet(1 .. Len(nic_queues))
        <5>1. 1 \in Int /\ Len(nic_queues) \in Int
          BY <4>2
        <5> QED
          BY ONLY <5>1, FS_Interval
      <4>4. \A y \in L : \E i \in 1 .. Len(nic_queues) : nic_queues[i] = y
        BY <4>1, ListsIs
      <4>5. nic_queues \in [1 .. Len(nic_queues) -> L]
        <5>1. nic_queues = [i \in 1 .. Len(nic_queues) |-> nic_queues[i]]
          BY <4>1, LenProperties
        <5>2. \A i \in 1 .. Len(nic_queues) : nic_queues[i] \in L
          BY <4>2 DEF Lists
        <5> HIDE DEF L
        <5> QED
          BY <5>1, <5>2
      <4>6. nic_queues \in Surjection(1 .. Len(nic_queues), L)
        <5> HIDE DEF L
        <5> QED
          BY <4>4, <4>5, Fun_IsSurj
      <4> QED
        BY <4>3, <4>6, FS_Surjection
    <3>3. IsFiniteSet(S) /\ S # {}
      <4>1. S \in SUBSET L
        OBVIOUS
      <4> HIDE DEF S, L
      <4>2. IsFiniteSet(S)
        BY <3>2, <4>1, FS_Subset
      <4>3. Queue(id) \in S
        BY <3>1 DEF S, L
      <4> QED
        BY <4>2, <4>3
    <3> HIDE DEF S
    <3>4. Cardinality(S) \in Nat /\ Cardinality(S) # 0
      BY <3>3, FS_CardinalityType, FS_EmptySet
    <3>5. app_get_nic_rx_queues_per_port(port) > 0
      BY <3>4 DEF app_get_nic_rx_queues_per_port, S
    <3>6. port \in nic_tx_ports
      <4> HIDE DEF port
      <4> QED
        BY <1>2, <3>1, <3>5 DEF app_check_every_rx_port_is_tx_enabled
    <3> QED
      BY <1>3, <2>2, <3>6
  <2> QED
    BY <2>1, <2>2
<1> QED
  BY <1>6, <1>7, Consts

LEMMA RunStep ==
  ASSUME LBInv, phase = "run", UNCHANGED <<phase, rules, lpm>>, TypeOK', Turn', Held(Goals, Content', freed')
  PROVE  LBInv'
<1>1. Goals' = Goals
  BY DEF Goals
<1>2. Tables'
  BY DEF LBInv, Tables, app_check_lpm_table, app_check_every_rx_port_is_tx_enabled, nic_tx_ports
<1>3. Start'
  BY DEF Start
<1> QED
  BY <1>1, <1>2, <1>3 DEF LBInv

LEMMA InitLBInv == Init => LBInv
<1> SUFFICES ASSUME Init PROVE LBInv
  OBVIOUS
<1> DEFINE x == <<nic, io.burst, rx_out, rx_ring, wk, w_out, tx_ring, tx_out, sent>>
<1>1. ASSUME NEW q \in Lists(nic_queues) PROVE nic[q] = Arrivals(q) /\ Arrivals(q) \in Seq(Ids)
  <2>1. nic[q] = Arrivals(q)
    BY DEF Init, Arrivals, Queue
  <2> DEFINE S == {i \in Ids : Queue(i) = q}
  <2>2. S \in SUBSET (1 .. Len(Packets)) /\ Len(Packets) \in Nat /\ S \subseteq Ids
    BY Consts
  <2> HIDE DEF S
  <2>3. InOrder(Ascending(S), S)
    BY <2>2, AscendingIs
  <2>4. Ascending(S) \in Seq(Ids)
    BY <2>2, <2>3, SeqMonotonic DEF InOrder
  <2> QED
    BY <2>1, <2>4 DEF Arrivals, S
<1>2. Content = Unreceived
  <2>1. ASSUME NEW l \in Places PROVE Content[l] = Unreceived[l]
    <3>1. CASE \E q \in Lists(nic_queues) : l = <<"nic", q>>
      <4>1. PICK q \in Lists(nic_queues) : l = <<"nic", q>>
        BY <3>1
      <4>2. Content[l] = nic[q]
        BY <4>1, ContentNow DEF ContentHolds
      <4>3. Unreceived[l] = Arrivals(q)
        BY <4>1 DEF Unreceived
      <4> QED
        BY <1>1, <4>2, <4>3
    <3>2. CASE l[1] # "nic"
      <4>1. Unreceived[l] = << >>
        BY <3>2 DEF Unreceived
      <4>2. CASE l = <<"burst", 0>>
        BY <4>1, <4>2, ContentNow DEF ContentHolds, Init
      <4>3. CASE \E w \in Workers : l \in {<<"rx", w>>, <<"rxring", w>>, <<"bulk", w>>}
        <5>1. PICK w \in Workers : l \in {<<"rx", w>>, <<"rxring", w>>, <<"bulk", w>>}
          BY <4>3
        <5>2. rx_out[w].array = << >> /\ rx_ring[w] = << >> /\ wk[w].bulk = << >>
          BY DEF Init, Empty
        <5>3. Content[<<"rx", w>>] = rx_out[w].array /\ Content[<<"rxring", w>>] = rx_ring[w]
              /\ Content[<<"bulk", w>>] = wk[w].bulk
          BY ContentNow DEF ContentHolds
        <5> QED
          BY <4>1, <5>1, <5>2, <5>3
      <4>4. CASE \E e \in Ports \X Workers : l = <<"wout", e>>
        <5>1. PICK e \in Ports \X Workers : l = <<"wout", e>>
          BY <4>4
        <5>2. w_out[e].array = << >>
          BY DEF Init, Empty
        <5>3. Content[<<"wout", e>>] = w_out[e].array
          BY ContentNow DEF ContentHolds
        <5> QED
          BY <4>1, <5>1, <5>2, <5>3
      <4>5. CASE \E e \in Pairs : l = <<"txring", e>>
        <5>1. PICK e \in Pairs : l = <<"txring", e>>
          BY <4>5
        <5>2. tx_ring[e] = << >>
          BY DEF Init
        <5>3. Content[<<"txring", e>>] = tx_ring[e]
          BY ContentNow DEF ContentHolds
        <5> QED
          BY <4>1, <5>1, <5>2, <5>3
      <4>6. CASE \E p \in Ports : l \in {<<"tx", p>>, <<"sent", p>>}
        <5>1. PICK p \in Ports : l \in {<<"tx", p>>, <<"sent", p>>}
          BY <4>6
        <5>2. tx_out[p].array = << >> /\ sent[p] = << >>
          BY DEF Init, Empty
        <5>3. Content[<<"tx", p>>] = tx_out[p].array /\ Content[<<"sent", p>>] = sent[p]
          BY ContentNow DEF ContentHolds
        <5> QED
          BY <4>1, <5>1, <5>2, <5>3
      <4> QED
        BY <3>2, <4>2, <4>3, <4>4, <4>5, <4>6, PlaceKinds
    <3> QED
      BY <3>1, <3>2, PlaceKinds
  <2>2. Content = [l \in Places |-> Content[l]] /\ Unreceived = [l \in Places |-> Unreceived[l]]
    <3>1. \A y : ContentOf(y) = [l \in Places |-> ContentOf(y)[l]]
      BY DEF ContentOf
    <3> QED
      BY <3>1 DEF Content, Unreceived
  <2> QED
    BY <2>1, <2>2
<1>3. TypeOK
  <2>1. nic \in [Lists(nic_queues) -> Seq(Ids)]
    BY <1>1 DEF Init
  <2>2. << >> \in Seq(Ids) /\ << >> \in Seq(RuleSet) /\ Empty(0) \in Outs
    BY DEF Empty, Outs
  <2> QED
    BY <2>1, <2>2 DEF Init, TypeOK
<1>4. Turn /\ Tables /\ phase # "run" /\ freed = {}
  BY DEF Init, Turn, Tables
<1>5. Held(Goals, Content, freed)
  BY <1>2, <1>4, Initially
<1> QED
  BY <1>2, <1>3, <1>4, <1>5 DEF LBInv, Start

LEMMA ConfigStep == LBInv /\ (AddRule \/ Configure \/ Launch) => LBInv'
<1> SUFFICES ASSUME LBInv, AddRule \/ Configure \/ Launch PROVE LBInv'
  OBVIOUS
<1>1. /\ phase # "run" /\ UNCHANGED <<nic, io, wk, rx_out, w_out, tx_out, rx_ring, tx_ring, sent, freed>>
      /\ phase' \in {"init", "ready", "run", "fail"}
  BY DEF AddRule, Configure, Launch, LBInv, TypeOK
<1>2. Content' = Content
  BY <1>1 DEF Content
<1>3. Content = Unreceived /\ freed = {}
  BY <1>1 DEF LBInv, Start
<1>4. rules' \in Seq(RuleSet)
  <2>1. rules \in Seq(RuleSet)
    BY DEF LBInv, TypeOK
  <2>2. CASE AddRule
    <3>1. PICK r \in RuleSet : rules' = Append(rules, r)
      BY <2>2 DEF AddRule
    <3> QED
      BY <2>1, <3>1, AppendProperties
  <2>3. CASE Configure \/ Launch
    BY <2>1, <2>3 DEF Configure, Launch
  <2> QED
    BY <2>2, <2>3
<1>5. TypeOK'
  BY <1>1, <1>4 DEF LBInv, TypeOK
<1>6. Turn'
  BY <1>1 DEF LBInv, Turn
<1>7. Start'
  BY <1>1, <1>2, <1>3 DEF Start, Unreceived
<1>8. Held(Goals, Content, freed)'
  <2>1. Held(Goals', Unreceived, {})
    BY Initially
  <2> QED
    BY <1>1, <1>2, <1>3, <2>1
<1>9. Tables'
  <2>1. CASE AddRule
    BY <2>1 DEF AddRule, Tables
  <2>2. CASE Configure
    <3>1. CASE app_check_lpm_table /\ app_check_every_rx_port_is_tx_enabled
      BY <2>2, <3>1 DEF Configure, Tables, app_init_lpm_tables, app_check_lpm_table, app_check_every_rx_port_is_tx_enabled
    <3>2. CASE ~(app_check_lpm_table /\ app_check_every_rx_port_is_tx_enabled)
      BY <2>2, <3>2 DEF Configure, Tables
    <3> QED
      BY <3>1, <3>2
  <2>3. CASE Launch
    BY <2>3 DEF Launch, LBInv, Tables, app_check_lpm_table, app_check_every_rx_port_is_tx_enabled
  <2> QED
    BY <2>1, <2>2, <2>3
<1> QED
  BY <1>5, <1>6, <1>7, <1>8, <1>9 DEF LBInv

-----------------------------------------------------------------------------
(* The steps of the I/O lcore.                                              *)

LEMMA OneIs ==
  ASSUME NEW s \in Places, NEW d \in Places, s # d, NEW n, NEW k, Unchanged({s, d}),
         Content'[s] = SubSeq(Content[s], n + 1, Len(Content[s])),
         Content'[d] = Content[d] \o SubSeq(Content[s], 1, k)
  PROVE  Content' = One(Content, s, d, n, k)
<1>1. \A l \in Places : l \notin {s, d} => Content'[l] = Content[l]
  BY ContentSame
<1>2. Content' = [l \in Places |-> Content'[l]]
  BY ContentNextIsAFunction
<1> QED
  BY <1>1, <1>2 DEF One

LEMMA HeadIs ==
  ASSUME NEW s \in Seq(Ids), s # << >>, NEW a \in Seq(Ids)
  PROVE  /\ Head(s) \in Ids /\ s[1] = Head(s) /\ Len(s) \in Nat \ {0} /\ 1 \in 0 .. Len(s)
         /\ Tail(s) = SubSeq(s, 1 + 1, Len(s)) /\ Tail(s) \in Seq(Ids)
         /\ Append(a, Head(s)) = a \o SubSeq(s, 1, 1)
         /\ Append(a, Head(s)) \in Seq(Ids)
<1>1. Len(s) \in Nat \ {0}
  BY EmptySeq
<1>2. Head(s) = s[1] /\ Head(s) \in Ids /\ Tail(s) \in Seq(Ids)
  BY HeadTailProperties
<1>3. Tail(s) = SubSeq(s, 2, Len(s))
  BY TailIsSubSeq
<1>4. SubSeq(s, 1, 1) = <<Head(s)>>
  <2>1. 0 \in 0 .. Len(s) /\ 1 \in 0 .. Len(s) /\ 0 + 1 = 1 /\ 1 - 0 = 1 /\ 0 \in Nat /\ 1 \in 0 .. Len(s) /\ 0 + 1 = 1
    BY <1>1
  <2>2. SubSeq(s, 0 + 1, 1) \in Seq(Ids) /\ Len(SubSeq(s, 0 + 1, 1)) = 1 - 0
        /\ \A i \in 1 .. 1 - 0 : SubSeq(s, 0 + 1, 1)[i] = s[0 + i]
    BY <2>1, Shorter
  <2> DEFINE t == SubSeq(s, 1, 1)
  <2>3. t \in Seq(Ids) /\ Len(t) = 1 /\ t[1] = s[1]
    BY <2>1, <2>2
  <2> HIDE DEF t
  <2>4. <<Head(s)>> \in Seq(Ids) /\ Len(<<Head(s)>>) = 1 /\ <<Head(s)>>[1] = s[1]
    BY <1>2
  <2>5. t = <<Head(s)>>
    BY <2>3, <2>4, SeqEqual
  <2> QED
    BY <2>5 DEF t
<1>5. Append(a, Head(s)) = a \o <<Head(s)>> /\ Append(a, Head(s)) \in Seq(Ids)
  BY <1>2, AppendIsConcat, AppendProperties
<1> QED
  BY <1>1, <1>2, <1>3, <1>4, <1>5

\* the packets of an array the ring takes
Taken(ring, array) == IF Fits(ring, array) THEN Len(array) ELSE 0

LEMMA EnqueueIs ==
  ASSUME NEW ring \in Seq(Ids), NEW array \in Seq(Ids), NEW j, j = Taken(ring, array)
  PROVE  /\ j \in 0 .. Len(array) /\ Len(array) \in 0 .. Len(array)
         /\ EnqueueOrFree(ring, array) = ring \o SubSeq(array, 1, j)
         /\ EnqueueOrFree(ring, array) \in Seq(Ids)
         /\ Refused(ring, array) = Lists(SubSeq(array, j + 1, Len(array)))
         /\ SubSeq(array, Len(array) + 1, Len(array)) = << >>
<1> DEFINE n == Len(array)
<1>1. n \in Nat
  BY LenProperties
<1>2. SubSeq(array, n + 1, n) = << >>
  <2>1. n + 1 \in Int /\ n \in Int /\ n < n + 1
    BY <1>1
  <2> QED
    BY <2>1, SubSeqEmpty
<1>3. SubSeq(array, 1, 0) = << >>
  BY SubSeqEmpty
<1>4. SubSeq(array, 1, n) = array
  BY SubSeqFull
<1>5. ring \o << >> = ring /\ ring \o array \in Seq(Ids)
  BY ConcatEmptySeq, ConcatProperties
<1>6. Lists(<< >>) = {}
  BY DEF Lists
<1>7. CASE Fits(ring, array)
  <2>1. j = n
    BY <1>7 DEF Taken
  <2>2. EnqueueOrFree(ring, array) = ring \o array /\ Refused(ring, array) = {}
    BY <1>7 DEF EnqueueOrFree, Refused
  <2> HIDE DEF n
  <2>3. EnqueueOrFree(ring, array) = ring \o SubSeq(array, 1, j)
    BY <1>4, <2>1, <2>2
  <2>4. Refused(ring, array) = Lists(SubSeq(array, j + 1, n))
    BY <1>2, <1>6, <2>1, <2>2
  <2>5. j \in 0 .. n /\ n \in 0 .. n
    BY <1>1, <2>1
  <2>6. EnqueueOrFree(ring, array) \in Seq(Ids)
    BY <1>5, <2>2
  <2> QED
    BY <1>2, <2>3, <2>4, <2>5, <2>6 DEF n
<1>8. CASE ~Fits(ring, array)
  <2>1. j = 0
    BY <1>8 DEF Taken
  <2>2. EnqueueOrFree(ring, array) = ring /\ Refused(ring, array) = Lists(array)
    BY <1>8 DEF EnqueueOrFree, Refused
  <2> HIDE DEF n
  <2>3. EnqueueOrFree(ring, array) = ring \o SubSeq(array, 1, j)
    BY <1>3, <1>5, <2>1, <2>2
  <2>4. Refused(ring, array) = Lists(SubSeq(array, j + 1, n))
    <3>1. j + 1 = 1
      BY <2>1
    <3> QED
      BY <1>4, <2>2, <3>1
  <2>5. j \in 0 .. n /\ n \in 0 .. n
    BY <1>1, <2>1
  <2>6. EnqueueOrFree(ring, array) \in Seq(Ids)
    BY <2>2
  <2> QED
    BY <1>2, <2>3, <2>4, <2>5, <2>6 DEF n
<1> QED
  BY <1>7, <1>8

LEMMA Turns ==
  /\ Len(nic_ports) \in Nat \ {0} /\ Len(nic_ports) * n_workers \in Nat \ {0}
  /\ \A k \in 1 .. Len(nic_ports) * n_workers : TxTurn(k) \in Pairs /\ TxTurn(k) = <<TxTurn(k)[1], TxTurn(k)[2]>>
                                                /\ TxTurn(k)[1] \in nic_tx_ports
<1> DEFINE n == Len(nic_ports)  m == n_workers
<1>1. nic_ports \in Seq(Ports) /\ nic_ports # << >>
  BY LoadBalancerAssumption
<1>2. n \in Nat \ {0}
  BY <1>1, EmptySeq
<1>3. m \in Nat \ {0}
  BY Consts
<1>4. n * m \in Nat \ {0}
  <2> HIDE DEF n, m
  <2> QED
    BY <1>2, <1>3
<1>5. ASSUME NEW k \in 1 .. n * m PROVE ((k - 1) % n) + 1 \in 1 .. n /\ (k - 1) \div n \in 0 .. m - 1
  <2> DEFINE x == k - 1
  <2>1. x \in Nat /\ x < n * m
    BY <1>4
  <2> HIDE DEF n, m, x
  <2>2. x \in Int /\ m \in Nat /\ x < m * n
    BY <1>2, <1>3, <2>1
  <2>3. x % n \in 0 .. n - 1
    BY <1>2, <2>2, DivIs
  <2>4. x \div n \in Nat
    BY <1>2, <2>1, DivNat
  <2>5. x \div n < m
    BY <1>2, <2>1, <2>2, DivBelow
  <2> QED
    BY <1>2, <1>3, <2>3, <2>4, <2>5 DEF x
<1>6. ASSUME NEW k \in 1 .. n * m
      PROVE  TxTurn(k) \in Pairs /\ TxTurn(k) = <<TxTurn(k)[1], TxTurn(k)[2]>> /\ TxTurn(k)[1] \in nic_tx_ports
  <2> DEFINE i == ((k - 1) % n) + 1  w == (k - 1) \div n
  <2>1. TxTurn(k) = <<nic_ports[i], w>>
    BY DEF TxTurn
  <2>2. i \in 1 .. n /\ w \in 0 .. m - 1
    BY <1>5
  <2> HIDE DEF i, w
  <2>3. nic_ports[i] \in nic_tx_ports
    BY <1>1, <2>2, LenProperties DEF nic_tx_ports, Lists
  <2>4. w \in Workers
    BY <2>2 DEF Workers
  <2> QED
    BY <2>1, <2>3, <2>4 DEF Pairs
<1> QED
  BY <1>2, <1>4, <1>6

\* a step that takes the first n of one place to the next
LEMMA StepOne ==
  ASSUME Held(Goals, Content, freed), NEW s \in Places, NEW d \in Places, Unchanged({s, d}),
         Stage(d) = Stage(s) + 1, NEW n \in 0 .. Len(Content[s]),
         \A i \in 1 .. n : Home(Goals, d, Content[s][i]),
         Content'[s] = SubSeq(Content[s], n + 1, Len(Content[s])),
         Content'[d] = Content[d] \o SubSeq(Content[s], 1, n), freed' = freed
  PROVE  Held(Goals, Content', freed')
<1>1. s # d
  <2>1. Stage(s) \in Int
    BY StageType
  <2> QED
    BY <2>1
<1>2. Content' = One(Content, s, d, n, n)
  BY <1>1, OneIs
<1>3. Held(Goals, One(Content, s, d, n, n), freed)
  BY MoveAll
<1> QED
  BY <1>2, <1>3

\* a step that takes the first n of one place to an array and hands on the first
\* j of the array, which it leaves empty
LEMMA StepTwo ==
  ASSUME Held(Goals, Content, freed), NEW s \in Places, NEW d \in Places, NEW e \in Places, Unchanged({s, d, e}),
         Stage(d) = Stage(s) + 1, Stage(e) = Stage(d) + 1, NEW n \in 0 .. Len(Content[s]),
         \A i \in 1 .. n : Home(Goals, d, Content[s][i]),
         \A id : Home(Goals, d, id) => Home(Goals, e, id),
         NEW array, array = Content[d] \o SubSeq(Content[s], 1, n), NEW j \in 0 .. Len(array),
         Content'[s] = SubSeq(Content[s], n + 1, Len(Content[s])), Content'[d] = << >>,
         Content'[e] = Content[e] \o SubSeq(array, 1, j),
         freed' = freed \cup Lists(SubSeq(array, j + 1, Len(array)))
  PROVE  Held(Goals, Content', freed')
<1> DEFINE c == Content  m == Len(array)  c1 == One(c, s, d, n, n)
<1>1. s # d /\ d # e /\ s # e
  <2>1. Stage(s) \in Int /\ Stage(d) \in Int
    BY StageType
  <2> QED
    BY <2>1
<1>2. array \in Seq(Ids) /\ m \in Nat
  <2>1. c[s] \in Seq(Ids) /\ c[d] \in Seq(Ids)
    BY DEF Held
  <2> DEFINE t == c[s]  u == c[d]
  <2>2. t \in Seq(Ids) /\ u \in Seq(Ids) /\ n \in 0 .. Len(t) /\ array = u \o SubSeq(t, 1, n)
    BY <2>1
  <2> HIDE DEF t, u, c
  <2>3. array \in Seq(Ids)
    BY ONLY <2>2, Joined
  <2> QED
    BY <2>3, LenProperties
<1>20. m = Len(array)
  OBVIOUS
<1> HIDE DEF m
<1>3. SubSeq(array, m + 1, m) = << >>
  <2>1. m + 1 \in Int /\ m \in Int /\ m < m + 1
    BY <1>2
  <2> HIDE DEF m
  <2> QED
    BY <2>1, SubSeqEmpty
<1>4. Content'[d] = SubSeq(array, m + 1, Len(array))
  BY <1>3, <1>20
<1>5. c1[d] = array /\ Content' = One(c1, d, e, m, j)
  <2>1. \A l \in Places : l \notin {s, d, e} => Content'[l] = Content[l]
    BY ContentSame
  <2>2. Content' = [l \in Places |-> Content'[l]]
    BY ContentNextIsAFunction
  <2>3. c1[d] = array /\ c1[s] = SubSeq(Content[s], n + 1, Len(Content[s])) /\ c1[e] = Content[e]
        /\ \A l \in Places : l \notin {s, d} => c1[l] = Content[l]
    BY <1>1 DEF One
  <2> HIDE DEF c1
  <2>4. Content' = One(c1, d, e, m, j)
    BY <1>1, <1>4, <2>1, <2>2, <2>3 DEF One
  <2> QED
    BY <2>3, <2>4
<1>6. Held(Goals, c1, freed)
  <2>1. Held(Goals, One(Content, s, d, n, n), freed)
    BY MoveAll
  <2> QED
    BY <2>1
<1>7. ASSUME NEW i \in 1 .. m PROVE Home(Goals, d, array[i])
  <2>1. i \in 1 .. Len(c1[d])
    BY <1>5, <1>20
  <2> HIDE DEF c1
  <2>2. Home(Goals, d, c1[d][i])
    BY <1>6, <2>1 DEF Held
  <2> QED
    BY <1>5, <2>2
<1> HIDE DEF c1
<1>8. m \in 0 .. Len(c1[d]) /\ j \in 0 .. m /\ \A i \in 1 .. j : Home(Goals, e, c1[d][i])
  <2>1. m \in 0 .. Len(c1[d]) /\ j \in 0 .. m
    <3>1. Len(c1[d]) = m /\ j \in 0 .. m
      BY <1>5, <1>20
    <3> QED
      BY ONLY <1>2, <3>1
  <2>2. ASSUME NEW i \in 1 .. j PROVE Home(Goals, e, c1[d][i])
    <3>1. i \in 1 .. m
      BY <1>2, <2>1
    <3> QED
      BY <1>5, <1>7, <3>1
  <2> QED
    BY <2>1, <2>2
<1>9. Held(Goals, One(c1, d, e, m, j), freed \cup Lists(SubSeq(c1[d], j + 1, m)))
  BY <1>6, <1>8, MoveOne
<1> QED
  BY <1>5, <1>9, <1>20

LEMMA RxStep == LBInv /\ app_lcore_io_rx => LBInv'
<1> SUFFICES ASSUME LBInv, app_lcore_io_rx PROVE LBInv'
  OBVIOUS
<1>1. /\ phase = "run" /\ io.pc = "rx" /\ io.burst = << >>
      /\ UNCHANGED <<phase, rules, lpm>>
      /\ UNCHANGED <<rx_out, tx_out, rx_ring, tx_ring, sent, freed, wk, w_out>>
  BY DEF app_lcore_io_rx, At, IoRest
<1>2. TypeOK /\ Held(Goals, Content, freed)
  BY DEF LBInv
<1>5. io \in [pc : {"rx", "tx"}, i : Nat, k : Nat \ {0}, burst : Seq(Ids)]
  BY <1>2 DEF TypeOK
<1>3. CASE io.k > Len(nic_queues)
  <2>1. io' = [io EXCEPT !.pc = "tx", !.k = 1] /\ nic' = nic
    BY <1>3 DEF app_lcore_io_rx
  <2>2. io'.pc = "tx" /\ io'.k = 1 /\ io'.burst = io.burst /\ io' \in [pc : {"rx", "tx"}, i : Nat, k : Nat \ {0}, burst : Seq(Ids)]
    <3>1. io' = [pc |-> "tx", i |-> io.i, k |-> 1, burst |-> io.burst]
      BY <1>5, <2>1
    <3> QED
      BY <1>5, <3>1
  <2>3. TypeOK'
    BY <1>1, <1>2, <2>1, <2>2 DEF TypeOK
  <2>4. Turn'
    BY <2>2, Turns DEF Turn
  <2>5. Content' = Content
    BY <1>1, <2>1, <2>2 DEF Content
  <2>6. Held(Goals, Content', freed')
    BY <1>1, <1>2, <2>5
  <2> QED
    BY <1>1, <2>3, <2>4, <2>6, RunStep
<1>4. CASE ~(io.k > Len(nic_queues))
  <2> DEFINE q == nic_queues[io.k]  s == <<"nic", q>>  d == <<"burst", 0>>
  <2>1. PICK n \in 0 .. bsz_rx_rd :
          /\ n <= Len(nic[q])
          /\ io' = [io EXCEPT !.k = @ + 1, !.burst = Pipeline(SubSeq(nic[q], 1, n))]
          /\ nic' = [nic EXCEPT ![q] = SubSeq(@, n + 1, Len(@))]
    BY <1>4 DEF app_lcore_io_rx
  <2>2. q \in Lists(nic_queues)
    <3>1. nic_queues \in Seq(Ports \X Nat)
      BY LoadBalancerAssumption
    <3>2. Len(nic_queues) \in Nat /\ io.k \in Nat \ {0}
      BY <1>2, <3>1, LenProperties DEF TypeOK
    <3>3. io.k \in 1 .. Len(nic_queues)
      BY <1>4, <3>2
    <3> QED
      BY <3>1, <3>3, ListsIs
  <2>3. s \in Places /\ d \in Places /\ Stage(d) = Stage(s) + 1
    BY <2>2, PlaceTypes, StageIs
  <2> HIDE DEF q
  <2>4. nic[q] \in Seq(Ids) /\ Len(nic[q]) \in Nat /\ n \in 0 .. Len(nic[q])
    <3>1. nic[q] \in Seq(Ids)
      BY <1>2, <2>2 DEF TypeOK
    <3>2. Len(nic[q]) \in Nat
      BY <3>1, LenProperties
    <3> QED
      BY <2>1, <3>1, <3>2
  <2>5. /\ SubSeq(nic[q], 1, n) \in Seq(Ids) /\ SubSeq(nic[q], n + 1, Len(nic[q])) \in Seq(Ids)
        /\ << >> \o SubSeq(nic[q], 1, n) = SubSeq(nic[q], 1, n)
    <3> DEFINE t == nic[q]
    <3>1. t \in Seq(Ids) /\ n \in 0 .. Len(t) /\ Len(t) \in n .. Len(t) /\ << >> \in Seq(Ids)
      BY <2>4
    <3> HIDE DEF t
    <3>2. SubSeq(t, n + 1, Len(t)) \in Seq(Ids) /\ << >> \o SubSeq(t, 1, n) \in Seq(Ids)
      BY <3>1, Shorter, Joined
    <3>3. 0 \in 0 .. Len(t) /\ n \in 0 .. Len(t) /\ 0 + 1 = 1
      BY <2>4 DEF t
    <3>4. SubSeq(t, 0 + 1, n) \in Seq(Ids)
      BY <3>1, <3>3, Shorter
    <3>5. SubSeq(t, 1, n) \in Seq(Ids)
      BY <3>3, <3>4
    <3> QED
      BY <3>2, <3>5, ConcatEmptySeq DEF t
  <2>6. Pipeline(SubSeq(nic[q], 1, n)) = SubSeq(nic[q], 1, n)
    <3>1. Ids \subseteq Nat
      BY Consts
    <3>2. SubSeq(nic[q], 1, n) \in Seq(Nat)
      BY <2>5, <3>1, SeqMonotonic
    <3> QED
      BY <3>2, PipelineKeeps
  <2>7. /\ io'.pc = "rx" /\ io'.k \in Nat \ {0} /\ io'.i = io.i /\ io'.burst = SubSeq(nic[q], 1, n)
        /\ io' = [pc |-> "rx", i |-> io.i, k |-> io.k + 1, burst |-> SubSeq(nic[q], 1, n)]
    <3>1. io' = [io EXCEPT !.k = @ + 1, !.burst = SubSeq(nic[q], 1, n)]
      BY <2>1, <2>6
    <3>2. io.k + 1 \in Nat \ {0}
      BY <1>5
    <3> HIDE DEF q
    <3> QED
      BY <1>1, <1>5, <3>1, <3>2
  <2>8. TypeOK'
    <3>1. nic' \in [Lists(nic_queues) -> Seq(Ids)]
      BY <1>2, <2>1, <2>2, <2>5 DEF TypeOK
    <3>2. io' \in [pc : {"rx", "tx"}, i : Nat, k : Nat \ {0}, burst : Seq(Ids)]
      BY <1>2, <2>5, <2>7 DEF TypeOK
    <3> QED
      BY <1>1, <1>2, <3>1, <3>2 DEF TypeOK
  <2>9. Turn'
    BY <2>7 DEF Turn
  <2>10. nic'[q] = SubSeq(nic[q], n + 1, Len(nic[q])) /\ \A r \in Lists(nic_queues) : r # q => nic'[r] = nic[r]
    BY <1>2, <2>1, <2>2 DEF TypeOK
  <2>11. Unchanged({s, d})
    BY <1>1, <2>10 DEF Unchanged
  <2>12. Content[s] = nic[q] /\ Content'[s] = nic'[q] /\ Content[d] = << >> /\ Content'[d] = io'.burst
    BY <1>1, <2>2, ContentNow, ContentNext DEF ContentHolds
  <2>13. \A i \in 1 .. n : Home(Goals, d, Content[s][i])
    BY HomeIs
  <2> HIDE DEF s, d
  <2>14. Held(Goals, Content', freed')
    <3>1. n \in 0 .. Len(Content[s]) /\ Content'[s] = SubSeq(Content[s], n + 1, Len(Content[s]))
          /\ Content'[d] = Content[d] \o SubSeq(Content[s], 1, n) /\ freed' = freed
      BY <1>1, <2>4, <2>5, <2>7, <2>10, <2>12
    <3> QED
      BY <1>2, <2>3, <2>11, <2>13, <3>1, StepOne
  <2> QED
    BY <1>1, <2>8, <2>9, <2>14, RunStep
<1> QED
  BY <1>3, <1>4

LEMMA HandOnStep == LBInv /\ HandOn => LBInv'
<1> SUFFICES ASSUME LBInv, HandOn PROVE LBInv'
  OBVIOUS
<1> DEFINE id == Head(io.burst)  w == Worker(id)  array == Append(rx_out[w].array, id)  j == Taken(rx_ring[w], array)
           s == <<"burst", 0>>  d == <<"rx", w>>  e == <<"rxring", w>>
<1>1. /\ phase = "run" /\ io.pc = "rx" /\ io.burst # << >> /\ io' = [io EXCEPT !.burst = Tail(@)]
      /\ UNCHANGED <<phase, rules, lpm>> /\ UNCHANGED <<nic, tx_out, tx_ring, sent, wk, w_out>>
      /\ app_lcore_io_rx_buffer_to_send(w, id)
  BY DEF HandOn, At, IoRest, Worker
<1>2. /\ TypeOK /\ Held(Goals, Content, freed) /\ io \in [pc : {"rx", "tx"}, i : Nat, k : Nat \ {0}, burst : Seq(Ids)]
      /\ rx_out \in [Workers -> Outs] /\ rx_ring \in [Workers -> Seq(Ids)]
  BY DEF LBInv, TypeOK
<1>3. id \in Ids /\ w \in Workers
  <2>1. io.burst \in Seq(Ids)
    BY <1>2
  <2>2. id \in Ids
    BY <1>1, <2>1, HeadTailProperties
  <2> QED
    BY <2>2, Consts
<1>4. rx_out[w] \in Outs /\ rx_out[w].array \in Seq(Ids) /\ rx_ring[w] \in Seq(Ids)
  BY <1>2, <1>3 DEF Outs
<1>5. /\ id = io.burst[1] /\ Len(io.burst) \in Nat \ {0} /\ 1 \in 0 .. Len(io.burst)
      /\ Tail(io.burst) = SubSeq(io.burst, 1 + 1, Len(io.burst)) /\ Tail(io.burst) \in Seq(Ids)
      /\ array = rx_out[w].array \o SubSeq(io.burst, 1, 1) /\ array \in Seq(Ids)
  <2> DEFINE t == io.burst  a == rx_out[w].array
  <2>1. t \in Seq(Ids) /\ t # << >> /\ a \in Seq(Ids)
    BY <1>1, <1>2, <1>4
  <2> HIDE DEF t, a
  <2>2. /\ t[1] = Head(t) /\ Len(t) \in Nat \ {0} /\ 1 \in 0 .. Len(t)
        /\ Tail(t) = SubSeq(t, 1 + 1, Len(t)) /\ Tail(t) \in Seq(Ids)
        /\ Append(a, Head(t)) = a \o SubSeq(t, 1, 1)
        /\ Append(a, Head(t)) \in Seq(Ids)
    BY <2>1, HeadIs
  <2> QED
    BY <2>2 DEF t, a
<1>6. s \in Places /\ d \in Places /\ e \in Places /\ Stage(d) = Stage(s) + 1 /\ Stage(e) = Stage(d) + 1
  <2>1. Stage(s) = 2 /\ Stage(d) = 3 /\ Stage(e) = 4
    BY StageIs
  <2>2. s \in Places /\ d \in Places /\ e \in Places
    BY <1>3, PlaceTypes
  <2> HIDE DEF s, d, e
  <2> QED
    BY <2>1, <2>2
<1>7. \A i \in 1 .. 1 : Home(Goals, d, io.burst[i])
  <2>1. Home(Goals, d, id)
    BY HomeIs
  <2> QED
    BY <1>5, <2>1
<1>8. \A x : Home(Goals, d, x) => Home(Goals, e, x)
  BY DEF Home
<1>9. /\ Content[s] = io.burst /\ Content[d] = rx_out[w].array /\ Content[e] = rx_ring[w]
      /\ Content'[s] = io'.burst /\ Content'[d] = rx_out'[w].array /\ Content'[e] = rx_ring'[w]
  BY <1>3, ContentNow, ContentNext DEF ContentHolds
<1>10. io' = [pc |-> "rx", i |-> io.i, k |-> io.k, burst |-> Tail(io.burst)]
  BY <1>1, <1>2
<1>11. io' \in [pc : {"rx", "tx"}, i : Nat, k : Nat \ {0}, burst : Seq(Ids)]
  BY <1>2, <1>5, <1>10
<1>12. Turn'
  BY <1>10 DEF Turn
<1>13. j \in 0 .. Len(array) /\ EnqueueOrFree(rx_ring[w], array) = rx_ring[w] \o SubSeq(array, 1, j)
       /\ EnqueueOrFree(rx_ring[w], array) \in Seq(Ids)
       /\ Refused(rx_ring[w], array) = Lists(SubSeq(array, j + 1, Len(array)))
  <2> DEFINE r == rx_ring[w]
  <2>1. r \in Seq(Ids) /\ array \in Seq(Ids) /\ j = Taken(r, array)
    BY <1>4, <1>5
  <2> HIDE DEF r, array, j
  <2> QED
    BY <2>1, EnqueueIs DEF r
<1> HIDE DEF w, id, array, j
<1>14. CASE Len(array) < bsz_rx_wr
  <2>1. rx_out' = [rx_out EXCEPT ![w].array = array] /\ UNCHANGED <<rx_ring, freed>>
    BY <1>1, <1>14 DEF app_lcore_io_rx_buffer_to_send, array
  <2>2. rx_out' \in [Workers -> Outs] /\ rx_out'[w].array = array
        /\ \A v \in Workers : v # w => rx_out'[v] = rx_out[v]
    BY <1>2, <1>3, <1>5, <2>1 DEF Outs
  <2>3. TypeOK'
    BY <1>1, <1>2, <1>11, <2>1, <2>2 DEF TypeOK
  <2>4. Unchanged({s, d})
    BY <1>1, <2>1, <2>2 DEF Unchanged
  <2> HIDE DEF s, d, e
  <2>5. Held(Goals, Content', freed')
    <3>1. /\ 1 \in 0 .. Len(Content[s]) /\ \A i \in 1 .. 1 : Home(Goals, d, Content[s][i])
          /\ Content'[s] = SubSeq(Content[s], 1 + 1, Len(Content[s]))
          /\ Content'[d] = Content[d] \o SubSeq(Content[s], 1, 1) /\ freed' = freed
      BY <1>5, <1>7, <1>9, <1>10, <2>1, <2>2
    <3> QED
      BY <1>2, <1>6, <2>4, <3>1, StepOne
  <2> QED
    BY <1>1, <1>12, <2>3, <2>5, RunStep
<1>15. CASE ~(Len(array) < bsz_rx_wr)
  <2>1. /\ rx_ring' = [rx_ring EXCEPT ![w] = EnqueueOrFree(@, array)]
        /\ freed' = freed \cup Refused(rx_ring[w], array)
        /\ rx_out' = [rx_out EXCEPT ![w] = Empty(0)]
    BY <1>1, <1>15 DEF app_lcore_io_rx_buffer_to_send, array
  <2>2. rx_out' \in [Workers -> Outs] /\ rx_out'[w].array = << >>
        /\ \A v \in Workers : v # w => rx_out'[v] = rx_out[v]
    BY <1>2, <1>3, <2>1 DEF Outs, Empty
  <2>3. rx_ring' \in [Workers -> Seq(Ids)] /\ rx_ring'[w] = EnqueueOrFree(rx_ring[w], array)
        /\ \A v \in Workers : v # w => rx_ring'[v] = rx_ring[v]
    BY <1>2, <1>3, <1>13, <2>1
  <2>4. TypeOK'
    BY <1>1, <1>2, <1>11, <2>2, <2>3 DEF TypeOK
  <2>5. Unchanged({s, d, e})
    BY <1>1, <2>2, <2>3 DEF Unchanged
  <2> HIDE DEF s, d, e
  <2>6. Held(Goals, Content', freed')
    <3>1. /\ 1 \in 0 .. Len(Content[s]) /\ \A i \in 1 .. 1 : Home(Goals, d, Content[s][i])
          /\ Content'[s] = SubSeq(Content[s], 1 + 1, Len(Content[s]))
          /\ array = Content[d] \o SubSeq(Content[s], 1, 1)
          /\ Content'[d] = << >> /\ Content'[e] = Content[e] \o SubSeq(array, 1, j)
          /\ freed' = freed \cup Lists(SubSeq(array, j + 1, Len(array)))
      BY <1>5, <1>7, <1>9, <1>10, <1>13, <2>1, <2>2, <2>3
    <3> QED
      BY <1>2, <1>6, <1>8, <1>13, <2>5, <3>1, StepTwo
  <2> QED
    BY <1>1, <1>12, <2>4, <2>6, RunStep
<1> QED
  BY <1>14, <1>15

LEMMA TxStep == LBInv /\ app_lcore_io_tx => LBInv'
<1> SUFFICES ASSUME LBInv, app_lcore_io_tx PROVE LBInv'
  OBVIOUS
<1> DEFINE x == TxTurn(io.k)  p == x[1]  array == tx_out[p].array \o SubSeq(tx_ring[x], 1, bsz_tx_rd)
           s == <<"txring", x>>  d == <<"tx", p>>  e == <<"sent", p>>  n == bsz_tx_rd
           last == Len(nic_ports) * n_workers
<1>1. /\ phase = "run" /\ io.pc = "tx"
      /\ io' = IF io.k = last THEN [io EXCEPT !.pc = "rx", !.k = 1, !.i = @ + 1] ELSE [io EXCEPT !.k = @ + 1]
      /\ UNCHANGED <<phase, rules, lpm>> /\ UNCHANGED <<nic, rx_out, rx_ring, wk, w_out>>
      /\ IF Len(tx_ring[x]) < n THEN UNCHANGED <<tx_ring, tx_out, sent, freed>>
         ELSE /\ tx_ring' = [tx_ring EXCEPT ![x] = SubSeq(@, n + 1, Len(@))]
              /\ IF Len(array) < bsz_tx_wr
                 THEN tx_out' = [tx_out EXCEPT ![p].array = array] /\ UNCHANGED <<sent, freed>>
                 ELSE \E j \in 0 .. Len(array) :
                        /\ sent' = [sent EXCEPT ![p] = @ \o SubSeq(array, 1, j)]
                        /\ freed' = freed \cup Lists(SubSeq(array, j + 1, Len(array)))
                        /\ tx_out' = [tx_out EXCEPT ![p] = Empty(0)]
  BY DEF app_lcore_io_tx, At, IoRest
<1>2. /\ TypeOK /\ Held(Goals, Content, freed) /\ io \in [pc : {"rx", "tx"}, i : Nat, k : Nat \ {0}, burst : Seq(Ids)]
      /\ tx_out \in [Ports -> Outs] /\ tx_ring \in [Pairs -> Seq(Ids)] /\ sent \in [Ports -> Seq(Ids)]
      /\ io.k <= last
  BY <1>1 DEF LBInv, TypeOK, Turn
<1>3. last \in Nat \ {0} /\ io.k \in 1 .. last
  BY <1>2, Turns
<1>4. x \in Pairs /\ x = <<x[1], x[2]>> /\ p \in Ports
  <2>1. x \in Pairs /\ x = <<x[1], x[2]>> /\ x[1] \in nic_tx_ports
    BY <1>3, Turns
  <2> QED
    BY <2>1, Consts
<1> HIDE DEF x, last
<1>5. /\ io' \in [pc : {"rx", "tx"}, i : Nat, k : Nat \ {0}, burst : Seq(Ids)]
      /\ io'.burst = io.burst /\ (io'.pc = "tx" => io'.k <= last)
  <2>1. CASE io.k = last
    <3>1. io' = [io EXCEPT !.pc = "rx", !.k = 1, !.i = @ + 1]
      BY <1>1, <2>1
    <3>2. io' = [pc |-> "rx", i |-> io.i + 1, k |-> 1, burst |-> io.burst]
      BY <1>2, <3>1
    <3> QED
      BY <1>2, <3>2
  <2>2. CASE io.k # last
    <3>1. io' = [io EXCEPT !.k = @ + 1]
      BY <1>1, <2>2
    <3>2. io' = [pc |-> "tx", i |-> io.i, k |-> io.k + 1, burst |-> io.burst]
      BY <1>1, <1>2, <3>1
    <3> QED
      BY <1>2, <1>3, <2>2, <3>2
  <2> QED
    BY <2>1, <2>2
<1>6. Turn'
  BY <1>5 DEF Turn, last
<1>7. CASE Len(tx_ring[x]) < n
  <2>1. UNCHANGED <<tx_ring, tx_out, sent, freed>>
    BY <1>1, <1>7
  <2>2. TypeOK'
    BY <1>1, <1>2, <1>5, <2>1 DEF TypeOK
  <2>3. Content' = Content
    BY <1>1, <1>5, <2>1 DEF Content
  <2>4. Held(Goals, Content', freed')
    BY <1>2, <2>1, <2>3
  <2> QED
    BY <1>1, <1>6, <2>2, <2>4, RunStep
<1>8. CASE ~(Len(tx_ring[x]) < n)
  <2>1. /\ s \in Places /\ d \in Places /\ e \in Places /\ Stage(d) = Stage(s) + 1 /\ Stage(e) = Stage(d) + 1
    <3>1. Stage(s) = 7 /\ Stage(d) = 8 /\ Stage(e) = 9
      BY StageIs
    <3>2. s \in Places /\ d \in Places /\ e \in Places
      BY <1>4, PlaceTypes
    <3> HIDE DEF s, d, e
    <3> QED
      BY <3>1, <3>2
  <2>2. /\ Content[s] = tx_ring[x] /\ Content[d] = tx_out[p].array /\ Content[e] = sent[p]
        /\ Content'[s] = tx_ring'[x] /\ Content'[d] = tx_out'[p].array /\ Content'[e] = sent'[p]
    BY <1>4, ContentNow, ContentNext DEF ContentHolds
  <2>3. tx_ring[x] \in Seq(Ids) /\ tx_out[p].array \in Seq(Ids) /\ sent[p] \in Seq(Ids) /\ n \in Nat
    <3>1. n \in Nat
      BY LoadBalancerAssumption
    <3> QED
      BY <1>2, <1>4, <3>1 DEF Outs
  <2>4. /\ n \in 0 .. Len(tx_ring[x]) /\ SubSeq(tx_ring[x], n + 1, Len(tx_ring[x])) \in Seq(Ids)
        /\ array \in Seq(Ids) /\ Len(array) \in Nat
    <3> DEFINE t == tx_ring[x]  u == tx_out[p].array
    <3>1. t \in Seq(Ids) /\ u \in Seq(Ids) /\ n \in Nat /\ ~(Len(t) < n)
      BY <1>8, <2>3
    <3> HIDE DEF t, u, n
    <3>2. Len(t) \in Nat
      BY <3>1, LenProperties
    <3>3. n \in 0 .. Len(t) /\ Len(t) \in n .. Len(t)
      BY <3>1, <3>2
    <3>4. SubSeq(t, n + 1, Len(t)) \in Seq(Ids) /\ u \o SubSeq(t, 1, n) \in Seq(Ids)
      BY <3>1, <3>3, Shorter, Joined
    <3>5. Len(u \o SubSeq(t, 1, n)) \in Nat
      BY <3>4, LenProperties
    <3> QED
      BY <3>3, <3>4, <3>5 DEF t, u, n
  <2>5. \A i \in 1 .. n : Home(Goals, d, Content[s][i])
    <3> SUFFICES ASSUME NEW i \in 1 .. n PROVE Home(Goals, d, Content[s][i])
      OBVIOUS
    <3>1. Len(Content[s]) \in Nat /\ n <= Len(Content[s]) /\ n \in Nat
      BY <2>2, <2>3, <2>4, LenProperties
    <3>2. i \in 1 .. Len(Content[s])
      BY <3>1
    <3>3. Home(Goals, s, Content[s][i])
      BY <1>2, <2>1, <3>2 DEF Held
    <3>4. x = <<Goals[Content[s][i]], Worker(Content[s][i])>>
      BY <3>3 DEF Home
    <3> HIDE DEF n
    <3>5. p = Goals[Content[s][i]]
      BY <3>4
    <3> HIDE DEF s, p
    <3> QED
      BY <3>5, HomeIs
  <2>6. \A id : Home(Goals, d, id) => Home(Goals, e, id)
    BY DEF Home
  <2>7. /\ tx_ring' \in [Pairs -> Seq(Ids)] /\ tx_ring'[x] = SubSeq(tx_ring[x], n + 1, Len(tx_ring[x]))
        /\ \A y \in Pairs : y # x => tx_ring'[y] = tx_ring[y]
    <3>1. tx_ring' = [tx_ring EXCEPT ![x] = SubSeq(@, n + 1, Len(@))]
      BY <1>1, <1>8
    <3> HIDE DEF n
    <3> QED
      BY <1>2, <1>4, <2>4, <3>1
  <2> HIDE DEF n
  <2>8. CASE Len(array) < bsz_tx_wr
    <3>1. tx_out' = [tx_out EXCEPT ![p].array = array] /\ UNCHANGED <<sent, freed>>
      BY <1>1, <1>8, <2>8 DEF n
    <3>2. array = Content[d] \o SubSeq(Content[s], 1, n)
      BY <2>2 DEF n
    <3> HIDE DEF array, p
    <3>3. tx_out' \in [Ports -> Outs] /\ tx_out'[p].array = array /\ \A q \in Ports : q # p => tx_out'[q] = tx_out[q]
      BY <1>2, <1>4, <2>4, <3>1 DEF Outs
    <3>4. TypeOK'
      BY <1>1, <1>2, <1>5, <2>7, <3>1, <3>3 DEF TypeOK
    <3>5. Unchanged({s, d})
      BY <1>1, <1>5, <2>7, <3>1, <3>3 DEF Unchanged
    <3> HIDE DEF s, d, e
    <3>6. Held(Goals, Content', freed')
      <4>1. /\ n \in 0 .. Len(Content[s]) /\ Content'[s] = SubSeq(Content[s], n + 1, Len(Content[s]))
            /\ Content'[d] = Content[d] \o SubSeq(Content[s], 1, n) /\ freed' = freed
        BY <2>2, <2>4, <2>7, <3>1, <3>2, <3>3
      <4> QED
        BY <1>2, <2>1, <2>5, <3>5, <4>1, StepOne
    <3> QED
      BY <1>1, <1>6, <3>4, <3>6, RunStep
  <2>9. CASE ~(Len(array) < bsz_tx_wr)
    <3>1. PICK j \in 0 .. Len(array) :
                 /\ sent' = [sent EXCEPT ![p] = @ \o SubSeq(array, 1, j)]
                 /\ freed' = freed \cup Lists(SubSeq(array, j + 1, Len(array)))
                 /\ tx_out' = [tx_out EXCEPT ![p] = Empty(0)]
      BY <1>1, <1>8, <2>9 DEF n
    <3>2. array = Content[d] \o SubSeq(Content[s], 1, n)
      BY <2>2 DEF n
    <3> HIDE DEF array, p
    <3>3. tx_out' \in [Ports -> Outs] /\ tx_out'[p].array = << >> /\ \A q \in Ports : q # p => tx_out'[q] = tx_out[q]
      BY <1>2, <1>4, <3>1 DEF Outs, Empty
    <3>4. sent[p] \o SubSeq(array, 1, j) \in Seq(Ids)
      <4> DEFINE u == sent[p]
      <4>1. u \in Seq(Ids) /\ array \in Seq(Ids)
        BY <2>3, <2>4
      <4> HIDE DEF u
      <4> QED
        BY <4>1, Joined DEF u
    <3>5. sent' \in [Ports -> Seq(Ids)] /\ sent'[p] = sent[p] \o SubSeq(array, 1, j)
          /\ \A q \in Ports : q # p => sent'[q] = sent[q]
      BY <1>2, <1>4, <3>1, <3>4
    <3>6. TypeOK'
      BY <1>1, <1>2, <1>5, <2>7, <3>3, <3>5 DEF TypeOK
    <3>7. Unchanged({s, d, e})
      BY <1>1, <1>5, <2>7, <3>3, <3>5 DEF Unchanged
    <3> HIDE DEF s, d, e
    <3>8. Held(Goals, Content', freed')
      <4>1. /\ n \in 0 .. Len(Content[s]) /\ Content'[s] = SubSeq(Content[s], n + 1, Len(Content[s]))
            /\ Content'[d] = << >> /\ Content'[e] = Content[e] \o SubSeq(array, 1, j)
            /\ freed' = freed \cup Lists(SubSeq(array, j + 1, Len(array)))
        BY <2>2, <2>4, <2>7, <3>1, <3>3, <3>5
      <4> QED
        BY <1>2, <2>1, <2>5, <2>6, <3>2, <3>7, <4>1, StepTwo
    <3> QED
      BY <1>1, <1>6, <3>6, <3>8, RunStep
  <2> QED
    BY <2>8, <2>9
<1> QED
  BY <1>7, <1>8

-----------------------------------------------------------------------------
(* The steps of a worker lcore.                                             *)

LEMMA WorkerStep == ASSUME NEW w \in Workers PROVE LBInv /\ app_lcore_worker(w) => LBInv'
<1> SUFFICES ASSUME LBInv, app_lcore_worker(w) PROVE LBInv'
  OBVIOUS
<1> DEFINE s == <<"rxring", w>>  d == <<"bulk", w>>  n == bsz_rd
<1>1. /\ phase = "run" /\ wk[w].bulk = << >> /\ UNCHANGED <<phase, rules, lpm>>
      /\ UNCHANGED <<nic, io, rx_out, tx_out, sent, w_out, tx_ring, freed>>
  BY DEF app_lcore_worker, WorkerRest
<1>2. /\ TypeOK /\ Held(Goals, Content, freed)
      /\ wk \in [Workers -> [i : Nat, bulk : Seq(Ids)]] /\ rx_ring \in [Workers -> Seq(Ids)]
  BY DEF LBInv, TypeOK
<1>3. Turn'
  BY <1>1 DEF LBInv, Turn
<1>4. wk[w] \in [i : Nat, bulk : Seq(Ids)] /\ rx_ring[w] \in Seq(Ids)
  BY <1>2
<1>5. CASE Len(rx_ring[w]) < n
  <2>1. wk' = [wk EXCEPT ![w].i = @ + 1] /\ UNCHANGED rx_ring
    BY <1>5 DEF app_lcore_worker
  <2>2. wk' \in [Workers -> [i : Nat, bulk : Seq(Ids)]] /\ \A v \in Workers : wk'[v].bulk = wk[v].bulk
    <3> DEFINE y == [wk[w] EXCEPT !.i = @ + 1]
    <3>1. y \in [i : Nat, bulk : Seq(Ids)] /\ y.bulk = wk[w].bulk
      BY <1>4
    <3>2. wk' = [wk EXCEPT ![w] = y]
      BY <2>1
    <3> HIDE DEF y
    <3>3. wk' \in [Workers -> [i : Nat, bulk : Seq(Ids)]] /\ wk'[w] = y /\ \A v \in Workers : v # w => wk'[v] = wk[v]
      BY <1>2, <3>1, <3>2
    <3> QED
      BY <3>1, <3>3
  <2>3. TypeOK'
    BY <1>1, <1>2, <2>1, <2>2 DEF TypeOK
  <2>4. Unchanged({})
    BY <1>1, <2>1, <2>2 DEF Unchanged
  <2>5. Content' = Content
    <3>1. \A l \in Places : Content'[l] = Content[l]
      BY <2>4, ContentSame
    <3>2. Content = [l \in Places |-> Content[l]] /\ Content' = [l \in Places |-> Content'[l]]
      BY ContentIsAFunction, ContentNextIsAFunction
    <3> QED
      BY <3>1, <3>2
  <2>6. Held(Goals, Content', freed')
    BY <1>1, <1>2, <2>5
  <2> QED
    BY <1>1, <1>3, <2>3, <2>6, RunStep
<1>6. CASE ~(Len(rx_ring[w]) < n)
  <2>1. /\ wk' = [wk EXCEPT ![w] = [i |-> @.i + 1, bulk |-> SubSeq(rx_ring[w], 1, n)]]
        /\ rx_ring' = [rx_ring EXCEPT ![w] = SubSeq(@, n + 1, Len(@))]
    BY <1>6 DEF app_lcore_worker
  <2>2. s \in Places /\ d \in Places /\ Stage(d) = Stage(s) + 1
    <3>1. Stage(s) = 4 /\ Stage(d) = 5
      BY StageIs
    <3>2. s \in Places /\ d \in Places
      BY PlaceTypes
    <3> HIDE DEF s, d
    <3> QED
      BY <3>1, <3>2
  <2>3. /\ n \in 0 .. Len(rx_ring[w]) /\ SubSeq(rx_ring[w], n + 1, Len(rx_ring[w])) \in Seq(Ids)
        /\ SubSeq(rx_ring[w], 1, n) \in Seq(Ids)
        /\ << >> \o SubSeq(rx_ring[w], 1, n) = SubSeq(rx_ring[w], 1, n)
    <3> DEFINE t == rx_ring[w]
    <3>1. t \in Seq(Ids) /\ ~(Len(t) < n) /\ n \in Nat
      BY <1>4, <1>6, LoadBalancerAssumption
    <3> HIDE DEF t, n
    <3>2. Len(t) \in Nat
      BY <3>1, LenProperties
    <3>3. n \in 0 .. Len(t) /\ Len(t) \in n .. Len(t) /\ 0 \in 0 .. Len(t) /\ 0 + 1 = 1
      BY <3>1, <3>2
    <3>4. SubSeq(t, n + 1, Len(t)) \in Seq(Ids) /\ SubSeq(t, 0 + 1, n) \in Seq(Ids)
      BY <3>1, <3>3, Shorter
    <3>5. SubSeq(t, 1, n) \in Seq(Ids)
      BY <3>3, <3>4
    <3> QED
      BY <3>3, <3>4, <3>5, ConcatEmptySeq DEF t
  <2>4. /\ Content[s] = rx_ring[w] /\ Content[d] = << >>
        /\ Content'[s] = rx_ring'[w] /\ Content'[d] = wk'[w].bulk
    BY <1>1, ContentNow, ContentNext DEF ContentHolds
  <2> HIDE DEF n
  <2>5. \A i \in 1 .. n : Home(Goals, d, Content[s][i])
    <3> SUFFICES ASSUME NEW i \in 1 .. n PROVE Home(Goals, d, Content[s][i])
      OBVIOUS
    <3>1. Len(Content[s]) \in Nat
      BY <1>4, <2>4, LenProperties
    <3>2. i \in 1 .. Len(Content[s])
      BY <2>3, <2>4, <3>1
    <3>3. Home(Goals, s, Content[s][i])
      BY <1>2, <2>2, <3>2 DEF Held
    <3> QED
      BY <3>3 DEF Home
  <2>6. wk' \in [Workers -> [i : Nat, bulk : Seq(Ids)]] /\ wk'[w].bulk = SubSeq(rx_ring[w], 1, n)
        /\ \A v \in Workers : v # w => wk'[v] = wk[v]
    <3>1. wk[w].i + 1 \in Nat
      BY <1>4
    <3> QED
      BY <1>2, <2>1, <2>3, <3>1
  <2>7. rx_ring' \in [Workers -> Seq(Ids)] /\ rx_ring'[w] = SubSeq(rx_ring[w], n + 1, Len(rx_ring[w]))
        /\ \A v \in Workers : v # w => rx_ring'[v] = rx_ring[v]
    BY <1>2, <2>1, <2>3
  <2>8. TypeOK'
    BY <1>1, <1>2, <2>6, <2>7 DEF TypeOK
  <2>9. Unchanged({s, d})
    BY <1>1, <2>6, <2>7 DEF Unchanged
  <2> HIDE DEF s, d
  <2>10. Held(Goals, Content', freed')
    <3>1. /\ n \in 0 .. Len(Content[s]) /\ Content'[s] = SubSeq(Content[s], n + 1, Len(Content[s]))
          /\ Content'[d] = Content[d] \o SubSeq(Content[s], 1, n) /\ freed' = freed
      BY <1>1, <2>3, <2>4, <2>6, <2>7
    <3> QED
      BY <1>2, <2>2, <2>5, <2>9, <3>1, StepOne
  <2> QED
    BY <1>1, <1>3, <2>8, <2>10, RunStep
<1> QED
  BY <1>5, <1>6

LEMMA PacketStep == ASSUME NEW w \in Workers PROVE LBInv /\ WorkerPacket(w) => LBInv'
<1> SUFFICES ASSUME LBInv, WorkerPacket(w) PROVE LBInv'
  OBVIOUS
<1> DEFINE bulk == wk[w].bulk  id == Head(bulk)  x == <<Route(id), w>>  array == Append(w_out[x].array, id)
           j == Taken(tx_ring[x], array)
           s == <<"bulk", w>>  d == <<"wout", x>>  e == <<"txring", x>>
<1>1. /\ phase = "run" /\ bulk # << >> /\ wk' = [wk EXCEPT ![w].bulk = Tail(@)] /\ UNCHANGED rx_ring
      /\ UNCHANGED <<phase, rules, lpm>> /\ UNCHANGED <<nic, io, rx_out, tx_out, sent>>
      /\ IF Len(array) < bsz_wr
         THEN w_out' = [w_out EXCEPT ![x].array = array] /\ UNCHANGED <<tx_ring, freed>>
         ELSE /\ tx_ring' = [tx_ring EXCEPT ![x] = EnqueueOrFree(@, array)]
              /\ freed' = freed \cup Refused(tx_ring[x], array)
              /\ w_out' = [w_out EXCEPT ![x] = Empty(0)]
  BY DEF WorkerPacket, WorkerRest
<1>2. /\ TypeOK /\ Held(Goals, Content, freed) /\ wk \in [Workers -> [i : Nat, bulk : Seq(Ids)]]
      /\ w_out \in [Ports \X Workers -> Outs] /\ tx_ring \in [Pairs -> Seq(Ids)]
  BY DEF LBInv, TypeOK
<1>3. bulk \in Seq(Ids) /\ wk[w].i \in Nat /\ id \in Ids
  <2>1. bulk \in Seq(Ids) /\ wk[w].i \in Nat
    BY <1>2
  <2> QED
    BY <1>1, <2>1, HeadTailProperties
<1>4. Worker(id) = w /\ x = <<Goals[id], Worker(id)>> /\ x \in Pairs /\ x \in Ports \X Workers
  <2>1. Content[s] = bulk
    BY ContentNow DEF ContentHolds
  <2>2. s \in Places
    BY PlaceTypes
  <2>3. 1 \in 1 .. Len(bulk) /\ id = bulk[1]
    <3>1. Len(bulk) \in Nat /\ Len(bulk) # 0
      BY <1>1, <1>3, EmptySeq
    <3> HIDE DEF bulk
    <3> QED
      BY <1>1, <1>3, <3>1, HeadTailProperties
  <2>4. Home(Goals, s, id)
    <3> HIDE DEF s, bulk, id
    <3> QED
      BY <1>2, <2>1, <2>2, <2>3 DEF Held
  <2>5. Worker(id) = w
    BY <2>4 DEF Home
  <2>6. Route(id) = Goals[id] /\ Goals[id] \in nic_tx_ports
    BY <1>1, <1>3, RouteIs
  <2>7. x \in Pairs
    BY <2>6 DEF Pairs
  <2> QED
    BY <2>5, <2>6, <2>7, Consts
<1> HIDE DEF x
<1>5. w_out[x] \in Outs /\ w_out[x].array \in Seq(Ids) /\ tx_ring[x] \in Seq(Ids)
  BY <1>2, <1>4 DEF Outs
<1>6. /\ id = bulk[1] /\ 1 \in 0 .. Len(bulk)
      /\ Tail(bulk) = SubSeq(bulk, 1 + 1, Len(bulk)) /\ Tail(bulk) \in Seq(Ids)
      /\ array = w_out[x].array \o SubSeq(bulk, 1, 1) /\ array \in Seq(Ids)
  <2> DEFINE t == bulk  a == w_out[x].array
  <2>1. t \in Seq(Ids) /\ t # << >> /\ a \in Seq(Ids)
    BY <1>1, <1>3, <1>5
  <2> HIDE DEF t, a
  <2>2. /\ t[1] = Head(t) /\ 1 \in 0 .. Len(t)
        /\ Tail(t) = SubSeq(t, 1 + 1, Len(t)) /\ Tail(t) \in Seq(Ids)
        /\ Append(a, Head(t)) = a \o SubSeq(t, 1, 1)
        /\ Append(a, Head(t)) \in Seq(Ids)
    BY <2>1, HeadIs
  <2> QED
    BY <2>2 DEF t, a
<1>7. s \in Places /\ d \in Places /\ e \in Places /\ Stage(d) = Stage(s) + 1 /\ Stage(e) = Stage(d) + 1
  <2>1. Stage(s) = 5 /\ Stage(d) = 6 /\ Stage(e) = 7
    BY StageIs
  <2>2. s \in Places /\ d \in Places /\ e \in Places
    BY <1>4, PlaceTypes
  <2> HIDE DEF s, d, e
  <2> QED
    BY <2>1, <2>2
<1>8. \A i \in 1 .. 1 : Home(Goals, d, bulk[i])
  <2>1. Home(Goals, d, id)
    BY <1>4, HomeIs
  <2> QED
    BY <1>6, <2>1
<1>9. \A y : Home(Goals, d, y) => Home(Goals, e, y)
  BY DEF Home
<1>10. /\ Content[s] = bulk /\ Content[d] = w_out[x].array /\ Content[e] = tx_ring[x]
       /\ Content'[s] = wk'[w].bulk /\ Content'[d] = w_out'[x].array /\ Content'[e] = tx_ring'[x]
  BY <1>4, ContentNow, ContentNext DEF ContentHolds
<1>11. /\ wk' \in [Workers -> [i : Nat, bulk : Seq(Ids)]] /\ wk'[w].bulk = Tail(bulk)
       /\ \A v \in Workers : v # w => wk'[v] = wk[v]
  <2> DEFINE y == [wk[w] EXCEPT !.bulk = Tail(bulk)]
  <2>1. wk' = [wk EXCEPT ![w] = y]
    BY <1>1
  <2>2. wk[w] \in [i : Nat, bulk : Seq(Ids)]
    BY <1>2
  <2> HIDE DEF bulk
  <2>3. y \in [i : Nat, bulk : Seq(Ids)] /\ y.bulk = Tail(bulk)
    BY <1>6, <2>2
  <2> HIDE DEF y
  <2>4. wk' \in [Workers -> [i : Nat, bulk : Seq(Ids)]] /\ wk'[w] = y /\ \A v \in Workers : v # w => wk'[v] = wk[v]
    BY <1>2, <2>1, <2>3
  <2> QED
    BY <2>3, <2>4
<1>12. Turn'
  BY <1>1 DEF LBInv, Turn
<1>13. j \in 0 .. Len(array) /\ EnqueueOrFree(tx_ring[x], array) = tx_ring[x] \o SubSeq(array, 1, j)
       /\ EnqueueOrFree(tx_ring[x], array) \in Seq(Ids)
       /\ Refused(tx_ring[x], array) = Lists(SubSeq(array, j + 1, Len(array)))
  <2> DEFINE r == tx_ring[x]
  <2>1. r \in Seq(Ids) /\ array \in Seq(Ids) /\ j = Taken(r, array)
    BY <1>5, <1>6
  <2> HIDE DEF r, array, j
  <2> QED
    BY <2>1, EnqueueIs DEF r
<1> HIDE DEF bulk, id, array, j
<1>14. CASE Len(array) < bsz_wr
  <2>1. w_out' = [w_out EXCEPT ![x].array = array] /\ UNCHANGED <<tx_ring, freed>>
    BY <1>1, <1>14
  <2>2. w_out' \in [Ports \X Workers -> Outs] /\ w_out'[x].array = array
        /\ \A y \in Ports \X Workers : y # x => w_out'[y] = w_out[y]
    <3> DEFINE y == [w_out[x] EXCEPT !.array = array]  PW == Ports \X Workers
    <3>1. w_out' = [w_out EXCEPT ![x] = y]
      BY <2>1
    <3>2. y \in Outs /\ y.array = array
      BY <1>5, <1>6 DEF Outs
    <3>3. w_out \in [PW -> Outs] /\ x \in PW
      BY <1>2, <1>4
    <3> HIDE DEF PW, y
    <3>4. w_out' \in [PW -> Outs] /\ w_out'[x] = y /\ \A z \in PW : z # x => w_out'[z] = w_out[z]
      BY <3>1, <3>2, <3>3
    <3> QED
      BY <3>2, <3>4 DEF PW
  <2>3. TypeOK'
    BY <1>1, <1>2, <1>11, <2>1, <2>2 DEF TypeOK
  <2>4. Unchanged({s, d})
    BY <1>1, <1>11, <2>1, <2>2 DEF Unchanged
  <2> HIDE DEF s, d, e
  <2>5. Held(Goals, Content', freed')
    <3>1. /\ 1 \in 0 .. Len(Content[s]) /\ \A i \in 1 .. 1 : Home(Goals, d, Content[s][i])
          /\ Content'[s] = SubSeq(Content[s], 1 + 1, Len(Content[s]))
          /\ Content'[d] = Content[d] \o SubSeq(Content[s], 1, 1) /\ freed' = freed
      BY <1>6, <1>8, <1>10, <1>11, <2>1, <2>2
    <3> QED
      BY <1>2, <1>7, <2>4, <3>1, StepOne
  <2> QED
    BY <1>1, <1>12, <2>3, <2>5, RunStep
<1>15. CASE ~(Len(array) < bsz_wr)
  <2>1. /\ tx_ring' = [tx_ring EXCEPT ![x] = EnqueueOrFree(@, array)]
        /\ freed' = freed \cup Refused(tx_ring[x], array)
        /\ w_out' = [w_out EXCEPT ![x] = Empty(0)]
    BY <1>1, <1>15
  <2>2. w_out' \in [Ports \X Workers -> Outs] /\ w_out'[x].array = << >>
        /\ \A y \in Ports \X Workers : y # x => w_out'[y] = w_out[y]
    <3>1. Empty(0) \in Outs /\ Empty(0).array = << >>
      BY DEF Outs, Empty
    <3> DEFINE PW == Ports \X Workers
    <3>2. w_out \in [PW -> Outs] /\ x \in PW
      BY <1>2, <1>4
    <3> HIDE DEF PW
    <3>3. w_out' \in [PW -> Outs] /\ w_out'[x] = Empty(0) /\ \A y \in PW : y # x => w_out'[y] = w_out[y]
      BY <2>1, <3>1, <3>2
    <3> QED
      BY <3>1, <3>3 DEF PW
  <2>3. tx_ring' \in [Pairs -> Seq(Ids)] /\ tx_ring'[x] = EnqueueOrFree(tx_ring[x], array)
        /\ \A y \in Pairs : y # x => tx_ring'[y] = tx_ring[y]
    BY <1>2, <1>4, <1>13, <2>1
  <2>4. TypeOK'
    BY <1>1, <1>2, <1>11, <2>2, <2>3 DEF TypeOK
  <2>5. Unchanged({s, d, e})
    BY <1>1, <1>11, <2>2, <2>3 DEF Unchanged
  <2> HIDE DEF s, d, e
  <2>6. Held(Goals, Content', freed')
    <3>1. /\ 1 \in 0 .. Len(Content[s]) /\ \A i \in 1 .. 1 : Home(Goals, d, Content[s][i])
          /\ Content'[s] = SubSeq(Content[s], 1 + 1, Len(Content[s]))
          /\ array = Content[d] \o SubSeq(Content[s], 1, 1)
          /\ Content'[d] = << >> /\ Content'[e] = Content[e] \o SubSeq(array, 1, j)
          /\ freed' = freed \cup Lists(SubSeq(array, j + 1, Len(array)))
      BY <1>6, <1>8, <1>10, <1>11, <1>13, <2>1, <2>2, <2>3
    <3> QED
      BY <1>2, <1>7, <1>9, <1>13, <2>5, <3>1, StepTwo
  <2> QED
    BY <1>1, <1>12, <2>4, <2>6, RunStep
<1> QED
  BY <1>14, <1>15

-----------------------------------------------------------------------------
(* The flushes: several arrays are emptied at once.                         *)

\* where the packets of an output array go
Onto(s) == <<CASE s[1] = "rx" -> "rxring" [] s[1] = "wout" -> "txring" [] OTHER -> "sent", s[2]>>

LEMMA OntoIs ==
  ASSUME NEW s \in Places, s[1] \in {"rx", "wout", "tx"}
  PROVE  /\ s = <<s[1], s[2]>> /\ Stage(Onto(s)) = Stage(s) + 1 /\ Onto(s)[2] = s[2]
         /\ Stage(s) \in {3, 6, 8}
         /\ \A route, id : Home(route, s, id) => Home(route, Onto(s), id)
<1>1. s = <<s[1], s[2]>>
  BY DEF Places
<1>2. CASE s[1] = "rx"
  <2>1. Onto(s) = <<"rxring", s[2]>>
    BY <1>2 DEF Onto
  <2>2. Stage(Onto(s)) = 4 /\ Stage(s) = 3
    BY <1>2, <2>1 DEF Stage, Stages
  <2>3. \A route, id : Home(route, s, id) => Home(route, Onto(s), id)
    BY <1>2, <2>1 DEF Home
  <2>4. Onto(s)[2] = s[2]
    BY <2>1
  <2> QED
    BY <1>1, <2>2, <2>3, <2>4
<1>3. CASE s[1] = "wout"
  <2>1. Onto(s) = <<"txring", s[2]>>
    BY <1>3 DEF Onto
  <2>2. Stage(Onto(s)) = 7 /\ Stage(s) = 6
    BY <1>3, <2>1 DEF Stage, Stages
  <2>3. \A route, id : Home(route, s, id) => Home(route, Onto(s), id)
    BY <1>3, <2>1 DEF Home
  <2>4. Onto(s)[2] = s[2]
    BY <2>1
  <2> QED
    BY <1>1, <2>2, <2>3, <2>4
<1>4. CASE s[1] = "tx"
  <2>1. Onto(s) = <<"sent", s[2]>>
    BY <1>4 DEF Onto
  <2>2. Stage(Onto(s)) = 9 /\ Stage(s) = 8
    BY <1>4, <2>1 DEF Stage, Stages
  <2>3. \A route, id : Home(route, s, id) => Home(route, Onto(s), id)
    BY <1>4, <2>1 DEF Home
  <2>4. Onto(s)[2] = s[2]
    BY <2>1
  <2> QED
    BY <1>1, <2>2, <2>3, <2>4
<1> QED
  BY <1>2, <1>3, <1>4

\* each array of S is emptied: k[s] of its packets go on and the others are freed
LEMMA StepAll ==
  ASSUME Held(Goals, Content, freed), NEW S \in SUBSET Places, NEW k \in [S -> Nat],
         \A s \in S : s[1] \in {"rx", "wout", "tx"} /\ Onto(s) \in Places,
         \A s \in S : k[s] <= Len(Content[s]) /\ Content'[s] = << >>
                      /\ Content'[Onto(s)] = Content[Onto(s)] \o SubSeq(Content[s], 1, k[s]),
         Unchanged(S \cup {Onto(s) : s \in S}),
         freed' = freed \cup UNION {Lists(SubSeq(Content[s], k[s] + 1, Len(Content[s]))) : s \in S}
  PROVE  Held(Goals, Content', freed')
<1> DEFINE c == Content  D == [s \in S |-> Onto(s)]  n == [s \in S |-> Len(c[s])]
<1>1. \A s \in S : c[s] \in Seq(Ids) /\ Len(c[s]) \in Nat
  <2>1. \A s \in S : c[s] \in Seq(Ids)
    BY DEF Held
  <2> QED
    BY <2>1, LenProperties
<1>2. \A s \in S : SubSeq(c[s], Len(c[s]) + 1, Len(c[s])) = << >>
  <2> SUFFICES ASSUME NEW s \in S PROVE SubSeq(c[s], Len(c[s]) + 1, Len(c[s])) = << >>
    OBVIOUS
  <2> DEFINE m == Len(c[s])
  <2>1. m \in Nat
    BY <1>1
  <2> HIDE DEF m
  <2>2. m + 1 \in Int /\ m \in Int /\ m < m + 1
    BY <2>1
  <2> HIDE DEF c
  <2>3. SubSeq(c[s], m + 1, m) = << >>
    BY <2>2, SubSeqEmpty
  <2> QED
    BY <2>3 DEF m
<1>3. \A s \in S : Stage(Onto(s)) = Stage(s) + 1 /\ Stage(s) \in {3, 6, 8} /\ s = <<s[1], s[2]>> /\ Onto(s)[2] = s[2]
  BY OntoIs
<1>4. \A s \in S : D[s] \notin S
  <2> SUFFICES ASSUME NEW s \in S, Onto(s) \in S PROVE FALSE
    OBVIOUS
  <2>1. Stage(Onto(s)) \in {3, 6, 8} /\ Stage(Onto(s)) = Stage(s) + 1 /\ Stage(s) \in {3, 6, 8}
    BY <1>3
  <2> QED
    BY <2>1
<1>5. ASSUME NEW s \in S, NEW t \in S, D[s] = D[t] PROVE s = t
  <2>1. Onto(s) = Onto(t)
    BY <1>5
  <2>2. s[2] = t[2]
    BY <1>3, <2>1, SMTT(30)
  <2>3. Stage(s) = Stage(t)
    <3>1. Stage(Onto(s)) = Stage(s) + 1 /\ Stage(s) \in {3, 6, 8}
      BY <1>3
    <3>2. Stage(Onto(t)) = Stage(t) + 1 /\ Stage(t) \in {3, 6, 8}
      BY <1>3
    <3> QED
      BY <2>1, <3>1, <3>2
  <2>4. s[1] \in {"rx", "wout", "tx"} /\ t[1] \in {"rx", "wout", "tx"}
    OBVIOUS
  <2>5. s[1] = t[1]
    BY <2>3, <2>4 DEF Stage, Stages
  <2> QED
    BY <1>3, <2>2, <2>5
<1>6. \A l \in Places \ S : (\A s \in S : D[s] # l) => c'[l] = c[l]
  <2> SUFFICES ASSUME NEW l \in Places \ S, \A s \in S : D[s] # l PROVE c'[l] = c[l]
    OBVIOUS
  <2>1. l \notin S \cup {Onto(s) : s \in S}
    OBVIOUS
  <2> QED
    BY <2>1, ContentSame
<1>7. freed' = freed \cup UNION {Lists(SubSeq(c[s], k[s] + 1, n[s])) : s \in S}
  OBVIOUS
<1>8. D \in [S -> Places] /\ n \in [S -> Nat] /\ k \in [S -> Nat] /\ S \subseteq Places
  BY <1>1
<1>9. \A s \in S : Stage(D[s]) = Stage(s) + 1 /\ k[s] <= n[s] /\ n[s] <= Len(c[s])
  BY <1>1, <1>3
<1>10. \A s \in S : /\ c'[s] = SubSeq(c[s], n[s] + 1, Len(c[s]))
                    /\ c'[D[s]] = c[D[s]] \o SubSeq(c[s], 1, k[s])
  BY <1>2
<1>11. \A s \in S : \A i \in 1 .. k[s] : Home(Goals, D[s], c[s][i])
  <2> SUFFICES ASSUME NEW s \in S, NEW i \in 1 .. k[s] PROVE Home(Goals, Onto(s), c[s][i])
    OBVIOUS
  <2>1. i \in 1 .. Len(c[s])
    BY <1>1
  <2>2. Home(Goals, s, c[s][i])
    BY <2>1 DEF Held
  <2> QED
    BY <2>2, OntoIs
<1> HIDE DEF D, n
<1>12. Moved(Content, freed, Content', freed', S, D, n, k)
  BY <1>4, <1>5, <1>6, <1>7, <1>8, <1>9, <1>10 DEF Moved
<1>13. (\A l \in Places : Content'[l] \in Seq(Ids))
       /\ (Content' \in [Places -> Seq(Ids)] => Held(Goals, Content', freed'))
  BY <1>11, <1>12, Move
<1>14. Content' \in [Places -> Seq(Ids)]
  BY <1>13, ContentNextIsAFunction
<1> QED
  BY <1>13, <1>14

LEMMA WorkerFlushStep == ASSUME NEW w \in Workers PROVE LBInv /\ app_lcore_worker_flush(w) => LBInv'
<1> SUFFICES ASSUME LBInv, app_lcore_worker_flush(w) PROVE LBInv'
  OBVIOUS
<1> DEFINE do == {x \in Pairs : x[2] = w /\ ~Skips(w_out[x])}
           arr(x) == w_out[x].array
           S == {<<"wout", x>> : x \in do}
           k == [s \in S |-> Taken(tx_ring[s[2]], arr(s[2]))]
<1>1. /\ phase = "run" /\ UNCHANGED <<phase, rules, lpm>> /\ UNCHANGED <<nic, io, rx_out, tx_out, sent, rx_ring>>
      /\ tx_ring' = [x \in Pairs |-> IF x \in do THEN EnqueueOrFree(tx_ring[x], arr(x)) ELSE tx_ring[x]]
      /\ freed' = freed \cup UNION {Refused(tx_ring[x], arr(x)) : x \in do}
      /\ w_out' = [x \in DOMAIN w_out |-> IF x \in do THEN Empty(1)
                                          ELSE IF x \in Pairs /\ x[2] = w THEN [w_out[x] EXCEPT !.flush = 1]
                                          ELSE w_out[x]]
      /\ wk' = [wk EXCEPT ![w].i = 0]
  BY DEF app_lcore_worker_flush, WorkerRest
<1>2. /\ TypeOK /\ Held(Goals, Content, freed) /\ wk \in [Workers -> [i : Nat, bulk : Seq(Ids)]]
      /\ w_out \in [Ports \X Workers -> Outs] /\ tx_ring \in [Pairs -> Seq(Ids)]
  BY DEF LBInv, TypeOK
<1>3. \A x \in do : x \in Pairs /\ x \in Ports \X Workers
  BY Consts
<1>4. Turn'
  BY <1>1 DEF LBInv, Turn
<1> HIDE DEF do
<1>5. \A x \in Ports \X Workers : w_out[x] \in Outs /\ arr(x) \in Seq(Ids)
  BY <1>2 DEF Outs
<1>6. \A x \in Pairs : tx_ring[x] \in Seq(Ids)
  BY <1>2
<1>7. ASSUME NEW x \in do
      PROVE  /\ Taken(tx_ring[x], arr(x)) \in 0 .. Len(arr(x)) /\ Len(arr(x)) \in Nat
             /\ EnqueueOrFree(tx_ring[x], arr(x)) = tx_ring[x] \o SubSeq(arr(x), 1, Taken(tx_ring[x], arr(x)))
             /\ EnqueueOrFree(tx_ring[x], arr(x)) \in Seq(Ids)
             /\ Refused(tx_ring[x], arr(x)) = Lists(SubSeq(arr(x), Taken(tx_ring[x], arr(x)) + 1, Len(arr(x))))
  <2> DEFINE r == tx_ring[x]  a == arr(x)  j == Taken(r, a)
  <2>1. r \in Seq(Ids) /\ a \in Seq(Ids) /\ j = Taken(r, a)
    BY <1>3, <1>5, <1>6
  <2> HIDE DEF r, a, j
  <2>2. Len(a) \in Nat
    BY <2>1, LenProperties
  <2>3. /\ j \in 0 .. Len(a) /\ EnqueueOrFree(r, a) = r \o SubSeq(a, 1, j)
        /\ EnqueueOrFree(r, a) \in Seq(Ids) /\ Refused(r, a) = Lists(SubSeq(a, j + 1, Len(a)))
    BY <2>1, EnqueueIs
  <2> QED
    BY <2>2, <2>3 DEF r, a, j
<1>8. /\ tx_ring' \in [Pairs -> Seq(Ids)]
      /\ \A x \in Pairs : tx_ring'[x] = IF x \in do THEN EnqueueOrFree(tx_ring[x], arr(x)) ELSE tx_ring[x]
  <2>1. \A x \in Pairs : tx_ring'[x] = IF x \in do THEN EnqueueOrFree(tx_ring[x], arr(x)) ELSE tx_ring[x]
    BY <1>1
  <2>2. \A x \in Pairs : tx_ring'[x] \in Seq(Ids)
    BY <1>6, <1>7, <2>1
  <2>3. tx_ring' = [x \in Pairs |-> tx_ring'[x]]
    BY <1>1
  <2> QED
    BY <2>1, <2>2, <2>3
<1>9. /\ w_out' \in [Ports \X Workers -> Outs]
      /\ \A x \in Ports \X Workers : w_out'[x].array = IF x \in do THEN << >> ELSE arr(x)
  <2> DEFINE PW == Ports \X Workers
             y(x) == IF x \in do THEN Empty(1) ELSE IF x \in Pairs /\ x[2] = w THEN [w_out[x] EXCEPT !.flush = 1] ELSE w_out[x]
  <2>1. w_out' = [x \in PW |-> y(x)]
    BY <1>1, <1>2
  <2>2. ASSUME NEW x \in PW PROVE y(x) \in Outs /\ y(x).array = IF x \in do THEN << >> ELSE arr(x)
    <3>1. Empty(1) \in Outs /\ Empty(1).array = << >>
      BY DEF Empty, Outs
    <3>2. [w_out[x] EXCEPT !.flush = 1] \in Outs /\ [w_out[x] EXCEPT !.flush = 1].array = arr(x)
      BY <1>5 DEF Outs
    <3> QED
      BY <1>5, <3>1, <3>2
  <2> HIDE DEF y, PW
  <2>3. w_out' \in [PW -> Outs] /\ \A x \in PW : w_out'[x] = y(x)
    BY <2>1, <2>2
  <2> QED
    BY <2>2, <2>3 DEF PW
<1>10. wk' \in [Workers -> [i : Nat, bulk : Seq(Ids)]] /\ \A v \in Workers : wk'[v].bulk = wk[v].bulk
  <2> DEFINE y == [wk[w] EXCEPT !.i = 0]
  <2>1. y \in [i : Nat, bulk : Seq(Ids)] /\ y.bulk = wk[w].bulk
    BY <1>2
  <2>2. wk' = [wk EXCEPT ![w] = y]
    BY <1>1
  <2> HIDE DEF y
  <2>3. wk' \in [Workers -> [i : Nat, bulk : Seq(Ids)]] /\ wk'[w] = y /\ \A v \in Workers : v # w => wk'[v] = wk[v]
    BY <1>2, <2>1, <2>2
  <2> QED
    BY <2>1, <2>3
<1>11. TypeOK'
  BY <1>1, <1>2, <1>8, <1>9, <1>10 DEF TypeOK
<1>12. ASSUME NEW x \in do
       PROVE  /\ <<"wout", x>> \in Places /\ <<"txring", x>> \in Places /\ Onto(<<"wout", x>>) = <<"txring", x>>
              /\ Content[<<"wout", x>>] = arr(x) /\ Content[<<"txring", x>>] = tx_ring[x]
              /\ Content'[<<"wout", x>>] = << >> /\ Content'[<<"txring", x>>] = EnqueueOrFree(tx_ring[x], arr(x))
  <2>1. x \in Pairs /\ x \in Ports \X Workers
    BY <1>3
  <2>2. /\ Content[<<"wout", x>>] = arr(x) /\ Content[<<"txring", x>>] = tx_ring[x]
        /\ Content'[<<"wout", x>>] = w_out'[x].array /\ Content'[<<"txring", x>>] = tx_ring'[x]
    BY <2>1, ContentNow, ContentNext DEF ContentHolds
  <2>3. Onto(<<"wout", x>>) = <<"txring", x>>
    BY DEF Onto
  <2> QED
    BY <1>8, <1>9, <2>1, <2>2, <2>3, PlaceTypes
<1>13. Held(Goals, Content', freed')
  <2>1. S \in SUBSET Places
    BY <1>12
  <2>2. k \in [S -> Nat]
    <3>1. \A s \in S : s[2] \in do
      OBVIOUS
    <3>2. \A x \in do : Taken(tx_ring[x], arr(x)) \in Nat
      BY <1>7
    <3> HIDE DEF S
    <3> QED
      BY <3>1, <3>2
  <2>3. ASSUME NEW s \in S
        PROVE  /\ s[1] \in {"rx", "wout", "tx"} /\ Onto(s) \in Places
               /\ k[s] <= Len(Content[s]) /\ Content'[s] = << >>
               /\ Content'[Onto(s)] = Content[Onto(s)] \o SubSeq(Content[s], 1, k[s])
    <3>1. PICK x \in do : s = <<"wout", x>>
      OBVIOUS
    <3>2. k[s] = Taken(tx_ring[x], arr(x))
      BY <3>1
    <3> HIDE DEF S, k
    <3>3. s[1] \in {"rx", "wout", "tx"} /\ Onto(s) \in Places
      BY <1>12, <3>1
    <3>4. k[s] <= Len(Content[s])
      <4>1. Content[s] = arr(x) /\ k[s] \in 0 .. Len(arr(x)) /\ Len(arr(x)) \in Nat
        BY <1>7, <1>12, <3>1, <3>2
      <4> QED
        BY <4>1
    <3>5. Content'[s] = << >>
      BY <1>12, <3>1
    <3>6. Content'[Onto(s)] = Content[Onto(s)] \o SubSeq(Content[s], 1, k[s])
      <4>1. /\ Content[s] = arr(x) /\ Onto(s) = <<"txring", x>> /\ Content[<<"txring", x>>] = tx_ring[x]
            /\ Content'[<<"txring", x>>] = tx_ring[x] \o SubSeq(arr(x), 1, k[s])
        BY <1>7, <1>12, <3>1, <3>2
      <4> HIDE DEF arr
      <4> QED
        BY <4>1
    <3> QED
      BY <3>3, <3>4, <3>5, <3>6
  <2>4. Unchanged(S \cup {Onto(s) : s \in S})
    <3>1. \A e \in Ports \X Workers : <<"wout", e>> \in S \/ w_out'[e].array = w_out[e].array
      BY <1>9
    <3>2. \A e \in Pairs : <<"txring", e>> \in {Onto(s) : s \in S} \/ tx_ring'[e] = tx_ring[e]
      <4> SUFFICES ASSUME NEW e \in Pairs PROVE <<"txring", e>> \in {Onto(s) : s \in S} \/ tx_ring'[e] = tx_ring[e]
        OBVIOUS
      <4>1. CASE e \in do
        <5>1. <<"wout", e>> \in S /\ Onto(<<"wout", e>>) = <<"txring", e>>
          BY <1>12, <4>1
        <5> HIDE DEF S
        <5> QED
          BY <5>1
      <4>2. CASE e \notin do
        BY <1>8, <4>2
      <4> QED
        BY <4>1, <4>2
    <3> HIDE DEF S
    <3> QED
      BY <1>1, <1>10, <3>1, <3>2 DEF Unchanged
  <2>5. freed' = freed \cup UNION {Lists(SubSeq(Content[s], k[s] + 1, Len(Content[s]))) : s \in S}
    <3>1. ASSUME NEW x \in do
          PROVE  Refused(tx_ring[x], arr(x)) = Lists(SubSeq(Content[<<"wout", x>>], k[<<"wout", x>>] + 1, Len(Content[<<"wout", x>>])))
      <4>1. k[<<"wout", x>>] = Taken(tx_ring[x], arr(x))
        OBVIOUS
      <4> HIDE DEF k
      <4> QED
        BY <1>7, <1>12, <4>1
    <3> HIDE DEF k
    <3>2. UNION {Refused(tx_ring[x], arr(x)) : x \in do}
          = UNION {Lists(SubSeq(Content[s], k[s] + 1, Len(Content[s]))) : s \in S}
      BY <3>1
    <3> QED
      BY <1>1, <3>2
  <2> HIDE DEF S, k
  <2> QED
    <3>1. Held(Goals, Content, freed)
      BY <1>2
    <3> QED
      BY <2>1, <2>2, <2>3, <2>4, <2>5, <3>1, StepAll
<1> QED
  BY <1>1, <1>4, <1>11, <1>13, RunStep

LEMMA IoFlushStep == LBInv /\ IoFlush => LBInv'
<1> SUFFICES ASSUME LBInv, IoFlush PROVE LBInv'
  OBVIOUS
<1> DEFINE do == {v \in Workers : ~Skips(rx_out[v])}
           ports == {q \in nic_tx_ports : ~TxSkips(q)}
           in(w) == rx_out[w].array
           out(p) == tx_out[p].array
           j(w) == Taken(rx_ring[w], in(w))
           R == {<<"rx", w>> : w \in do}
           T == {<<"tx", p>> : p \in ports}
           S == R \cup T
<1>1. /\ phase = "run" /\ io.pc = "rx" /\ UNCHANGED <<phase, rules, lpm>> /\ UNCHANGED <<nic, tx_ring, wk, w_out>>
      /\ rx_ring' = [w \in Workers |-> IF w \in do THEN EnqueueOrFree(rx_ring[w], in(w)) ELSE rx_ring[w]]
      /\ rx_out' = [w \in Workers |-> IF w \in do THEN Empty(1) ELSE [rx_out[w] EXCEPT !.flush = 1]]
      /\ io' = [io EXCEPT !.i = 0]
  BY DEF IoFlush, At, IoRest, app_lcore_io_rx_flush
<1>2. PICK n \in [Ports -> 0 .. bsz_tx_wr] :
        /\ \A p \in Ports : n[p] <= IF p \in nic_tx_ports /\ ~TxSkips(p) THEN Len(out(p)) ELSE 0
        /\ app_lcore_io_tx_flush(n)
        /\ freed' = freed \cup RxFlushRefused \cup TxFlushFreed(n)
  BY DEF IoFlush
<1>3. /\ sent' = [p \in Ports |-> sent[p] \o SubSeq(out(p), 1, n[p])]
      /\ tx_out' = [p \in Ports |-> IF p \notin nic_tx_ports THEN tx_out[p]
                                    ELSE IF TxSkips(p) THEN [tx_out[p] EXCEPT !.flush = 1] ELSE Empty(1)]
      /\ RxFlushRefused = UNION {Refused(rx_ring[w], in(w)) : w \in do}
      /\ TxFlushFreed(n) = UNION {Lists(SubSeq(out(p), n[p] + 1, Len(out(p)))) : p \in ports}
  BY <1>2 DEF app_lcore_io_tx_flush, RxFlushRefused, TxFlushFreed
<1>4. /\ TypeOK /\ Held(Goals, Content, freed) /\ io \in [pc : {"rx", "tx"}, i : Nat, k : Nat \ {0}, burst : Seq(Ids)]
      /\ rx_out \in [Workers -> Outs] /\ rx_ring \in [Workers -> Seq(Ids)]
      /\ tx_out \in [Ports -> Outs] /\ sent \in [Ports -> Seq(Ids)]
  BY DEF LBInv, TypeOK
<1>5. io' \in [pc : {"rx", "tx"}, i : Nat, k : Nat \ {0}, burst : Seq(Ids)] /\ io'.burst = io.burst /\ io'.pc = "rx"
  BY <1>1, <1>4
<1>6. Turn'
  BY <1>5 DEF Turn
<1>7. do \subseteq Workers /\ ports \subseteq Ports
  BY Consts
<1>8. \A w \in Workers : rx_out[w] \in Outs /\ in(w) \in Seq(Ids) /\ rx_ring[w] \in Seq(Ids)
  BY <1>4 DEF Outs
<1>9. \A p \in Ports : tx_out[p] \in Outs /\ out(p) \in Seq(Ids) /\ sent[p] \in Seq(Ids)
  BY <1>4 DEF Outs
<1>10. ASSUME NEW w \in do
       PROVE  /\ j(w) \in 0 .. Len(in(w)) /\ Len(in(w)) \in Nat
              /\ EnqueueOrFree(rx_ring[w], in(w)) = rx_ring[w] \o SubSeq(in(w), 1, j(w))
              /\ EnqueueOrFree(rx_ring[w], in(w)) \in Seq(Ids)
              /\ Refused(rx_ring[w], in(w)) = Lists(SubSeq(in(w), j(w) + 1, Len(in(w))))
  <2> DEFINE r == rx_ring[w]  a == in(w)  m == Taken(r, a)
  <2>1. r \in Seq(Ids) /\ a \in Seq(Ids) /\ m = Taken(r, a)
    BY <1>7, <1>8
  <2> HIDE DEF r, a, m
  <2>2. Len(a) \in Nat
    BY <2>1, LenProperties
  <2>3. /\ m \in 0 .. Len(a) /\ EnqueueOrFree(r, a) = r \o SubSeq(a, 1, m)
        /\ EnqueueOrFree(r, a) \in Seq(Ids) /\ Refused(r, a) = Lists(SubSeq(a, m + 1, Len(a)))
    BY <2>1, EnqueueIs, ZenonT(30)
  <2> QED
    BY <2>2, <2>3 DEF r, a, m
<1>11. ASSUME NEW p \in Ports
       PROVE  /\ Len(out(p)) \in Nat /\ n[p] \in 0 .. Len(out(p))
              /\ p \notin ports => n[p] = 0
              /\ sent[p] \o SubSeq(out(p), 1, n[p]) \in Seq(Ids)
              /\ p \notin ports => sent[p] \o SubSeq(out(p), 1, n[p]) = sent[p]
  <2> DEFINE a == out(p)  u == sent[p]  m == n[p]
  <2>1. a \in Seq(Ids) /\ u \in Seq(Ids)
    BY <1>9
  <2>2. m \in Nat
    BY <1>2, LoadBalancerAssumption
  <2>3. m <= IF p \in nic_tx_ports /\ ~TxSkips(p) THEN Len(a) ELSE 0
    BY <1>2
  <2>4. p \in ports <=> p \in nic_tx_ports /\ ~TxSkips(p)
    OBVIOUS
  <2> HIDE DEF a, u, m, ports
  <2>5. Len(a) \in Nat
    BY <2>1, LenProperties
  <2>6. m \in 0 .. Len(a) /\ (p \notin ports => m = 0)
    BY <2>2, <2>3, <2>4, <2>5
  <2>7. u \o SubSeq(a, 1, m) \in Seq(Ids)
    BY <2>1, <2>6, Joined
  <2>8. SubSeq(a, 1, 0) = << >> /\ u \o << >> = u
    BY <2>1, SubSeqEmpty, ConcatEmptySeq
  <2>9. p \notin ports => u \o SubSeq(a, 1, m) = u
    BY <2>6, <2>8
  <2> QED
    BY <2>5, <2>6, <2>7, <2>9 DEF a, u, m
<1>12. \A p : p \in ports <=> p \in nic_tx_ports /\ ~TxSkips(p)
  OBVIOUS
<1> HIDE DEF do, ports
<1>13. /\ rx_ring' \in [Workers -> Seq(Ids)]
       /\ \A w \in Workers : rx_ring'[w] = IF w \in do THEN EnqueueOrFree(rx_ring[w], in(w)) ELSE rx_ring[w]
  <2>1. \A w \in Workers : rx_ring'[w] = IF w \in do THEN EnqueueOrFree(rx_ring[w], in(w)) ELSE rx_ring[w]
    BY <1>1
  <2>2. \A w \in Workers : rx_ring'[w] \in Seq(Ids)
    BY <1>8, <1>10, <2>1
  <2>3. rx_ring' = [w \in Workers |-> rx_ring'[w]]
    BY <1>1
  <2> QED
    BY <2>1, <2>2, <2>3
<1>14. /\ rx_out' \in [Workers -> Outs]
       /\ \A w \in Workers : rx_out'[w].array = IF w \in do THEN << >> ELSE in(w)
  <2> DEFINE y(w) == IF w \in do THEN Empty(1) ELSE [rx_out[w] EXCEPT !.flush = 1]
  <2>1. rx_out' = [w \in Workers |-> y(w)]
    BY <1>1
  <2>2. ASSUME NEW w \in Workers PROVE y(w) \in Outs /\ y(w).array = IF w \in do THEN << >> ELSE in(w)
    <3>1. Empty(1) \in Outs /\ Empty(1).array = << >>
      BY DEF Empty, Outs
    <3>2. [rx_out[w] EXCEPT !.flush = 1] \in Outs /\ [rx_out[w] EXCEPT !.flush = 1].array = in(w)
      BY <1>8 DEF Outs
    <3> QED
      BY <3>1, <3>2
  <2> HIDE DEF y
  <2>3. rx_out' \in [Workers -> Outs] /\ \A w \in Workers : rx_out'[w] = y(w)
    BY <2>1, <2>2
  <2> QED
    BY <2>2, <2>3
<1>15. /\ tx_out' \in [Ports -> Outs]
       /\ \A p \in Ports : tx_out'[p].array = IF p \in ports THEN << >> ELSE out(p)
  <2> DEFINE y(p) == IF p \notin nic_tx_ports THEN tx_out[p]
                     ELSE IF TxSkips(p) THEN [tx_out[p] EXCEPT !.flush = 1] ELSE Empty(1)
  <2>1. tx_out' = [p \in Ports |-> y(p)]
    BY <1>3
  <2>2. ASSUME NEW p \in Ports PROVE y(p) \in Outs /\ y(p).array = IF p \in ports THEN << >> ELSE out(p)
    <3>1. Empty(1) \in Outs /\ Empty(1).array = << >>
      BY DEF Empty, Outs
    <3>2. [tx_out[p] EXCEPT !.flush = 1] \in Outs /\ [tx_out[p] EXCEPT !.flush = 1].array = out(p)
      BY <1>9 DEF Outs
    <3> QED
      BY <1>9, <1>12, <3>1, <3>2
  <2> HIDE DEF y
  <2>3. tx_out' \in [Ports -> Outs] /\ \A p \in Ports : tx_out'[p] = y(p)
    BY <2>1, <2>2
  <2> QED
    BY <2>2, <2>3
<1>16. /\ sent' \in [Ports -> Seq(Ids)]
       /\ \A p \in Ports : sent'[p] = sent[p] \o SubSeq(out(p), 1, n[p])
  BY <1>3, <1>11
<1>17. TypeOK'
  BY <1>1, <1>4, <1>5, <1>13, <1>14, <1>15, <1>16 DEF TypeOK
<1>18. ASSUME NEW w \in do
       PROVE  /\ <<"rx", w>> \in Places /\ <<"rxring", w>> \in Places /\ Onto(<<"rx", w>>) = <<"rxring", w>>
              /\ Content[<<"rx", w>>] = in(w) /\ Content[<<"rxring", w>>] = rx_ring[w]
              /\ Content'[<<"rx", w>>] = << >> /\ Content'[<<"rxring", w>>] = EnqueueOrFree(rx_ring[w], in(w))
  <2>1. w \in Workers
    BY <1>7
  <2>2. /\ Content[<<"rx", w>>] = in(w) /\ Content[<<"rxring", w>>] = rx_ring[w]
        /\ Content'[<<"rx", w>>] = rx_out'[w].array /\ Content'[<<"rxring", w>>] = rx_ring'[w]
    BY <2>1, ContentNow, ContentNext DEF ContentHolds
  <2>3. Onto(<<"rx", w>>) = <<"rxring", w>>
    BY DEF Onto
  <2> QED
    BY <1>13, <1>14, <2>1, <2>2, <2>3, PlaceTypes
<1>19. ASSUME NEW p \in ports
       PROVE  /\ <<"tx", p>> \in Places /\ <<"sent", p>> \in Places /\ Onto(<<"tx", p>>) = <<"sent", p>>
              /\ Content[<<"tx", p>>] = out(p) /\ Content[<<"sent", p>>] = sent[p]
              /\ Content'[<<"tx", p>>] = << >> /\ Content'[<<"sent", p>>] = sent[p] \o SubSeq(out(p), 1, n[p])
  <2>1. p \in Ports
    BY <1>7
  <2>2. /\ Content[<<"tx", p>>] = out(p) /\ Content[<<"sent", p>>] = sent[p]
        /\ Content'[<<"tx", p>>] = tx_out'[p].array /\ Content'[<<"sent", p>>] = sent'[p]
    BY <2>1, ContentNow, ContentNext DEF ContentHolds
  <2>3. Onto(<<"tx", p>>) = <<"sent", p>>
    BY DEF Onto
  <2> QED
    BY <1>15, <1>16, <2>1, <2>2, <2>3, PlaceTypes
<1> DEFINE k == [s \in S |-> IF s[1] = "rx" THEN j(s[2]) ELSE n[s[2]]]
<1>20. ASSUME NEW w \in do PROVE <<"rx", w>> \in S /\ k[<<"rx", w>>] = j(w)
  OBVIOUS
<1>21. ASSUME NEW p \in ports PROVE <<"tx", p>> \in S /\ k[<<"tx", p>>] = n[p]
  OBVIOUS
<1>22. \A s \in S : (\E w \in do : s = <<"rx", w>>) \/ (\E p \in ports : s = <<"tx", p>>)
  OBVIOUS
<1>23. k = [s \in S |-> k[s]]
  OBVIOUS
<1> HIDE DEF j, k, S
<1>24. Held(Goals, Content', freed')
  <2>1. S \in SUBSET Places
    BY <1>18, <1>19, <1>22
  <2>2. k \in [S -> Nat]
    <3>1. ASSUME NEW s \in S PROVE k[s] \in Nat
      <4>1. CASE \E w \in do : s = <<"rx", w>>
        BY <1>10, <1>20, <4>1
      <4>2. CASE \E p \in ports : s = <<"tx", p>>
        <5>1. PICK p \in ports : s = <<"tx", p>>
          BY <4>2
        <5>2. k[s] = n[p] /\ n[p] \in Nat
          BY <1>7, <1>11, <1>21, <5>1
        <5> QED
          BY <5>2
      <4> QED
        BY <1>22, <4>1, <4>2
    <3> QED
      BY <1>23, <3>1
  <2>3. ASSUME NEW s \in S
        PROVE  /\ s[1] \in {"rx", "wout", "tx"} /\ Onto(s) \in Places
               /\ k[s] <= Len(Content[s]) /\ Content'[s] = << >>
               /\ Content'[Onto(s)] = Content[Onto(s)] \o SubSeq(Content[s], 1, k[s])
    <3>1. ASSUME NEW w \in do, s = <<"rx", w>>
          PROVE  /\ s[1] \in {"rx", "wout", "tx"} /\ Onto(s) \in Places
                 /\ k[s] <= Len(Content[s]) /\ Content'[s] = << >>
                 /\ Content'[Onto(s)] = Content[Onto(s)] \o SubSeq(Content[s], 1, k[s])
      <4>1. k[s] = j(w) /\ j(w) \in 0 .. Len(in(w)) /\ Len(in(w)) \in Nat
        BY <1>10, <1>20, <3>1
      <4>2. k[s] <= Len(Content[s])
        <5>1. Content[s] = in(w)
          BY <1>18, <3>1
        <5> QED
          BY <4>1, <5>1
      <4>3. Content'[Onto(s)] = Content[Onto(s)] \o SubSeq(Content[s], 1, k[s])
        <5>1. /\ Content[s] = in(w) /\ Onto(s) = <<"rxring", w>> /\ Content[<<"rxring", w>>] = rx_ring[w]
              /\ Content'[<<"rxring", w>>] = rx_ring[w] \o SubSeq(in(w), 1, j(w))
          BY <1>10, <1>18, <3>1
        <5> HIDE DEF in
        <5> QED
          BY <4>1, <5>1
      <4> QED
        BY <1>18, <3>1, <4>2, <4>3
    <3>2. ASSUME NEW p \in ports, s = <<"tx", p>>
          PROVE  /\ s[1] \in {"rx", "wout", "tx"} /\ Onto(s) \in Places
                 /\ k[s] <= Len(Content[s]) /\ Content'[s] = << >>
                 /\ Content'[Onto(s)] = Content[Onto(s)] \o SubSeq(Content[s], 1, k[s])
      <4>1. k[s] = n[p] /\ n[p] \in 0 .. Len(out(p)) /\ Len(out(p)) \in Nat
        BY <1>7, <1>11, <1>21, <3>2
      <4>2. k[s] <= Len(Content[s])
        <5>1. Content[s] = out(p)
          BY <1>19, <3>2
        <5> QED
          BY <4>1, <5>1
      <4>3. Content'[Onto(s)] = Content[Onto(s)] \o SubSeq(Content[s], 1, k[s])
        <5>1. /\ Content[s] = out(p) /\ Onto(s) = <<"sent", p>> /\ Content[<<"sent", p>>] = sent[p]
              /\ Content'[<<"sent", p>>] = sent[p] \o SubSeq(out(p), 1, n[p])
          BY <1>19, <3>2
        <5> HIDE DEF out
        <5> QED
          BY <4>1, <5>1
      <4> QED
        BY <1>19, <3>2, <4>2, <4>3
    <3> QED
      BY <1>22, <3>1, <3>2
  <2>4. Unchanged(S \cup {Onto(s) : s \in S})
    <3>1. \A w \in Workers : <<"rx", w>> \in S \/ rx_out'[w].array = rx_out[w].array
      BY <1>14, <1>20
    <3>2. \A w \in Workers : <<"rxring", w>> \in {Onto(s) : s \in S} \/ rx_ring'[w] = rx_ring[w]
      <4> SUFFICES ASSUME NEW w \in Workers PROVE <<"rxring", w>> \in {Onto(s) : s \in S} \/ rx_ring'[w] = rx_ring[w]
        OBVIOUS
      <4>1. CASE w \in do
        <5>1. <<"rx", w>> \in S /\ Onto(<<"rx", w>>) = <<"rxring", w>>
          BY <1>18, <1>20, <4>1
        <5> QED
          BY <5>1
      <4>2. CASE w \notin do
        BY <1>13, <4>2
      <4> QED
        BY <4>1, <4>2
    <3>3. \A p \in Ports : <<"tx", p>> \in S \/ tx_out'[p].array = tx_out[p].array
      BY <1>15, <1>21
    <3>4. \A p \in Ports : <<"sent", p>> \in {Onto(s) : s \in S} \/ sent'[p] = sent[p]
      <4> SUFFICES ASSUME NEW p \in Ports PROVE <<"sent", p>> \in {Onto(s) : s \in S} \/ sent'[p] = sent[p]
        OBVIOUS
      <4>1. CASE p \in ports
        <5>1. <<"tx", p>> \in S /\ Onto(<<"tx", p>>) = <<"sent", p>>
          BY <1>19, <1>21, <4>1
        <5> QED
          BY <5>1
      <4>2. CASE p \notin ports
        BY <1>11, <1>16, <4>2
      <4> QED
        BY <4>1, <4>2
    <3> QED
      BY <1>1, <1>5, <3>1, <3>2, <3>3, <3>4 DEF Unchanged
  <2>5. freed' = freed \cup UNION {Lists(SubSeq(Content[s], k[s] + 1, Len(Content[s]))) : s \in S}
    <3> DEFINE L(s) == Lists(SubSeq(Content[s], k[s] + 1, Len(Content[s])))
    <3>1. ASSUME NEW w \in do PROVE Refused(rx_ring[w], in(w)) = L(<<"rx", w>>)
      BY <1>10, <1>18, <1>20
    <3>2. ASSUME NEW p \in ports PROVE Lists(SubSeq(out(p), n[p] + 1, Len(out(p)))) = L(<<"tx", p>>)
      BY <1>19, <1>21
    <3> HIDE DEF L
    <3>3. UNION {L(s) : s \in S} = (UNION {L(<<"rx", w>>) : w \in do}) \cup UNION {L(<<"tx", p>>) : p \in ports}
      <4>1. ASSUME NEW x, x \in UNION {L(s) : s \in S}
            PROVE  x \in (UNION {L(<<"rx", w>>) : w \in do}) \cup UNION {L(<<"tx", p>>) : p \in ports}
        <5>1. PICK s \in S : x \in L(s)
          BY <4>1
        <5> QED
          BY <1>22, <5>1
      <4>2. ASSUME NEW x, x \in (UNION {L(<<"rx", w>>) : w \in do}) \cup UNION {L(<<"tx", p>>) : p \in ports}
            PROVE  x \in UNION {L(s) : s \in S}
        <5>1. CASE x \in UNION {L(<<"rx", w>>) : w \in do}
          <6>1. PICK w \in do : x \in L(<<"rx", w>>)
            BY <5>1
          <6> QED
            BY <1>20, <6>1
        <5>2. CASE x \in UNION {L(<<"tx", p>>) : p \in ports}
          <6>1. PICK p \in ports : x \in L(<<"tx", p>>)
            BY <5>2
          <6> QED
            BY <1>21, <6>1
        <5> QED
          BY <4>2, <5>1, <5>2
      <4> QED
        BY <4>1, <4>2
    <3>4. UNION {Refused(rx_ring[w], in(w)) : w \in do} = UNION {L(<<"rx", w>>) : w \in do}
      BY <3>1
    <3>5. UNION {Lists(SubSeq(out(p), n[p] + 1, Len(out(p)))) : p \in ports} = UNION {L(<<"tx", p>>) : p \in ports}
      BY <3>2
    <3>6. freed' = freed \cup UNION {L(s) : s \in S}
      <4> DEFINE A == UNION {Refused(rx_ring[w], in(w)) : w \in do}
                 B == UNION {Lists(SubSeq(out(p), n[p] + 1, Len(out(p)))) : p \in ports}
                 U == UNION {L(s) : s \in S}
      <4>1. freed' = (freed \cup A) \cup B
        BY <1>2, <1>3
      <4>2. U = A \cup B
        BY <3>3, <3>4, <3>5
      <4> HIDE DEF A, B, U
      <4>3. freed' = freed \cup U
        BY <4>1, <4>2
      <4> QED
        BY <4>3 DEF U
    <3> QED
      BY <3>6 DEF L
  <2> QED
    <3>1. Held(Goals, Content, freed)
      BY <1>4
    <3> QED
      BY <2>1, <2>2, <2>3, <2>4, <2>5, <3>1, StepAll
<1> QED
  BY <1>1, <1>6, <1>17, <1>24, RunStep

-----------------------------------------------------------------------------
(* The theorems.                                                            *)

LEMMA NextLBInv == LBInv /\ [Next]_vars => LBInv'
<1> SUFFICES ASSUME LBInv, [Next]_vars PROVE LBInv'
  OBVIOUS
<1>1. CASE AddRule \/ Configure \/ Launch
  BY <1>1, ConfigStep
<1>2. CASE app_lcore_io_rx
  BY <1>2, RxStep
<1>3. CASE HandOn
  BY <1>3, HandOnStep
<1>4. CASE IoFlush
  BY <1>4, IoFlushStep
<1>5. CASE app_lcore_io_tx
  BY <1>5, TxStep
<1>6. ASSUME NEW w \in Workers, WorkerLcore(w) PROVE LBInv'
  <2>1. CASE app_lcore_worker(w)
    BY <2>1, WorkerStep
  <2>2. CASE WorkerPacket(w)
    BY <2>2, PacketStep
  <2>3. CASE app_lcore_worker_flush(w)
    BY <2>3, WorkerFlushStep
  <2> QED
    BY <1>6, <2>1, <2>2, <2>3 DEF WorkerLcore
<1>7. CASE UNCHANGED vars
  <2>1. UNCHANGED <<phase, rules, lpm, nic, io, wk, rx_out, w_out, tx_out, rx_ring, tx_ring, sent, freed>>
    BY <1>7 DEF vars
  <2>2. Content' = Content /\ Goals' = Goals /\ freed' = freed
    BY <2>1 DEF Content, Goals
  <2>3. TypeOK' /\ Turn'
    BY <2>1 DEF LBInv, TypeOK, Turn
  <2>4. Tables'
    BY <2>1 DEF LBInv, Tables, app_check_lpm_table, app_check_every_rx_port_is_tx_enabled
  <2>5. Start'
    BY <2>1, <2>2 DEF LBInv, Start, Unreceived
  <2>6. Held(Goals, Content, freed)
    BY DEF LBInv
  <2>7. Held(Goals, Content, freed)'
    BY <2>2, <2>6
  <2> QED
    BY <2>3, <2>4, <2>5, <2>7 DEF LBInv
<1> QED
  BY <1>1, <1>2, <1>3, <1>4, <1>5, <1>6, <1>7 DEF Next, IoLcore

\* Every packet is in one place, its own, in the order of its flow, or freed:
\* what io_rx, the workers, io_tx and the flushes keep between them, for any
\* number of ports, queues and workers, any burst sizes and any packets.
THEOREM LoadBalancerInvariant == Spec => []LBInv
<1>1. Init => LBInv
  BY InitLBInv
<1>2. LBInv /\ [Next]_vars => LBInv'
  BY NextLBInv
<1> QED
  BY <1>1, <1>2, PTL DEF Spec

LEMMA LBInvLpm == LBInv => LpmLongest
<1> SUFFICES ASSUME LBInv, phase = "ready", NEW ip \in Ips
             PROVE  LET covering == {i \in DOMAIN rules : Covers(rules[i], ip)}
                        found == rte_lpm_lookup(lpm, ip)
                        bulk == rte_lpm_lookup_bulk_func(lpm, <<0, ip>>)[2]
                    IN  /\ (found.ret = "0") = (covering # {})
                        /\ RTE_LPM_LOOKUP_SUCCESS(bulk) = (covering # {})
                        /\ covering # {} =>
                             \E i \in covering :
                               /\ \A j \in covering : rules[j].depth <= rules[i].depth
                               /\ \A j \in covering : rules[j].depth = rules[i].depth => j <= i
                               /\ found.next_hop = rules[i].if_out /\ NextHop(bulk) = rules[i].if_out
  BY DEF LpmLongest
<1> DEFINE covering == {i \in DOMAIN rules : Covers(rules[i], ip)}
           found == rte_lpm_lookup(lpm, ip)
           bulk == rte_lpm_lookup_bulk_func(lpm, <<0, ip>>)[2]
           best == Best(rules, ip, 0 .. IpBits)
           hop == IF best = 0 THEN 0 ELSE rules[best].if_out
<1>1. rules \in Seq(LpmRule) /\ lpm = rte_lpm(rules)
  BY RulesType DEF LBInv, TypeOK, Tables
<1>2. DOMAIN rules = 1 .. Len(rules) /\ Len(rules) \in Nat /\ \A i \in DOMAIN rules : rules[i] \in LpmRule
  BY <1>1, LenProperties, ElementOfSeq
<1>3. \A i \in DOMAIN rules : rules[i].depth \in 0 .. IpBits /\ rules[i].depth \in Int
  BY <1>2 DEF LpmRule
<1>4. covering = Match(rules, ip, 0 .. IpBits)
  BY <1>3 DEF Match
<1>5. bulk = TblEntry(lpm, ip)
  BY DEF rte_lpm_lookup_bulk_func
<1>6. /\ found = [ret |-> IF best = 0 THEN "-ENOENT" ELSE "0", next_hop |-> hop]
      /\ RTE_LPM_LOOKUP_SUCCESS(bulk) <=> best # 0
      /\ NextHop(bulk) = hop
  <2> HIDE DEF bulk
  <2> QED
    BY <1>1, <1>5, LookupIs
<1>7. IF covering = {} THEN best = 0
      ELSE /\ best \in covering
           /\ \A j \in covering : \/ rules[j].depth < rules[best].depth
                                  \/ rules[j].depth = rules[best].depth /\ j <= best
  <2> HIDE DEF covering
  <2> QED
    BY <1>1, <1>4, BestIs
<1>8. covering \subseteq DOMAIN rules
  OBVIOUS
<1> HIDE DEF covering, found, bulk, best
<1>9. (found.ret = "0") = (covering # {})
  <2>1. best = 0 <=> covering = {}
    BY <1>2, <1>7, <1>8
  <2> QED
    BY <1>6, <2>1
<1>10. RTE_LPM_LOOKUP_SUCCESS(bulk) = (covering # {})
  <2>1. best = 0 <=> covering = {}
    BY <1>2, <1>7, <1>8
  <2>2. RTE_LPM_LOOKUP_SUCCESS(bulk) \in BOOLEAN
    BY DEF RTE_LPM_LOOKUP_SUCCESS
  <2> QED
    BY <1>6, <2>1, <2>2
<1>11. ASSUME covering # {}
       PROVE  \E i \in covering :
                /\ \A j \in covering : rules[j].depth <= rules[i].depth
                /\ \A j \in covering : rules[j].depth = rules[i].depth => j <= i
                /\ found.next_hop = rules[i].if_out /\ NextHop(bulk) = rules[i].if_out
  <2>1. best \in covering /\ best # 0
    BY <1>2, <1>7, <1>8, <1>11
  <2>2. found.next_hop = rules[best].if_out /\ NextHop(bulk) = rules[best].if_out
    BY <1>6, <2>1
  <2>3. ASSUME NEW j \in covering
        PROVE  rules[j].depth <= rules[best].depth /\ (rules[j].depth = rules[best].depth => j <= best)
    <3>1. rules[j].depth \in Int /\ rules[best].depth \in Int
      BY <1>3, <1>8, <2>1
    <3>2. rules[j].depth < rules[best].depth \/ (rules[j].depth = rules[best].depth /\ j <= best)
      BY <1>7, <1>11
    <3> QED
      BY <3>1, <3>2
  <2> QED
    BY <2>1, <2>2, <2>3
<1> QED
  BY <1>9, <1>10, <1>11 DEF covering, found, bulk

\* Both lookups of src/ext/rte_lpm.c, the single and the bulk one, find the
\* deepest rule of the table that covers an address, and of equally deep ones
\* the last added, whatever the rules and however wide the two tables.
THEOREM LookupsFindDeepest == Spec => []LpmLongest
<1>1. LBInv => LpmLongest
  BY LBInvLpm
<1> QED
  BY <1>1, LoadBalancerInvariant, PTL

LEMMA LBInvFlow == LBInv => FlowOrder
<1> SUFFICES ASSUME LBInv, NEW p \in Ports, NEW i \in DOMAIN sent[p], NEW j \in DOMAIN sent[p], i < j,
                    RssQueue(Packets[sent[p][i]]) = RssQueue(Packets[sent[p][j]]),
                    Packets[sent[p][i]].lb % n_workers = Packets[sent[p][j]].lb % n_workers
             PROVE  sent[p][i] < sent[p][j]
  BY DEF FlowOrder
<1> DEFINE l == <<"sent", p>>  c == Content  a == c[l][i]  b == c[l][j]
<1>1. Held(Goals, Content, freed) /\ sent[p] \in Seq(Ids)
  BY DEF LBInv, TypeOK
<1>2. l \in Places /\ c[l] = sent[p]
  BY PlaceTypes, ContentNow DEF ContentHolds
<1>3. i \in 1 .. Len(c[l]) /\ j \in 1 .. Len(c[l]) /\ i \in Int /\ j \in Int
  BY <1>1, <1>2, LenProperties
<1>4. Queue(a) = Queue(b) /\ Worker(a) = Worker(b)
  BY <1>2 DEF Queue, Worker
<1> HIDE DEF c
<1>5. Home(Goals, l, a) /\ Home(Goals, l, b) /\ a \in Nat /\ b \in Nat
  <2> HIDE DEF l
  <2> QED
    BY <1>1, <1>2, <1>3, HeldIs DEF c
<1>6. Goals[a] = Goals[b]
  <2>1. Goals[a] = p /\ Goals[b] = p
    <3> HIDE DEF a, b
    <3> QED
      BY <1>5 DEF Home
  <2> QED
    BY <2>1
<1>7. Flow(Goals, b, a)
  BY <1>4, <1>6 DEF Flow
<1>8. ASSUME b <= a PROVE FALSE
  <2>1. Stage(l) > Stage(l) \/ j <= i
    <3> HIDE DEF l
    <3> QED
      BY <1>1, <1>2, <1>3, <1>7, <1>8 DEF Held, c
  <2>2. Stage(l) \in Int
    BY <1>2, StageType
  <2> QED
    BY <1>3, <2>1, <2>2
<1> QED
  BY <1>2, <1>5, <1>8

\* What the NIC takes of one flow, by one queue and one worker, leaves in the
\* order it came, for any interleaving of the lcores and any packets dropped.
THEOREM FlowsKeepOrder == Spec => []FlowOrder
<1>1. LBInv => FlowOrder
  BY LBInvFlow
<1> QED
  BY <1>1, LoadBalancerInvariant, PTL

LEMMA LBInvRouted == LBInv => RoutedLongest
<1> SUFFICES ASSUME LBInv PROVE RoutedLongest
  OBVIOUS
<1> DEFINE Goal(id) == LET best == Best(rules, Packets[id].ip, 0 .. IpBits)
                       IN  IF best = 0 THEN Packets[id].port ELSE rules[best].if_out
<1>1. /\ Held(Goals, Content, freed) /\ w_out \in [Ports \X Workers -> Outs]
      /\ tx_out \in [Ports -> Outs] /\ sent \in [Ports -> Seq(Ids)]
  BY DEF LBInv, TypeOK
<1>2. \A id \in Ids : Goals[id] = Goal(id)
  BY DEF Goals, GoalBy
<1> HIDE DEF Goal
<1>3. ASSUME NEW l \in Places, l[1] # "nic", phase # "run" PROVE Content[l] = << >>
  BY <1>3 DEF LBInv, Start, Unreceived
<1>4. ASSUME NEW l \in Places, NEW id \in Lists(Content[l]) PROVE id \in Ids /\ Home(Goals, l, id)
  <2> DEFINE t == Content[l]
  <2>1. t \in Seq(Ids)
    BY <1>1 DEF Held
  <2> HIDE DEF t
  <2>2. id \in Ids /\ \E i \in 1 .. Len(t) : t[i] = id
    BY <1>4, <2>1, ListsIs DEF t
  <2>3. PICK i \in 1 .. Len(Content[l]) : Content[l][i] = id
    BY <2>2 DEF t
  <2>4. Home(Goals, l, Content[l][i])
    BY <1>1 DEF Held
  <2> QED
    BY <2>2, <2>3, <2>4
<1>5. ASSUME NEW x \in DOMAIN w_out, NEW id \in Ids, id \in Lists(w_out[x].array)
      PROVE  Goal(id) = x[1] /\ x[1] \in nic_tx_ports
  <2> DEFINE l == <<"wout", x>>
  <2>1. x \in Ports \X Workers
    BY <1>1
  <2>2. l \in Places /\ Content[l] = w_out[x].array /\ l[1] # "nic"
    BY <2>1, PlaceTypes, ContentNow DEF ContentHolds
  <2>3. Home(Goals, l, id)
    BY <1>4, <1>5, <2>2
  <2>4. x = <<Goals[id], Worker(id)>>
    BY <2>3 DEF Home
  <2>5. x[1] = Goals[id]
    BY <2>4
  <2>6. phase = "run"
    <3> SUFFICES ASSUME phase # "run" PROVE FALSE
      OBVIOUS
    <3> HIDE DEF l
    <3>1. w_out[x].array = << >>
      BY <1>3, <2>2
    <3> QED
      BY <1>5, <3>1 DEF Lists
  <2> QED
    BY <1>2, <2>5, <2>6, RouteIs
<1>6. ASSUME NEW p \in Ports, NEW id \in Lists(tx_out[p].array \o sent[p]) PROVE Goal(id) = p
  <2> DEFINE l == <<"tx", p>>  m == <<"sent", p>>  t == tx_out[p].array  u == sent[p]
  <2>1. l \in Places /\ m \in Places /\ Content[l] = t /\ Content[m] = u
    BY PlaceTypes, ContentNow DEF ContentHolds
  <2>2. t \in Seq(Ids) /\ u \in Seq(Ids)
    BY <1>1 DEF Outs
  <2>3. id \in Lists(t \o u)
    OBVIOUS
  <2> HIDE DEF t, u
  <2>4. id \in Lists(t) \/ id \in Lists(u)
    <3>1. /\ t \o u \in Seq(Ids) /\ Len(t \o u) = Len(t) + Len(u)
          /\ \A i \in 1 .. Len(t) + Len(u) : (t \o u)[i] = IF i <= Len(t) THEN t[i] ELSE u[i - Len(t)]
      BY <2>2, ConcatProperties
    <3>2. PICK i \in 1 .. Len(t \o u) : (t \o u)[i] = id
      BY <2>3, <3>1, ListsIs
    <3>3. Len(t) \in Nat /\ Len(u) \in Nat
      BY <2>2, LenProperties
    <3>4. CASE i <= Len(t)
      <4>1. i \in 1 .. Len(t) /\ t[i] = id
        BY <3>1, <3>2, <3>3, <3>4
      <4> QED
        BY <2>2, <4>1, ListsIs
    <3>5. CASE ~(i <= Len(t))
      <4>1. i - Len(t) \in 1 .. Len(u) /\ u[i - Len(t)] = id
        BY <3>1, <3>2, <3>3, <3>5
      <4> QED
        BY <2>2, <4>1, ListsIs
    <3> QED
      BY <3>4, <3>5
  <2>5. CASE id \in Lists(t)
    <3>1. id \in Ids /\ Home(Goals, l, id)
      BY <1>4, <2>1, <2>5
    <3>2. p = Goals[id]
      BY <3>1 DEF Home
    <3> QED
      BY <1>2, <3>1, <3>2
  <2>6. CASE id \in Lists(u)
    <3>1. id \in Ids /\ Home(Goals, m, id)
      BY <1>4, <2>1, <2>6
    <3>2. p = Goals[id]
      BY <3>1 DEF Home
    <3> QED
      BY <1>2, <3>1, <3>2
  <2> QED
    BY <2>4, <2>5, <2>6
<1> QED
  BY <1>5, <1>6 DEF RoutedLongest, Goal

\* A packet waits, and is sent, only at the port its deepest rule names, or at
\* its own on a miss, and that port is one app_check_lpm_table and
\* app_check_every_rx_port_is_tx_enabled have found transmitted from.
THEOREM PacketsGoByDeepestRule == Spec => []RoutedLongest
<1>1. LBInv => RoutedLongest
  BY LBInvRouted
<1> QED
  BY <1>1, LoadBalancerInvariant, PTL

LEMMA LBInvOnce == LBInv => PacketOnce
<1> SUFFICES ASSUME LBInv PROVE PacketOnce
  OBVIOUS
<1> DEFINE all == {<<"nic", q, nic[q]>> : q \in DOMAIN nic} \cup {<<"burst", 0, io.burst>>}
                  \cup {<<"bulk", w, wk[w].bulk>> : w \in Workers}
                  \cup {<<"rx", w, rx_out[w].array>> : w \in Workers}
                  \cup {<<"rxring", w, rx_ring[w]>> : w \in Workers}
                  \cup {<<"tx", p, tx_out[p].array>> : p \in Ports}
                  \cup {<<"sent", p, sent[p]>> : p \in Ports}
                  \cup {<<"wout", x, w_out[x].array>> : x \in DOMAIN w_out}
                  \cup {<<"txring", x, tx_ring[x]>> : x \in Pairs}
           T(l) == <<l[1], l[2], Content[l]>>
<1>1. /\ Held(Goals, Content, freed) /\ DOMAIN nic = Lists(nic_queues) /\ DOMAIN w_out = Ports \X Workers
      /\ Content \in [Places -> Seq(Ids)] /\ freed \subseteq Ids
  BY DEF LBInv, TypeOK, Held
<1>2. ASSUME NEW l \in Places PROVE T(l) \in all
  <2>1. CASE \E q \in Lists(nic_queues) : l = <<"nic", q>>
    BY <1>1, <2>1, ContentNow DEF ContentHolds
  <2>2. CASE l = <<"burst", 0>>
    BY <2>2, ContentNow DEF ContentHolds
  <2>3. CASE \E w \in Workers : l \in {<<"rx", w>>, <<"rxring", w>>, <<"bulk", w>>}
    <3>1. PICK w \in Workers : l \in {<<"rx", w>>, <<"rxring", w>>, <<"bulk", w>>}
      BY <2>3
    <3>2. /\ Content[<<"rx", w>>] = rx_out[w].array /\ Content[<<"rxring", w>>] = rx_ring[w]
          /\ Content[<<"bulk", w>>] = wk[w].bulk
      BY ContentNow DEF ContentHolds
    <3>3. CASE l = <<"rx", w>>
      <4>1. T(l) = <<"rx", w, rx_out[w].array>>
        BY <3>2, <3>3
      <4> HIDE DEF T
      <4> QED
        BY <4>1
    <3>4. CASE l = <<"rxring", w>>
      <4>1. T(l) = <<"rxring", w, rx_ring[w]>>
        BY <3>2, <3>4
      <4> HIDE DEF T
      <4> QED
        BY <4>1
    <3>5. CASE l = <<"bulk", w>>
      <4>1. T(l) = <<"bulk", w, wk[w].bulk>>
        BY <3>2, <3>5
      <4> HIDE DEF T
      <4> QED
        BY <4>1
    <3> QED
      BY <3>1, <3>3, <3>4, <3>5
  <2>4. CASE \E x \in Ports \X Workers : l = <<"wout", x>>
    BY <1>1, <2>4, ContentNow DEF ContentHolds
  <2>5. CASE \E x \in Pairs : l = <<"txring", x>>
    BY <2>5, ContentNow DEF ContentHolds
  <2>6. CASE \E p \in Ports : l \in {<<"tx", p>>, <<"sent", p>>}
    <3>1. PICK p \in Ports : l \in {<<"tx", p>>, <<"sent", p>>}
      BY <2>6
    <3>2. Content[<<"tx", p>>] = tx_out[p].array /\ Content[<<"sent", p>>] = sent[p]
      BY ContentNow DEF ContentHolds
    <3>3. CASE l = <<"tx", p>>
      <4>1. T(l) = <<"tx", p, tx_out[p].array>>
        BY <3>2, <3>3
      <4> HIDE DEF T
      <4> QED
        BY <4>1
    <3>4. CASE l = <<"sent", p>>
      <4>1. T(l) = <<"sent", p, sent[p]>>
        BY <3>2, <3>4
      <4> HIDE DEF T
      <4> QED
        BY <4>1
    <3> QED
      BY <3>1, <3>3, <3>4
  <2> HIDE DEF T, all
  <2> QED
    BY <2>1, <2>2, <2>3, <2>4, <2>5, <2>6, PlaceKinds
<1>3. ASSUME NEW t \in all PROVE \E l \in Places : t = T(l)
  <2>1. ASSUME NEW q \in Lists(nic_queues), t = <<"nic", q, nic[q]>> PROVE \E l \in Places : t = T(l)
    <3>1. <<"nic", q>> \in Places /\ Content[<<"nic", q>>] = nic[q]
      BY PlaceTypes, ContentNow DEF ContentHolds
    <3> QED
      BY <2>1, <3>1
  <2>2. ASSUME t = <<"burst", 0, io.burst>> PROVE \E l \in Places : t = T(l)
    <3>1. <<"burst", 0>> \in Places /\ Content[<<"burst", 0>>] = io.burst
      BY PlaceTypes, ContentNow DEF ContentHolds
    <3> QED
      BY <2>2, <3>1
  <2>3. ASSUME NEW w \in Workers,
               t \in {<<"bulk", w, wk[w].bulk>>, <<"rx", w, rx_out[w].array>>, <<"rxring", w, rx_ring[w]>>}
        PROVE  \E l \in Places : t = T(l)
    <3>1. /\ <<"rx", w>> \in Places /\ <<"rxring", w>> \in Places /\ <<"bulk", w>> \in Places
          /\ Content[<<"rx", w>>] = rx_out[w].array /\ Content[<<"rxring", w>>] = rx_ring[w]
          /\ Content[<<"bulk", w>>] = wk[w].bulk
      BY PlaceTypes, ContentNow DEF ContentHolds
    <3> QED
      BY <2>3, <3>1
  <2>4. ASSUME NEW p \in Ports, t \in {<<"tx", p, tx_out[p].array>>, <<"sent", p, sent[p]>>}
        PROVE  \E l \in Places : t = T(l)
    <3>1. /\ <<"tx", p>> \in Places /\ <<"sent", p>> \in Places
          /\ Content[<<"tx", p>>] = tx_out[p].array /\ Content[<<"sent", p>>] = sent[p]
      BY PlaceTypes, ContentNow DEF ContentHolds
    <3> QED
      BY <2>4, <3>1
  <2>5. ASSUME NEW x \in Ports \X Workers, t = <<"wout", x, w_out[x].array>> PROVE \E l \in Places : t = T(l)
    <3>1. <<"wout", x>> \in Places /\ Content[<<"wout", x>>] = w_out[x].array
      BY PlaceTypes, ContentNow DEF ContentHolds
    <3> QED
      BY <2>5, <3>1
  <2>6. ASSUME NEW x \in Pairs, t = <<"txring", x, tx_ring[x]>> PROVE \E l \in Places : t = T(l)
    <3>1. <<"txring", x>> \in Places /\ Content[<<"txring", x>>] = tx_ring[x]
      BY PlaceTypes, ContentNow DEF ContentHolds
    <3> QED
      BY <2>6, <3>1
  <2> HIDE DEF T
  <2> QED
    BY <1>1, <2>1, <2>2, <2>3, <2>4, <2>5, <2>6
<1> HIDE DEF all
<1>4. ASSUME NEW id \in Ids
      PROVE  LET where == {t \in all : id \in Lists(t[3])}
             IN  /\ Cardinality(where) = IF id \in freed THEN 0 ELSE 1
                 /\ \A t \in where : Cardinality({i \in DOMAIN t[3] : t[3][i] = id}) = 1
  <2> DEFINE where == {t \in all : id \in Lists(t[3])}
  <2>1. ASSUME NEW t \in where
        PROVE  \E l \in Places : t = T(l) /\ t[3] = Content[l] /\ \E i \in 1 .. Len(Content[l]) : Content[l][i] = id
    <3>1. PICK l \in Places : t = T(l)
      BY <1>3
    <3>2. t[3] = Content[l]
      BY <3>1
    <3> DEFINE u == Content[l]
    <3>3. u \in Seq(Ids) /\ id \in Lists(u)
      BY <1>1, <3>2
    <3> HIDE DEF u
    <3>4. \E i \in 1 .. Len(u) : u[i] = id
      BY <3>3, ListsIs
    <3> QED
      BY <3>1, <3>2, <3>4 DEF u
  <2>2. ASSUME NEW l \in Places, NEW i \in 1 .. Len(Content[l]), Content[l][i] = id PROVE T(l) \in where
    <3>1. T(l) \in all /\ T(l)[3] = Content[l]
      BY <1>2
    <3> DEFINE u == Content[l]
    <3>2. u \in Seq(Ids) /\ i \in 1 .. Len(u) /\ u[i] = id
      BY <1>1, <2>2
    <3> HIDE DEF u
    <3>3. id \in Lists(u)
      BY <3>2, ListsIs
    <3> HIDE DEF T
    <3> QED
      BY <3>1, <3>3 DEF u
  <2> HIDE DEF where
  <2>3. Cardinality(where) = IF id \in freed THEN 0 ELSE 1
    <3>1. CASE id \in freed
      <4>1. where = {}
        <5> SUFFICES ASSUME NEW t \in where PROVE FALSE
          OBVIOUS
        <5>1. PICK l \in Places : \E i \in 1 .. Len(Content[l]) : Content[l][i] = id
          BY <2>1
        <5>2. PICK i \in 1 .. Len(Content[l]) : Content[l][i] = id
          BY <5>1
        <5>3. Content[l][i] \notin freed
          BY <1>1 DEF Held
        <5> QED
          BY <3>1, <5>2, <5>3
      <4> QED
        BY <3>1, <4>1, FS_EmptySet
    <3>2. CASE id \notin freed
      <4>1. PICK l \in Places : \E i \in 1 .. Len(Content[l]) : Content[l][i] = id
        BY <1>1, <3>2 DEF Held
      <4>2. PICK i \in 1 .. Len(Content[l]) : Content[l][i] = id
        BY <4>1
      <4>3. T(l) \in where
        BY <2>2, <4>2
      <4>4. ASSUME NEW t \in where PROVE t = T(l)
        <5>1. PICK m \in Places : t = T(m) /\ \E j \in 1 .. Len(Content[m]) : Content[m][j] = id
          BY <2>1
        <5>2. PICK j \in 1 .. Len(Content[m]) : Content[m][j] = id
          BY <5>1
        <5>3. l = m
          BY <1>1, <4>2, <5>2, HeldIs
        <5> QED
          BY <5>1, <5>3
      <4> HIDE DEF T
      <4>5. where = {T(l)}
        BY <4>3, <4>4
      <4> QED
        BY <3>2, <4>5, FS_Singleton
    <3> QED
      BY <3>1, <3>2
  <2>4. ASSUME NEW t \in where PROVE Cardinality({i \in DOMAIN t[3] : t[3][i] = id}) = 1
    <3>1. PICK l \in Places : t[3] = Content[l] /\ \E i \in 1 .. Len(Content[l]) : Content[l][i] = id
      BY <2>1
    <3>2. PICK i \in 1 .. Len(Content[l]) : Content[l][i] = id
      BY <3>1
    <3>3. DOMAIN t[3] = 1 .. Len(Content[l])
      <4>1. Content[l] \in Seq(Ids)
        BY <1>1
      <4> QED
        BY <3>1, <4>1, LenProperties
    <3>4. ASSUME NEW j \in DOMAIN t[3], t[3][j] = id PROVE j = i
      BY <1>1, <3>1, <3>2, <3>3, <3>4, HeldIs
    <3>5. {j \in DOMAIN t[3] : t[3][j] = id} = {i}
      BY <3>1, <3>2, <3>3, <3>4
    <3> QED
      BY <3>5, FS_Singleton
  <2> QED
    BY <2>3, <2>4 DEF where
<1> QED
  BY <1>4 DEF PacketOnce, all

\* No packet is lost, or in two places, between the lcores: what a full ring or
\* the NIC refuses is freed, whole and once.
THEOREM PacketsInOnePlace == Spec => []PacketOnce
<1>1. LBInv => PacketOnce
  BY LBInvOnce
<1> QED
  BY <1>1, LoadBalancerInvariant, PTL
=============================================================================

-------------------------- MODULE RteMemcpyProofs --------------------------
(***************************************************************************)
(* Proofs about RteMemcpy for every build, alignment and length: rte_memcpy *)
(* (src/src/ext/rte_memcpy.c) copies exactly the bytes it was asked for    *)
(* and loads nothing beyond the source.                                    *)
(***************************************************************************)
EXTENDS RteMemcpy, TLAPS

----------------------------------------------------------------------------
(* Vector moves leave no gap.                                               *)

LEMMA Vectors64 ==
  ASSUME NEW q \in Nat
  PROVE  Vectors(64 * q, 64) = 0 .. 64 * q - 1
<1>1. (64 * q) \div 64 = q
  OBVIOUS
<1>2. ASSUME NEW j \in 0 .. 64 * q - 1
      PROVE  j \div 64 \in 0 .. q - 1 /\ j \in (j \div 64) * 64 .. (j \div 64) * 64 + 64 - 1
  OBVIOUS
<1>3. ASSUME NEW k \in 0 .. q - 1, NEW j \in k * 64 .. k * 64 + 64 - 1
      PROVE  j \in 0 .. 64 * q - 1
  OBVIOUS
<1> QED
  BY <1>1, <1>2, <1>3, ZenonT(30) DEF Vectors

LEMMA Vectors32 ==
  ASSUME NEW q \in Nat
  PROVE  Vectors(32 * q, 32) = 0 .. 32 * q - 1
<1>1. (32 * q) \div 32 = q
  OBVIOUS
<1>2. ASSUME NEW j \in 0 .. 32 * q - 1
      PROVE  j \div 32 \in 0 .. q - 1 /\ j \in (j \div 32) * 32 .. (j \div 32) * 32 + 32 - 1
  OBVIOUS
<1>3. ASSUME NEW k \in 0 .. q - 1, NEW j \in k * 32 .. k * 32 + 32 - 1
      PROVE  j \in 0 .. 32 * q - 1
  OBVIOUS
<1> QED
  BY <1>1, <1>2, <1>3 DEF Vectors

LEMMA Vectors16 ==
  ASSUME NEW q \in Nat
  PROVE  Vectors(16 * q, 16) = 0 .. 16 * q - 1
<1>1. (16 * q) \div 16 = q
  OBVIOUS
<1>2. ASSUME NEW j \in 0 .. 16 * q - 1
      PROVE  j \div 16 \in 0 .. q - 1 /\ j \in (j \div 16) * 16 .. (j \div 16) * 16 + 16 - 1
  OBVIOUS
<1>3. ASSUME NEW k \in 0 .. q - 1, NEW j \in k * 16 .. k * 16 + 16 - 1
      PROVE  j \in 0 .. 16 * q - 1
  OBVIOUS
<1> QED
  BY <1>1, <1>2, <1>3 DEF Vectors

(* The widths of the moves the code makes.                                  *)
Widths == {1, 2, 4, 8, 16, 32, 64, 128, 256, 512}

LEMMA MovesWhole ==
  ASSUME NEW w \in Widths
  PROVE  rte_mov_avx512(w) = 0 .. w - 1 /\ rte_mov_avx2(w) = 0 .. w - 1 /\ rte_mov_sse(w) = 0 .. w - 1
<1>1. /\ w < 64 \/ \E q \in Nat : w = 64 * q
      /\ w < 32 \/ \E q \in Nat : w = 32 * q
      /\ w < 16 \/ \E q \in Nat : w = 16 * q
  BY DEF Widths
<1>2. rte_mov_avx512(w) = 0 .. w - 1
  BY <1>1, Vectors64 DEF rte_mov_avx512
<1>3. rte_mov_avx2(w) = 0 .. w - 1
  BY <1>1, Vectors32 DEF rte_mov_avx2
<1>4. rte_mov_sse(w) = 0 .. w - 1
  BY <1>1, Vectors16 DEF rte_mov_sse
<1> QED
  BY <1>2, <1>3, <1>4

LEMMA CallTypes ==
  ASSUME TypeOK
  PROVE  /\ call.isa \in {"avx512", "avx2", "sse"}
         /\ call.da \in 0 .. 63 /\ call.sa \in 0 .. 63 /\ call.len \in Nat
         /\ read.lo \in Int /\ read.hi \in Int
  BY MemcpyAssumption DEF TypeOK

LEMMA TouchedWhole ==
  ASSUME TypeOK, NEW p \in Int \X Widths
  PROVE  \A b : b \in Touched(p) <=> b \in Int /\ p[1] <= b /\ b < p[1] + p[2]
<1>1. p[1] \in Int /\ p[2] \in Widths /\ p[2] \in Int
  BY DEF Widths
<1>2. Touched(p) = {p[1] + i : i \in 0 .. p[2] - 1}
  BY <1>1, MovesWhole, CallTypes DEF Touched
<1>3. ASSUME NEW b \in Int, p[1] <= b, b < p[1] + p[2]
      PROVE  b \in {p[1] + i : i \in 0 .. p[2] - 1}
  <2>1. b - p[1] \in 0 .. p[2] - 1 /\ b = p[1] + (b - p[1])
    BY <1>1, <1>3
  <2> QED
    BY <2>1, Zenon
<1>4. ASSUME NEW i \in 0 .. p[2] - 1
      PROVE  p[1] + i \in Int /\ p[1] <= p[1] + i /\ p[1] + i < p[1] + p[2]
  BY <1>1
<1> QED
  BY <1>2, <1>3, <1>4

LEMMA MinIs ==
  ASSUME NEW S \in SUBSET Int, NEW x \in S, \A y \in S : x <= y
  PROVE  Min(S) = x
<1>1. \A z \in S : (\A y \in S : z <= y) => z = x
  OBVIOUS
<1> QED
  BY <1>1 DEF Min

LEMMA MaxIs ==
  ASSUME NEW S \in SUBSET Int, NEW x \in S, \A y \in S : y <= x
  PROVE  Max(S) = x
<1>1. \A z \in S : (\A y \in S : z >= y) => z = x
  OBVIOUS
<1>2. \A y \in S : x >= y
  OBVIOUS
<1> QED
  BY <1>1, <1>2 DEF Max

LEMMA MinOfTwo ==
  ASSUME NEW a \in Int, NEW b \in Int
  PROVE  Min({a, b}) \in {a, b}
<1> DEFINE S == {a, b}
<1>1. S \in SUBSET Int /\ a \in S /\ b \in S
  OBVIOUS
<1>2. CASE a <= b
  <2>1. \A y \in S : a <= y
    BY <1>2
  <2> HIDE DEF S
  <2>2. Min(S) = a
    BY <1>1, <2>1, MinIs
  <2> QED
    BY <2>2, <1>1 DEF S
<1>3. CASE ~(a <= b)
  <2>1. \A y \in S : b <= y
    BY <1>3
  <2> HIDE DEF S
  <2>2. Min(S) = b
    BY <1>1, <2>1, MinIs
  <2> QED
    BY <2>2, <1>1 DEF S
<1> QED
  BY <1>2, <1>3

LEMMA MaxOfTwo ==
  ASSUME NEW a \in Int, NEW b \in Int
  PROVE  Max({a, b}) \in {a, b}
<1> DEFINE S == {a, b}
<1>1. S \in SUBSET Int /\ a \in S /\ b \in S
  OBVIOUS
<1>2. CASE b <= a
  <2>1. \A y \in S : y <= a
    BY <1>2
  <2> HIDE DEF S
  <2>2. Max(S) = a
    BY <1>1, <2>1, MaxIs
  <2> QED
    BY <2>2, <1>1 DEF S
<1>3. CASE ~(b <= a)
  <2>1. \A y \in S : y <= b
    BY <1>3
  <2> HIDE DEF S
  <2>2. Max(S) = b
    BY <1>1, <2>1, MaxIs
  <2> QED
    BY <2>2, <1>1 DEF S
<1> QED
  BY <1>2, <1>3

(* A store copies the bytes it touches, since dst and src keep pace.        *)
LEMMA StoreCopies ==
  ASSUME TypeOK, dst = src, NEW stores \in SUBSET Int, Store(stores)
  PROVE  \A b : b \in copied' <=> b \in copied \/ (b \in Int /\ b - dst \in stores)
<1>1. copied' = copied \cup {dst + i : i \in stores} /\ dst \in Int
  BY DEF Store, TypeOK
<1>2. ASSUME NEW b \in Int, b - dst \in stores
      PROVE  b \in {dst + i : i \in stores}
  <2>1. b = dst + (b - dst)
    BY <1>1
  <2> QED
    BY <2>1, <1>2, Zenon
<1>3. ASSUME NEW i \in stores
      PROVE  dst + i \in Int /\ (dst + i) - dst \in stores
  <2>1. (dst + i) - dst = i
    BY <1>1
  <2> QED
    BY <2>1, <1>1
<1> QED
  BY <1>1, <1>2, <1>3

(* A load in bounds keeps LoadBounds.                                       *)
LEMMA LoadKeeps ==
  ASSUME TypeOK, LoadBounds, call' = call, dst = src, NEW lo \in Int, NEW hi \in Int, Load(lo, hi),
         src + hi <= call.len, src + lo >= IF call.isa = "sse" THEN -(call.sa % 16) ELSE 0
  PROVE  LoadBounds' /\ read' \in [lo : Int, hi : Int]
<1>1. src \in Int /\ read.lo \in Int /\ read.hi \in Int /\ call.len \in Int
  BY CallTypes DEF TypeOK
<1>2. Min({read.lo, src + lo}) \in {read.lo, src + lo}
  BY <1>1, MinOfTwo
<1>3. Max({read.hi, src + hi}) \in {read.hi, src + hi}
  BY <1>1, MaxOfTwo
<1>4. read'.lo \in {read.lo, src + lo} /\ read'.hi \in {read.hi, src + hi}
  BY <1>2, <1>3 DEF Load
<1>5. read' \in [lo : Int, hi : Int]
  BY <1>1, <1>2, <1>3 DEF Load
<1> QED
  BY <1>1, <1>4, <1>5 DEF LoadBounds

(* A copy of pieces that lie within the call's bytes.                       *)
LEMMA CopyStep ==
  ASSUME TypeOK, LoadBounds, call' = call, dst = src, copied \subseteq 0 .. call.len - 1,
         NEW pieces \in SUBSET (Int \X Widths), Copy(pieces), NEW lo \in Int, NEW hi \in Int,
         lo = 0 \/ \E p \in pieces : lo = p[1],
         lo <= 0, \A p \in pieces : lo <= p[1],
         hi = 0 \/ \E p \in pieces : hi = p[1] + p[2],
         0 <= hi, \A p \in pieces : p[1] + p[2] <= hi,
         0 <= dst + lo, dst + hi <= call.len
  PROVE  /\ LoadBounds' /\ read' \in [lo : Int, hi : Int]
         /\ copied' \subseteq 0 .. call.len - 1
         /\ \A b : b \in copied' <=>
              \/ b \in copied
              \/ b \in Int /\ \E p \in pieces : dst + p[1] <= b /\ b < dst + p[1] + p[2]
<1>1. dst \in Int /\ call.len \in Int /\ call.sa \in 0 .. 63
  BY CallTypes DEF TypeOK
<1>2. ASSUME NEW p \in pieces
      PROVE  p \in Int \X Widths /\ p[1] \in Int /\ p[2] \in Int /\ p[1] + p[2] \in Int
  BY DEF Widths
<1> DEFINE stores == UNION {Touched(p) : p \in pieces}
           los == {p[1] : p \in pieces} \cup {0}
           his == {p[1] + p[2] : p \in pieces} \cup {0}
<1>3. Store(stores) /\ Load(Min(los), Max(his))
  BY DEF Copy
<1>4. Min(los) = lo
  <2>1. los \in SUBSET Int /\ lo \in los /\ \A y \in los : lo <= y
    BY <1>2
  <2> HIDE DEF los
  <2> QED
    BY <2>1, MinIs
<1>5. Max(his) = hi
  <2>1. his \in SUBSET Int /\ hi \in his /\ \A y \in his : y <= hi
    BY <1>2
  <2> HIDE DEF his
  <2> QED
    BY <2>1, MaxIs
<1>6. LoadBounds' /\ read' \in [lo : Int, hi : Int]
  <2>1. Load(lo, hi)
    BY <1>3, <1>4, <1>5
  <2>2. -(call.sa % 16) <= 0
    BY <1>1
  <2>3. src + hi <= call.len /\ src + lo >= IF call.isa = "sse" THEN -(call.sa % 16) ELSE 0
    BY <1>1, <2>2
  <2> QED
    BY <2>1, <2>3, LoadKeeps
<1>7. \A c : c \in stores <=> \E p \in pieces : c \in Int /\ p[1] <= c /\ c < p[1] + p[2]
  BY <1>2, TouchedWhole
<1>8. stores \in SUBSET Int
  BY <1>7
<1> HIDE DEF stores
<1>9. \A b : b \in copied' <=> b \in copied \/ (b \in Int /\ b - dst \in stores)
  BY <1>3, <1>8, StoreCopies
<1>10. ASSUME NEW b \in Int
       PROVE  b - dst \in stores <=> \E p \in pieces : dst + p[1] <= b /\ b < dst + p[1] + p[2]
  <2>1. b - dst \in Int /\ \A p \in pieces :
          /\ p[1] <= b - dst <=> dst + p[1] <= b
          /\ b - dst < p[1] + p[2] <=> b < dst + p[1] + p[2]
    BY <1>1, <1>2
  <2> QED
    BY <2>1, <1>7
<1>11. \A b : b \in copied' <=>
         \/ b \in copied
         \/ b \in Int /\ \E p \in pieces : dst + p[1] <= b /\ b < dst + p[1] + p[2]
  BY <1>9, <1>10
<1>12. copied' \subseteq 0 .. call.len - 1
  <2> SUFFICES ASSUME NEW b \in Int, NEW p \in pieces, dst + p[1] <= b, b < dst + p[1] + p[2]
               PROVE  b \in 0 .. call.len - 1
    BY <1>11
  <2>1. lo <= p[1] /\ p[1] + p[2] <= hi
    OBVIOUS
  <2> QED
    BY <2>1, <1>1, <1>2
<1> QED
  BY <1>6, <1>11, <1>12

----------------------------------------------------------------------------
(* What the invariant says, unfolded for the steps.                         *)

LEMMA Facts ==
  ASSUME MemInv
  PROVE  /\ TypeOK /\ LoadBounds
         /\ dst \in Nat /\ n \in Nat /\ size \in Nat /\ bits \in Nat /\ srcofs \in Nat
         /\ src = dst /\ dst + n = call.len /\ call.len \in Nat /\ bits <= n
         /\ call.isa \in {"avx512", "avx2", "sse"}
         /\ call.da \in 0 .. 63 /\ call.sa \in 0 .. 63
         /\ pc # "blocks" => bits = 0
         /\ copied \subseteq 0 .. call.len - 1
         /\ pc # "done" => \A b \in 0 .. dst + bits - 1 : b \in copied
  BY CallTypes DEF MemInv, TypeOK, Progress

(* A return: the pieces cover what is left.                                 *)
LEMMA ReturnInv ==
  ASSUME MemInv, call' = call, pc \notin {"blocks", "done"},
         NEW pieces \in SUBSET (Int \X Widths), Return(pieces), NEW lo \in Int,
         lo = 0 \/ \E p \in pieces : lo = p[1],
         lo <= 0, \A p \in pieces : lo <= p[1], 0 <= dst + lo,
         n = 0 \/ \E p \in pieces : n = p[1] + p[2],
         \A p \in pieces : p[1] + p[2] <= n,
         \A b \in dst .. call.len - 1 : \E p \in pieces : dst + p[1] <= b /\ b < dst + p[1] + p[2]
  PROVE  MemInv'
<1>1. /\ TypeOK /\ LoadBounds /\ dst \in Nat /\ n \in Nat /\ srcofs \in Nat /\ dst + n = call.len
      /\ src = dst /\ call.len \in Nat /\ bits = 0 /\ copied \subseteq 0 .. call.len - 1
      /\ \A b \in 0 .. dst + bits - 1 : b \in copied
  BY Facts
<1>2. /\ Copy(pieces) /\ dst' = dst /\ src' = src /\ n' = n /\ pc' = "done" /\ size' = 0 /\ bits' = 0
      /\ srcofs' = srcofs
  BY DEF Return, Stay, Goto
<1>3. /\ LoadBounds' /\ read' \in [lo : Int, hi : Int]
      /\ copied' \subseteq 0 .. call.len - 1
      /\ \A b : b \in copied' <=>
           \/ b \in copied
           \/ b \in Int /\ \E p \in pieces : dst + p[1] <= b /\ b < dst + p[1] + p[2]
  <2>1. dst = src /\ 0 <= n /\ dst + n <= call.len
    BY <1>1
  <2> QED
    BY <2>1, <1>1, <1>2, CopyStep
<1>4. ASSUME NEW b \in 0 .. call.len - 1 PROVE b \in copied'
  <2>1. CASE b < dst
    <3>1. b \in 0 .. dst + bits - 1
      BY <2>1, <1>1
    <3> QED
      BY <3>1, <1>1, <1>3
  <2>2. CASE dst <= b
    <3>1. b \in dst .. call.len - 1 /\ b \in Int
      BY <2>2, <1>1
    <3> QED
      BY <3>1, <1>3
  <2> QED
    BY <2>1, <2>2, <1>1
<1>5. TypeOK'
  <2>1. copied' \in SUBSET Nat
    BY <1>1, <1>3
  <2>2. call' \in [isa : Isas, da : DstAligns, sa : SrcAligns, len : Lengths]
    BY <1>1 DEF TypeOK
  <2> QED
    BY <2>1, <2>2, <1>1, <1>2, <1>3 DEF TypeOK
<1>6. Progress'
  <2>1. dst' = src' /\ dst' + n' = call'.len /\ bits' <= n' /\ (pc' # "blocks" => bits' = 0)
    BY <1>1, <1>2
  <2>2. copied' \subseteq 0 .. call'.len - 1 /\ 0 .. call'.len - 1 \subseteq copied'
    BY <1>3, <1>4
  <2> QED
    BY <2>1, <2>2, <1>2 DEF Progress
<1>7. AtRung' /\ AtAlign' /\ AtLoop' /\ AtLeft47'
  BY <1>2 DEF AtRung, AtAlign, AtLoop, AtLeft47
<1> QED
  BY <1>2, <1>3, <1>5, <1>6, <1>7 DEF MemInv

(* A jump: nothing moves.                                                   *)
LEMMA JumpInv ==
  ASSUME MemInv, call' = call, pc \notin {"blocks", "done"}, NEW label, NEW w \in Nat, Jump(label, w),
         label \in {"aligned", "generic", "rung", "align", "for"},
         label \in {"aligned", "generic"} => dst = 0,
         AtRung', AtAlign', AtLoop'
  PROVE  MemInv'
<1>1. UNCHANGED <<call, dst, src, n, srcofs, copied, read>> /\ pc' = label /\ size' = w /\ bits' = 0
  BY DEF Jump, Goto, Stay, NoCopy
<1>2. bits = 0 /\ n \in Nat /\ dst \in Nat
  BY Facts
<1>3. TypeOK'
  BY <1>1 DEF MemInv, TypeOK
<1>4. Progress'
  BY <1>1, <1>2 DEF MemInv, Progress
<1>5. LoadBounds'
  BY <1>1 DEF MemInv, LoadBounds
<1>6. AtLeft47' /\ pc' # "rte_memcpy"
  BY <1>1 DEF AtLeft47
<1> QED
  BY <1>1, <1>3, <1>4, <1>5, <1>6 DEF MemInv

(* A copy of w bytes at dst, and k <= w bytes on.                           *)
LEMMA CopyOn ==
  ASSUME MemInv, call' = call, pc \notin {"blocks", "done"}, NEW w \in Widths, NEW k \in Nat, k <= w,
         w <= n, Copy({<<0, w>>}), Advance(k)
  PROVE  /\ LoadBounds' /\ read' \in [lo : Int, hi : Int]
         /\ copied' \subseteq 0 .. call.len - 1 /\ copied' \in SUBSET Nat
         /\ dst' = dst + k /\ src' = dst' /\ n' = n - k /\ n' \in Nat /\ dst' \in Nat
         /\ dst' + n' = call.len
         /\ \A b \in 0 .. dst' - 1 : b \in copied'
<1>1. /\ TypeOK /\ LoadBounds /\ dst \in Nat /\ n \in Nat /\ dst + n = call.len
      /\ src = dst /\ call.len \in Nat /\ bits = 0 /\ copied \subseteq 0 .. call.len - 1
      /\ \A b \in 0 .. dst + bits - 1 : b \in copied
  BY Facts
<1>2. w \in Nat
  BY DEF Widths
<1>3. /\ dst' = dst + k /\ src' = dst' /\ n' = n - k /\ n' \in Nat /\ dst' \in Nat
      /\ dst' + n' = call.len
  BY <1>1, <1>2 DEF Advance
<1>4. /\ LoadBounds' /\ read' \in [lo : Int, hi : Int]
      /\ copied' \subseteq 0 .. call.len - 1
      /\ \A b : b \in copied' <=>
           \/ b \in copied
           \/ b \in Int /\ \E p \in {<<0, w>>} : dst + p[1] <= b /\ b < dst + p[1] + p[2]
  <2>1. {<<0, w>>} \in SUBSET (Int \X Widths) /\ 0 \in Int /\ w \in Int
    BY <1>2
  <2>2. /\ \A p \in {<<0, w>>} : 0 <= p[1] /\ p[1] + p[2] <= w
        /\ \E p \in {<<0, w>>} : w = p[1] + p[2]
    BY <1>2
  <2>3. dst = src /\ 0 <= w /\ 0 <= dst + 0 /\ dst + w <= call.len /\ 0 <= 0
    BY <1>1, <1>2
  <2>4. PICK pieces \in SUBSET (Int \X Widths) : pieces = {<<0, w>>}
    BY <2>1
  <2>5. /\ Copy(pieces)
        /\ \A p \in pieces : 0 <= p[1] /\ p[1] + p[2] <= w
        /\ \E p \in pieces : w = p[1] + p[2]
    BY <2>2, <2>4
  <2>6. /\ LoadBounds' /\ read' \in [lo : Int, hi : Int]
        /\ copied' \subseteq 0 .. call.len - 1
        /\ \A b : b \in copied' <=>
             \/ b \in copied
             \/ b \in Int /\ \E p \in pieces : dst + p[1] <= b /\ b < dst + p[1] + p[2]
    BY <2>1, <2>3, <2>5, <1>1, CopyStep
  <2> QED
    BY <2>4, <2>6
<1>5. ASSUME NEW b \in 0 .. dst' - 1 PROVE b \in copied'
  <2>1. CASE b < dst
    <3>1. b \in 0 .. dst + bits - 1
      BY <2>1, <1>1, <1>3
    <3> QED
      BY <3>1, <1>1, <1>4
  <2>2. CASE dst <= b
    <3>1. b \in Int /\ dst + 0 <= b /\ b < dst + 0 + w
      BY <2>2, <1>1, <1>2, <1>3
    <3>2. \E p \in {<<0, w>>} : dst + p[1] <= b /\ b < dst + p[1] + p[2]
      BY <3>1
    <3> QED
      BY <3>1, <3>2, <1>4
  <2> QED
    BY <2>1, <2>2, <1>1, <1>3
<1>6. copied' \in SUBSET Nat
  BY <1>1, <1>4
<1> QED
  BY <1>3, <1>4, <1>5, <1>6

(* n < 16: the bits of n, each from where the lower ones end.               *)
LEMMA SmallInv ==
  ASSUME MemInv, call' = call, pc \in {"aligned", "generic"}, n < 16, Return(SmallMoves)
  PROVE  MemInv'
<1>1. dst = 0 /\ n \in Nat /\ call.len = n /\ dst + 0 = 0
  BY Facts DEF MemInv
<1>2. \A p : p \in SmallMoves <=> \/ p = <<n % 1, 1>> /\ (n \div 1) % 2 = 1
                                  \/ p = <<n % 2, 2>> /\ (n \div 2) % 2 = 1
                                  \/ p = <<n % 4, 4>> /\ (n \div 4) % 2 = 1
                                  \/ p = <<n % 8, 8>> /\ (n \div 8) % 2 = 1
  BY DEF SmallMoves
<1>3. SmallMoves \in SUBSET (Int \X Widths)
  <2>1. n % 1 \in Int /\ n % 2 \in Int /\ n % 4 \in Int /\ n % 8 \in Int
    BY <1>1
  <2> QED
    BY <2>1, <1>2 DEF Widths
<1>4. \A p \in SmallMoves : 0 <= p[1] /\ p[1] + p[2] <= n
  <2>1. /\ 0 <= n % 1 /\ ((n \div 1) % 2 = 1 => (n % 1) + 1 <= n)
        /\ 0 <= n % 2 /\ ((n \div 2) % 2 = 1 => (n % 2) + 2 <= n)
        /\ 0 <= n % 4 /\ ((n \div 4) % 2 = 1 => (n % 4) + 4 <= n)
        /\ 0 <= n % 8 /\ ((n \div 8) % 2 = 1 => (n % 8) + 8 <= n)
    BY <1>1
  <2> QED
    BY <2>1, <1>2
<1>5. n = 0 \/ \E p \in SmallMoves : n = p[1] + p[2]
  <2>1. /\ n = 1 => (n \div 1) % 2 = 1 /\ n = (n % 1) + 1
        /\ n \in 2 .. 3 => (n \div 2) % 2 = 1 /\ n = (n % 2) + 2
        /\ n \in 4 .. 7 => (n \div 4) % 2 = 1 /\ n = (n % 4) + 4
        /\ n \in 8 .. 15 => (n \div 8) % 2 = 1 /\ n = (n % 8) + 8
        /\ n = 0 \/ n = 1 \/ n \in 2 .. 3 \/ n \in 4 .. 7 \/ n \in 8 .. 15
    BY <1>1
  <2>2. n = 1 => <<n % 1, 1>> \in SmallMoves
    BY <2>1, <1>2
  <2>3. n \in 2 .. 3 => <<n % 2, 2>> \in SmallMoves
    BY <2>1, <1>2
  <2>4. n \in 4 .. 7 => <<n % 4, 4>> \in SmallMoves
    BY <2>1, <1>2
  <2>5. n \in 8 .. 15 => <<n % 8, 8>> \in SmallMoves
    BY <2>1, <1>2
  <2> QED
    BY <2>1, <2>2, <2>3, <2>4, <2>5
<1>6. ASSUME NEW b \in dst .. call.len - 1
      PROVE  \E p \in SmallMoves : dst + p[1] <= b /\ b < dst + p[1] + p[2]
  <2>1. b \in 0 .. n - 1
    BY <1>1
  <2>2. \/ (n \div 1) % 2 = 1 /\ dst + (n % 1) <= b /\ b < dst + (n % 1) + 1
        \/ (n \div 2) % 2 = 1 /\ dst + (n % 2) <= b /\ b < dst + (n % 2) + 2
        \/ (n \div 4) % 2 = 1 /\ dst + (n % 4) <= b /\ b < dst + (n % 4) + 4
        \/ (n \div 8) % 2 = 1 /\ dst + (n % 8) <= b /\ b < dst + (n % 8) + 8
    BY <2>1, <1>1
  <2>3. CASE (n \div 1) % 2 = 1 /\ dst + (n % 1) <= b /\ b < dst + (n % 1) + 1
    <3>1. <<n % 1, 1>> \in SmallMoves
      BY <2>3, <1>2
    <3> QED
      BY <3>1, <2>3
  <2>4. CASE (n \div 2) % 2 = 1 /\ dst + (n % 2) <= b /\ b < dst + (n % 2) + 2
    <3>1. <<n % 2, 2>> \in SmallMoves
      BY <2>4, <1>2
    <3> QED
      BY <3>1, <2>4
  <2>5. CASE (n \div 4) % 2 = 1 /\ dst + (n % 4) <= b /\ b < dst + (n % 4) + 4
    <3>1. <<n % 4, 4>> \in SmallMoves
      BY <2>5, <1>2
    <3> QED
      BY <3>1, <2>5
  <2>6. CASE (n \div 8) % 2 = 1 /\ dst + (n % 8) <= b /\ b < dst + (n % 8) + 8
    <3>1. <<n % 8, 8>> \in SmallMoves
      BY <2>6, <1>2
    <3> QED
      BY <3>1, <2>6
  <2> QED
    BY <2>2, <2>3, <2>4, <2>5, <2>6
<1> QED
  BY <1>1, <1>3, <1>4, <1>5, <1>6, ReturnInv

(* The first and the last w bytes of at most 2 w.                           *)
LEMMA EndsInv ==
  ASSUME MemInv, call' = call, pc \notin {"blocks", "done"}, NEW w \in {16, 32, 64},
         w <= n, n <= 2 * w, Return(Ends(w))
  PROVE  MemInv'
<1>1. n \in Nat /\ dst \in Nat /\ dst + n = call.len
  BY Facts
<1>2. PICK pieces \in SUBSET (Int \X Widths) : pieces = {<<0, w>>, <<n - w, w>>}
  <2>1. {<<0, w>>, <<n - w, w>>} \in SUBSET (Int \X Widths)
    BY <1>1 DEF Widths
  <2> QED
    BY <2>1, Zenon
<1>3. /\ \A p \in pieces : 0 <= p[1] /\ p[1] + p[2] <= n
      /\ \E p \in pieces : n = p[1] + p[2]
  BY <1>1, <1>2
<1>4. ASSUME NEW b \in dst .. call.len - 1
      PROVE  \E p \in pieces : dst + p[1] <= b /\ b < dst + p[1] + p[2]
  <2>1. \/ dst + 0 <= b /\ b < dst + 0 + w
        \/ dst + (n - w) <= b /\ b < dst + (n - w) + w
    BY <1>1
  <2> QED
    BY <2>1, <1>2
<1>5. pieces = Ends(w)
  BY <1>2 DEF Ends
<1>6. Return(pieces)
  BY <1>5, Zenon
<1>7. 0 <= dst + 0 /\ 0 \in Int /\ 0 <= 0
  BY <1>1
<1> QED
  BY <1>3, <1>4, <1>6, <1>7, ReturnInv

(* The last w bytes, of which at most w are left.                           *)
LEMMA BackInv ==
  ASSUME MemInv, call' = call, pc \notin {"blocks", "done"}, NEW w \in {16, 32, 64},
         n <= w, w <= call.len, Return({<<n - w, w>>})
  PROVE  MemInv'
<1>1. n \in Nat /\ dst \in Nat /\ dst + n = call.len
  BY Facts
<1>2. PICK pieces \in SUBSET (Int \X Widths) : pieces = {<<n - w, w>>}
  BY <1>1 DEF Widths
<1>3. PICK lo \in Int : lo = n - w /\ lo <= 0 /\ 0 <= dst + lo
  BY <1>1
<1>4. /\ \A p \in pieces : lo <= p[1] /\ p[1] + p[2] <= n
      /\ \E p \in pieces : n = p[1] + p[2]
      /\ \E p \in pieces : lo = p[1]
  BY <1>1, <1>2, <1>3
<1>5. ASSUME NEW b \in dst .. call.len - 1
      PROVE  \E p \in pieces : dst + p[1] <= b /\ b < dst + p[1] + p[2]
  <2>1. dst + (n - w) <= b /\ b < dst + (n - w) + w
    BY <1>1
  <2> QED
    BY <2>1, <1>2
<1>6. Return(pieces)
  BY <1>2
<1> QED
  BY <1>3, <1>4, <1>5, <1>6, ReturnInv

LEMMA NothingLeft ==
  ASSUME MemInv, call' = call, pc \notin {"blocks", "done"}, n = 0, Return({})
  PROVE  MemInv'
<1>1. dst \in Nat /\ dst + n = call.len
  BY Facts
<1>2. PICK pieces \in SUBSET (Int \X Widths) : pieces = {}
  OBVIOUS
<1>3. Return(pieces) /\ 0 \in Int /\ 0 <= 0 /\ 0 <= dst + 0 /\ dst .. call.len - 1 = {}
  BY <1>1, <1>2
<1> QED
  BY <1>2, <1>3, ReturnInv

(* 33 to 64 bytes with moves of at most 32.                                 *)
LEMMA MiddleInv ==
  ASSUME MemInv, call' = call, pc = "generic",
         \/ n \in 33 .. 48 /\ Return(Ends(16) \cup {<<16, 16>>})
         \/ n \in 33 .. 48 /\ Return({<<0, 32>>, <<n - 16, 16>>})
         \/ n \in 49 .. 64 /\ Return({<<0, 32>>, <<32, 16>>, <<n - 16, 16>>})
  PROVE  MemInv'
<1>1. n \in Nat /\ dst \in Nat /\ dst + n = call.len
  BY Facts
<1>2. 0 <= dst + 0 /\ 0 \in Int /\ 0 <= 0
  BY <1>1
<1>3. CASE n \in 33 .. 48 /\ Return(Ends(16) \cup {<<16, 16>>})
  <2>1. {<<0, 16>>, <<n - 16, 16>>, <<16, 16>>} \in SUBSET (Int \X Widths)
    BY <1>1 DEF Widths
  <2>2. PICK pieces \in SUBSET (Int \X Widths) : pieces = {<<0, 16>>, <<n - 16, 16>>, <<16, 16>>}
    BY <2>1, Zenon
  <2>3. pieces = Ends(16) \cup {<<16, 16>>}
    BY <2>2 DEF Ends
  <2>4. Return(pieces)
    BY <1>3, <2>3, Zenon
  <2>5. /\ \A p \in pieces : 0 <= p[1] /\ p[1] + p[2] <= n
        /\ \E p \in pieces : n = p[1] + p[2]
    BY <1>1, <1>3, <2>2
  <2>6. ASSUME NEW b \in dst .. call.len - 1
        PROVE  \E p \in pieces : dst + p[1] <= b /\ b < dst + p[1] + p[2]
    <3>1. \/ dst + 0 <= b /\ b < dst + 0 + 16
          \/ dst + 16 <= b /\ b < dst + 16 + 16
          \/ dst + (n - 16) <= b /\ b < dst + (n - 16) + 16
      BY <1>1, <1>3
    <3> QED
      BY <3>1, <2>2
  <2> QED
    BY <1>2, <2>4, <2>5, <2>6, ReturnInv
<1>4. CASE n \in 33 .. 48 /\ Return({<<0, 32>>, <<n - 16, 16>>})
  <2>1. {<<0, 32>>, <<n - 16, 16>>} \in SUBSET (Int \X Widths)
    BY <1>1 DEF Widths
  <2>2. PICK pieces \in SUBSET (Int \X Widths) : pieces = {<<0, 32>>, <<n - 16, 16>>}
    BY <2>1, Zenon
  <2>3. Return(pieces)
    BY <1>4, <2>2, Zenon
  <2>4. /\ \A p \in pieces : 0 <= p[1] /\ p[1] + p[2] <= n
        /\ \E p \in pieces : n = p[1] + p[2]
    BY <1>1, <1>4, <2>2
  <2>5. ASSUME NEW b \in dst .. call.len - 1
        PROVE  \E p \in pieces : dst + p[1] <= b /\ b < dst + p[1] + p[2]
    <3>1. \/ dst + 0 <= b /\ b < dst + 0 + 32
          \/ dst + (n - 16) <= b /\ b < dst + (n - 16) + 16
      BY <1>1, <1>4
    <3> QED
      BY <3>1, <2>2
  <2> QED
    BY <1>2, <2>3, <2>4, <2>5, ReturnInv
<1>5. CASE n \in 49 .. 64 /\ Return({<<0, 32>>, <<32, 16>>, <<n - 16, 16>>})
  <2>1. {<<0, 32>>, <<32, 16>>, <<n - 16, 16>>} \in SUBSET (Int \X Widths)
    BY <1>1 DEF Widths
  <2>2. PICK pieces \in SUBSET (Int \X Widths) : pieces = {<<0, 32>>, <<32, 16>>, <<n - 16, 16>>}
    BY <2>1, Zenon
  <2>3. Return(pieces)
    BY <1>5, <2>2, Zenon
  <2>4. /\ \A p \in pieces : 0 <= p[1] /\ p[1] + p[2] <= n
        /\ \E p \in pieces : n = p[1] + p[2]
    BY <1>1, <1>5, <2>2
  <2>5. ASSUME NEW b \in dst .. call.len - 1
        PROVE  \E p \in pieces : dst + p[1] <= b /\ b < dst + p[1] + p[2]
    <3>1. \/ dst + 0 <= b /\ b < dst + 0 + 32
          \/ dst + 32 <= b /\ b < dst + 32 + 16
          \/ dst + (n - 16) <= b /\ b < dst + (n - 16) + 16
      BY <1>1, <1>5
    <3> QED
      BY <3>1, <2>2
  <2> QED
    BY <1>2, <2>3, <2>4, <2>5, ReturnInv
<1> QED
  BY <1>3, <1>4, <1>5

----------------------------------------------------------------------------
(* One lemma per action.                                                    *)

LEMMA EntryInv == ASSUME MemInv, call' = call, rte_memcpy PROVE MemInv'
<1>1. PICK label \in {"aligned", "generic"} : Jump(label, 0)
  BY DEF rte_memcpy
<1>2. pc = "rte_memcpy" /\ dst = 0 /\ pc' = label
  BY <1>1 DEF rte_memcpy, MemInv, Jump, Goto
<1>3. AtRung' /\ AtAlign' /\ AtLoop'
  BY <1>2 DEF AtRung, AtAlign, AtLoop
<1> QED
  BY <1>1, <1>2, <1>3, JumpInv

LEMMA AlignedInv == ASSUME MemInv, call' = call, rte_memcpy_aligned PROVE MemInv'
<1>1. pc = "aligned" /\ n \in Nat /\ dst = 0 /\ n = call.len
  BY Facts DEF rte_memcpy_aligned, MemInv
<1>2. CASE n < 16 /\ Return(SmallMoves)
  BY <1>1, <1>2, SmallInv
<1>3. CASE n \in 16 .. 32 /\ Return(Ends(16))
  BY <1>1, <1>3, EndsInv
<1>4. CASE n \in 33 .. 64 /\ Return(Ends(32))
  BY <1>1, <1>4, EndsInv
<1>5. CASE n > 64 /\ Jump("for", 64)
  <2>1. pc' = "for" /\ size' = 64
    BY <1>5 DEF Jump, Goto
  <2>2. AtRung' /\ AtAlign' /\ AtLoop'
    BY <1>1, <1>5, <2>1 DEF AtRung, AtAlign, AtLoop
  <2> QED
    BY <1>1, <1>5, <2>2, JumpInv
<1> QED
  BY <1>2, <1>3, <1>4, <1>5 DEF rte_memcpy_aligned

(* The jumps of the three rte_memcpy_generic.                               *)
LEMMA GenericJumps ==
  ASSUME MemInv, call' = call, pc = "generic",
         \/ call.isa = "avx512" /\ n \in 65 .. 512 /\ Jump("rung", 256)
         \/ call.isa = "avx512" /\ n > 512 /\ Jump("align", 64)
         \/ call.isa = "avx2" /\ n \in 65 .. 256 /\ Jump("rung", 128)
         \/ call.isa = "avx2" /\ n > 256 /\ Jump("align", 32)
         \/ call.isa = "sse" /\ n \in 65 .. 128 /\ Jump("rung", 64)
         \/ call.isa = "sse" /\ n \in 129 .. 512 /\ Jump("rung", 256)
         \/ call.isa = "sse" /\ n > 512 /\ Jump("align", 16)
  PROVE  MemInv'
<1>1. n \in Nat /\ dst = 0 /\ n = call.len
  BY Facts DEF MemInv
<1>2. PICK label \in {"rung", "align"}, w \in Nat :
        /\ Jump(label, w)
        /\ \/ call.isa = "avx512" /\ n \in 65 .. 512 /\ label = "rung" /\ w = 256
           \/ call.isa = "avx512" /\ n > 512 /\ label = "align" /\ w = 64
           \/ call.isa = "avx2" /\ n \in 65 .. 256 /\ label = "rung" /\ w = 128
           \/ call.isa = "avx2" /\ n > 256 /\ label = "align" /\ w = 32
           \/ call.isa = "sse" /\ n \in 65 .. 128 /\ label = "rung" /\ w = 64
           \/ call.isa = "sse" /\ n \in 129 .. 512 /\ label = "rung" /\ w = 256
           \/ call.isa = "sse" /\ n > 512 /\ label = "align" /\ w = 16
  OBVIOUS
<1>3. pc' = label /\ size' = w /\ n' = n /\ dst' = dst
  BY <1>2 DEF Jump, Goto, Stay
<1>4. AtRung'
  BY <1>1, <1>2, <1>3 DEF AtRung, ALIGNMENT_MASK
<1>5. AtAlign'
  BY <1>1, <1>2, <1>3 DEF AtAlign, ALIGNMENT_MASK
<1>6. AtLoop'
  BY <1>2, <1>3 DEF AtLoop
<1> QED
  BY <1>1, <1>2, <1>4, <1>5, <1>6, JumpInv

LEMMA GenericInv ==
  ASSUME MemInv, call' = call,
         rte_memcpy_generic_avx512 \/ rte_memcpy_generic_avx2 \/ rte_memcpy_generic_sse
  PROVE  MemInv'
<1>1. pc = "generic" /\ n \in Nat
  BY Facts DEF rte_memcpy_generic_avx512, rte_memcpy_generic_avx2, rte_memcpy_generic_sse
<1>2. CASE n < 16 /\ Return(SmallMoves)
  BY <1>1, <1>2, SmallInv
<1>3. CASE n \in 16 .. 32 /\ Return(Ends(16))
  BY <1>1, <1>3, EndsInv
<1>4. CASE n \in 33 .. 64 /\ Return(Ends(32))
  BY <1>1, <1>4, EndsInv
<1>5. CASE \/ n \in 33 .. 48 /\ Return(Ends(16) \cup {<<16, 16>>})
           \/ n \in 33 .. 48 /\ Return({<<0, 32>>, <<n - 16, 16>>})
           \/ n \in 49 .. 64 /\ Return({<<0, 32>>, <<32, 16>>, <<n - 16, 16>>})
  BY <1>1, <1>5, MiddleInv
<1>6. CASE \/ call.isa = "avx512" /\ n \in 65 .. 512 /\ Jump("rung", 256)
           \/ call.isa = "avx512" /\ n > 512 /\ Jump("align", 64)
           \/ call.isa = "avx2" /\ n \in 65 .. 256 /\ Jump("rung", 128)
           \/ call.isa = "avx2" /\ n > 256 /\ Jump("align", 32)
           \/ call.isa = "sse" /\ n \in 65 .. 128 /\ Jump("rung", 64)
           \/ call.isa = "sse" /\ n \in 129 .. 512 /\ Jump("rung", 256)
           \/ call.isa = "sse" /\ n > 512 /\ Jump("align", 16)
  BY <1>1, <1>6, GenericJumps
<1>7. n \in 49 .. 64 => n \in 33 .. 64
  BY <1>1
<1>8. CASE rte_memcpy_generic_avx512
  BY <1>2, <1>3, <1>4, <1>6, <1>8 DEF rte_memcpy_generic_avx512
<1>9. CASE rte_memcpy_generic_avx2
  BY <1>2, <1>3, <1>4, <1>5, <1>6, <1>7, <1>9 DEF rte_memcpy_generic_avx2
<1>10. CASE rte_memcpy_generic_sse
  BY <1>2, <1>3, <1>5, <1>6, <1>10 DEF rte_memcpy_generic_sse
<1> QED
  BY <1>8, <1>9, <1>10

(* The steps that stay in the ladder or in a loop.                          *)
LEMMA Onward ==
  ASSUME MemInv, call' = call, dst' \in Nat, n' \in Nat, src' = dst', dst' + n' = call.len,
         LoadBounds', read' \in [lo : Int, hi : Int], copied' \subseteq 0 .. call.len - 1,
         bits' \in Nat, bits' <= n', pc' # "blocks" => bits' = 0,
         \A b \in 0 .. dst' + bits' - 1 : b \in copied',
         size' \in Nat, srcofs' \in Nat, pc' \in {"rung", "for", "blocks", "left47"},
         AtRung', AtLoop', AtLeft47'
  PROVE  MemInv'
<1>1. TypeOK /\ call.len \in Nat
  BY Facts
<1>2. TypeOK'
  <2>1. copied' \in SUBSET Nat
    BY <1>1
  <2>2. call' \in [isa : Isas, da : DstAligns, sa : SrcAligns, len : Lengths]
    BY <1>1 DEF TypeOK
  <2>3. src' \in Nat
    OBVIOUS
  <2> QED
    BY <2>1, <2>2, <2>3 DEF TypeOK
<1>3. Progress'
  <2>1. dst' = src' /\ dst' + n' = call'.len /\ bits' <= n' /\ (pc' # "blocks" => bits' = 0)
    OBVIOUS
  <2>2. copied' \subseteq 0 .. call'.len - 1 /\ 0 .. dst' + bits' - 1 \subseteq copied'
    OBVIOUS
  <2>3. PICK reach : reach = IF pc' = "done" THEN call'.len ELSE dst' + bits'
    OBVIOUS
  <2>4. reach = dst' + bits'
    BY <2>3
  <2>5. reach - 1 = dst' + bits' - 1
    BY <2>4
  <2>6. 0 .. reach - 1 \subseteq copied'
    BY <2>2, <2>5, Zenon
  <2> QED
    BY <2>1, <2>2, <2>3, <2>6 DEF Progress
<1>4. AtAlign'
  BY DEF AtAlign
<1> QED
  BY <1>2, <1>3, <1>4 DEF MemInv

(* No copy.                                                                 *)
LEMMA NoCopyKeeps ==
  ASSUME MemInv, call' = call, pc # "done", NoCopy
  PROVE  /\ LoadBounds' /\ read' \in [lo : Int, hi : Int]
         /\ copied' \subseteq 0 .. call.len - 1
         /\ \A b \in 0 .. dst + bits - 1 : b \in copied'
<1>1. copied' = copied /\ read' = read
  BY DEF NoCopy
<1>2. read \in [lo : Int, hi : Int]
  BY DEF MemInv, TypeOK
<1>3. LoadBounds'
  BY <1>1 DEF MemInv, LoadBounds
<1>4. copied \subseteq 0 .. call.len - 1 /\ \A b \in 0 .. dst + bits - 1 : b \in copied
  BY Facts
<1> QED
  BY <1>1, <1>2, <1>3, <1>4

LEMMA RungInv == ASSUME MemInv, call' = call, Rung PROVE MemInv'
<1>1. /\ pc = "rung" /\ size > 0 /\ pc' = "rung" /\ bits' = 0 /\ srcofs' = srcofs
      /\ size' = NextRung(size)
  BY DEF Rung, Goto
<1>2. /\ n \in Nat /\ dst \in Nat /\ dst + n = call.len /\ bits = 0 /\ src = dst /\ srcofs \in Nat
      /\ size \in Nat
  BY <1>1, Facts
<1>3. AtRung /\ call.len > 64 /\ n <= 2 * size
  BY <1>1, <1>2 DEF MemInv, AtRung
<1>4. \/ call.isa = "avx512" /\ size = 256 /\ size' = 128
      \/ call.isa = "avx512" /\ size = 128 /\ size' = 0
      \/ call.isa = "avx2" /\ size = 128 /\ size' = 64
      \/ call.isa = "avx2" /\ size = 64 /\ size' = 0
      \/ call.isa = "sse" /\ size = 256 /\ size' = 128
      \/ call.isa = "sse" /\ size = 128 /\ size' = 64
      \/ call.isa = "sse" /\ size = 64 /\ size' = 32
      \/ call.isa = "sse" /\ size = 32 /\ size' = 0
  <2>1. CASE call.isa = "avx512"
    <3>1. size \in {256, 128} /\ size' = Rungs_avx512[size]
      BY <1>1, <1>3, <2>1 DEF AtRung, NextRung
    <3> QED
      BY <2>1, <3>1 DEF Rungs_avx512
  <2>2. CASE call.isa = "avx2"
    <3>1. size \in {128, 64} /\ size' = Rungs_avx2[size]
      BY <1>1, <1>3, <2>2 DEF AtRung, NextRung
    <3> QED
      BY <2>2, <3>1 DEF Rungs_avx2
  <2>3. CASE call.isa = "sse"
    <3>1. size \in {256, 128, 64, 32} /\ size' = Rungs_sse[size]
      BY <1>1, <1>3, <2>3 DEF AtRung, NextRung
    <3> QED
      BY <2>3, <3>1 DEF Rungs_sse
  <2> QED
    BY <2>1, <2>2, <2>3, Facts
<1>5. /\ LoadBounds' /\ read' \in [lo : Int, hi : Int] /\ copied' \subseteq 0 .. call.len - 1
      /\ dst' \in Nat /\ n' \in Nat /\ src' = dst' /\ dst' + n' = call.len
      /\ n' <= size /\ \A b \in 0 .. dst' + bits' - 1 : b \in copied'
  <2>1. CASE n >= size
    <3>1. Copy({<<0, size>>}) /\ Advance(size)
      BY <2>1 DEF Rung
    <3>2. size \in Widths /\ size \in Nat /\ size <= size /\ size <= n
      BY <1>2, <1>4, <2>1 DEF Widths
    <3>3. /\ LoadBounds' /\ read' \in [lo : Int, hi : Int]
          /\ copied' \subseteq 0 .. call.len - 1
          /\ dst' = dst + size /\ src' = dst' /\ n' = n - size /\ n' \in Nat /\ dst' \in Nat
          /\ dst' + n' = call.len
          /\ \A b \in 0 .. dst' - 1 : b \in copied'
      BY <1>1, <3>1, <3>2, CopyOn
    <3>4. n' <= size /\ dst' + bits' - 1 = dst' - 1
      BY <1>1, <1>2, <1>3, <3>3
    <3> QED
      BY <3>3, <3>4
  <2>2. CASE ~(n >= size)
    <3>1. NoCopy /\ dst' = dst /\ src' = src /\ n' = n
      BY <2>2 DEF Rung, Stay
    <3>2. /\ LoadBounds' /\ read' \in [lo : Int, hi : Int] /\ copied' \subseteq 0 .. call.len - 1
          /\ \A b \in 0 .. dst + bits - 1 : b \in copied'
      BY <1>1, <3>1, NoCopyKeeps
    <3> QED
      BY <1>1, <1>2, <2>2, <3>1, <3>2
  <2> QED
    BY <2>1, <2>2
<1>6. AtRung'
  <2>1. call.isa = "avx512" => ALIGNMENT_MASK' = 64
    BY DEF ALIGNMENT_MASK
  <2>2. call.isa = "avx2" => ALIGNMENT_MASK' = 32
    BY DEF ALIGNMENT_MASK
  <2>3. call.isa = "sse" => ALIGNMENT_MASK' = 16
    BY DEF ALIGNMENT_MASK
  <2>4. n' <= 2 * (IF size' = 0 THEN ALIGNMENT_MASK' ELSE size')
    BY <1>4, <1>5, <2>1, <2>2, <2>3
  <2> QED
    BY <1>3, <1>4, <2>4 DEF AtRung
<1>7. AtLoop' /\ AtLeft47'
  BY <1>1 DEF AtLoop, AtLeft47
<1>8. size' \in Nat /\ bits' \in Nat /\ bits' <= n' /\ srcofs' \in Nat
  BY <1>1, <1>2, <1>4, <1>5
<1> QED
  BY <1>1, <1>5, <1>6, <1>7, <1>8, Onward

LEMMA CopyBlockBackInv == ASSUME MemInv, call' = call, COPY_BLOCK_BACK PROVE MemInv'
<1>1. pc = "rung" /\ size = 0 /\ Back(ALIGNMENT_MASK)
  BY DEF COPY_BLOCK_BACK
<1>2. n \in Nat /\ call.len \in Nat
  BY Facts
<1>3. PICK w \in {16, 32, 64} : w = ALIGNMENT_MASK
  BY Facts DEF ALIGNMENT_MASK
<1>4. call.len > 64 /\ n <= 2 * w
  BY <1>1, <1>3 DEF MemInv, AtRung
<1>5. CASE n > w /\ Return(Ends(w))
  BY <1>1, <1>2, <1>4, <1>5, EndsInv
<1>6. CASE n \in 1 .. w /\ Return({<<n - w, w>>})
  <2>1. n <= w /\ w <= call.len /\ pc \notin {"blocks", "done"}
    BY <1>1, <1>2, <1>4, <1>6
  <2>2. Return({<<n - w, w>>})
    BY <1>6
  <2> QED
    BY <2>1, <2>2, BackInv
<1>7. CASE n = 0 /\ Return({})
  BY <1>1, <1>7, NothingLeft
<1> QED
  BY <1>1, <1>3, <1>5, <1>6, <1>7 DEF Back

(* The copy that makes the store aligned moves on by less than it copies.   *)
LEMMA AlignInv ==
  ASSUME MemInv, call' = call, pc = "align", NEW ofs \in Nat, NEW w,
         \/ call.isa = "avx512" /\ ofs = call.da % 64 /\ w = 512
         \/ call.isa = "avx2" /\ ofs = call.da % 32 /\ w = 128,
         AlignTo(ofs), Goto("blocks", w), srcofs' = srcofs
  PROVE  MemInv'
<1>1. /\ n \in Nat /\ dst \in Nat /\ dst + n = call.len /\ bits = 0 /\ src = dst /\ srcofs \in Nat
      /\ size \in Nat /\ call.da \in 0 .. 63 /\ call.len \in Nat
  BY Facts
<1>2. pc' = "blocks" /\ size' = w /\ bits' = 0
  BY DEF Goto
<1>3. \/ call.isa = "avx512" /\ size = 64 /\ call.len > 512
      \/ call.isa = "avx2" /\ size = 32 /\ call.len > 256
  BY DEF MemInv, AtAlign, ALIGNMENT_MASK
<1>4. dst = 0 /\ size <= n /\ ofs < size /\ size \in Widths /\ call.len > 64
  <2>1. dst = 0
    BY DEF MemInv, AtAlign
  <2>2. size \in Widths
    BY <1>3 DEF Widths
  <2> QED
    BY <1>1, <1>3, <2>1, <2>2
<1>5. /\ LoadBounds' /\ read' \in [lo : Int, hi : Int] /\ copied' \subseteq 0 .. call.len - 1
      /\ dst' \in Nat /\ n' \in Nat /\ src' = dst' /\ dst' + n' = call.len
      /\ \A b \in 0 .. dst' + bits' - 1 : b \in copied'
  <2>1. CASE ofs > 0
    <3>1. Copy({<<0, size>>}) /\ Advance(size - ofs)
      BY <2>1 DEF AlignTo
    <3>2. PICK k \in Nat : k = size - ofs /\ k <= size
      BY <1>1, <1>4
    <3>3. /\ LoadBounds' /\ read' \in [lo : Int, hi : Int]
          /\ copied' \subseteq 0 .. call.len - 1
          /\ src' = dst' /\ n' \in Nat /\ dst' \in Nat
          /\ dst' + n' = call.len
          /\ \A b \in 0 .. dst' - 1 : b \in copied'
      BY <1>4, <3>1, <3>2, CopyOn
    <3>4. dst' + bits' - 1 = dst' - 1
      BY <1>2, <3>3
    <3> QED
      BY <3>3, <3>4
  <2>2. CASE ~(ofs > 0)
    <3>1. NoCopy /\ dst' = dst /\ src' = src /\ n' = n
      BY <2>2 DEF AlignTo, Stay
    <3>2. /\ LoadBounds' /\ read' \in [lo : Int, hi : Int] /\ copied' \subseteq 0 .. call.len - 1
          /\ \A b \in 0 .. dst + bits - 1 : b \in copied'
      BY <3>1, NoCopyKeeps
    <3> QED
      BY <1>1, <1>2, <3>1, <3>2
  <2> QED
    BY <2>1, <2>2
<1>6. AtLoop'
  <2>1. 0 % 512 = 0 /\ 0 % 128 = 0
    OBVIOUS
  <2> QED
    BY <1>2, <1>4, <2>1 DEF AtLoop
<1>7. AtRung' /\ AtLeft47'
  BY <1>2 DEF AtRung, AtLeft47
<1>8. size' \in Nat /\ bits' \in Nat /\ bits' <= n' /\ srcofs' \in Nat
  BY <1>1, <1>2, <1>5
<1> QED
  BY <1>2, <1>5, <1>6, <1>7, <1>8, Onward

LEMMA AlignSseInv == ASSUME MemInv, call' = call, Align_sse PROVE MemInv'
<1>1. /\ pc = "align" /\ call.isa = "sse" /\ n \in Nat /\ dst \in Nat /\ dst + n = call.len
      /\ bits = 0 /\ src = dst /\ size \in Nat /\ call.da \in 0 .. 63 /\ call.sa \in 0 .. 63
      /\ call.len \in Nat
  BY Facts DEF Align_sse
<1>2. dst = 0 /\ n > 512 /\ call.len > 512
  BY <1>1 DEF MemInv, AtAlign
<1>3. PICK ofs \in 0 .. 15, skip \in 0 .. 31 :
        /\ ofs = call.da % 16
        /\ ofs > 0 => skip = 16 - ofs + 16
        /\ ofs = 0 => skip = 0
        /\ IF ofs > 0 THEN Copy({<<0, 32>>}) ELSE NoCopy
        /\ Advance(skip)
        /\ srcofs' = (call.sa + src + skip) % 16
        /\ IF srcofs' = 0 THEN Goto("for", 256) ELSE MOVEUNALIGNED_LEFT47(srcofs')
  <2> DEFINE o == call.da % 16
             s == IF o > 0 THEN 16 - o + 16 ELSE 0
  <2>1. o \in 0 .. 15 /\ s \in 0 .. 31
    BY <1>1
  <2>2. /\ o > 0 => s = 16 - o + 16
        /\ o = 0 => s = 0
    BY <2>1
  <2>3. /\ IF o > 0 THEN Copy({<<0, 32>>}) ELSE NoCopy
        /\ Advance(s)
        /\ srcofs' = (call.sa + src + s) % 16
        /\ IF srcofs' = 0 THEN Goto("for", 256) ELSE MOVEUNALIGNED_LEFT47(srcofs')
    BY DEF Align_sse
  <2>4. o = call.da % 16
    OBVIOUS
  <2> HIDE DEF o, s
  <2> QED
    BY <2>1, <2>2, <2>3, <2>4, Zenon
<1>4. /\ LoadBounds' /\ read' \in [lo : Int, hi : Int] /\ copied' \subseteq 0 .. call.len - 1
      /\ dst' = skip /\ n' = n - skip /\ dst' \in Nat /\ n' \in Nat /\ src' = dst'
      /\ dst' + n' = call.len
      /\ \A b \in 0 .. dst' - 1 : b \in copied'
  <2>1. CASE ofs > 0
    <3>1. Copy({<<0, 32>>}) /\ 32 \in Widths /\ skip \in Nat /\ skip <= 32 /\ 32 <= n /\ Advance(skip)
      <4>1. Copy({<<0, 32>>}) /\ Advance(skip)
        BY <1>3, <2>1, Zenon
      <4>2. 32 \in Widths
        BY DEF Widths
      <4>3. skip \in Nat /\ skip <= 32 /\ 32 <= n
        BY <1>1, <1>2
      <4> QED
        BY <4>1, <4>2, <4>3
    <3>2. /\ LoadBounds' /\ read' \in [lo : Int, hi : Int]
          /\ copied' \subseteq 0 .. call.len - 1
          /\ dst' = dst + skip /\ src' = dst' /\ n' = n - skip /\ n' \in Nat /\ dst' \in Nat
          /\ dst' + n' = call.len
          /\ \A b \in 0 .. dst' - 1 : b \in copied'
      BY <1>1, <3>1, CopyOn
    <3>3. dst + skip = skip
      BY <1>2
    <3> QED
      BY <3>2, <3>3
  <2>2. CASE ~(ofs > 0)
    <3>1. NoCopy /\ skip = 0 /\ Advance(skip)
      BY <1>3, <2>2
    <3>2. /\ LoadBounds' /\ read' \in [lo : Int, hi : Int] /\ copied' \subseteq 0 .. call.len - 1
          /\ \A b \in 0 .. dst + bits - 1 : b \in copied'
      BY <1>1, <3>1, NoCopyKeeps
    <3>3. dst' = skip /\ n' = n - skip /\ src' = dst' /\ n' = n
      BY <1>1, <1>2, <3>1 DEF Advance
    <3> QED
      BY <1>1, <1>2, <3>1, <3>2, <3>3
  <2> QED
    BY <2>1, <2>2
<1>5. srcofs' \in 0 .. 15 /\ srcofs' <= src' + (call.sa % 16)
  <2>1. srcofs' = (call.sa + skip) % 16
    <3>1. call.sa + src + skip = call.sa + skip
      BY <1>1, <1>2
    <3> QED
      BY <1>3, <3>1
  <2>2. (call.sa + skip) % 16 \in 0 .. 15 /\ (call.sa + skip) % 16 <= skip + (call.sa % 16)
    BY <1>1
  <2>3. src' = skip
    BY <1>4
  <2> QED
    BY <2>1, <2>2, <2>3
<1>6. /\ bits' = 0
      /\ \/ pc' = "for" /\ size' = 256
         \/ pc' = "left47" /\ size' = 128 /\ srcofs' \in 1 .. 15
  <2>1. CASE srcofs' = 0
    BY <1>3, <2>1 DEF Goto
  <2>2. CASE srcofs' # 0
    <3>1. srcofs' \in 1 .. 15
      BY <1>5, <2>2
    <3> QED
      BY <1>3, <2>2, <3>1 DEF MOVEUNALIGNED_LEFT47, Goto
  <2> QED
    BY <2>1, <2>2
<1>7. AtRung' /\ AtLoop'
  BY <1>1, <1>2, <1>6 DEF AtRung, AtLoop
<1>8. AtLeft47'
  <2>1. n' >= 481 /\ (srcofs' \in 1 .. 15 => n' >= 16 - srcofs')
    BY <1>1, <1>2, <1>4
  <2>2. call'.isa = "sse" /\ call'.len > 64 /\ call'.sa = call.sa
    BY <1>1, <1>2
  <2> QED
    BY <1>5, <1>6, <2>1, <2>2 DEF AtLeft47
<1>9. size' \in Nat /\ bits' \in Nat /\ bits' <= n' /\ srcofs' \in Nat /\ dst' + bits' - 1 = dst' - 1
  BY <1>4, <1>5, <1>6
<1> QED
  BY <1>4, <1>6, <1>7, <1>8, <1>9, Onward

LEMMA BlockInv == ASSUME MemInv, call' = call, Block_avx512 \/ Block_avx2 PROVE MemInv'
<1>1. /\ pc = "blocks" /\ n - bits >= size /\ Copy({<<bits, size>>}) /\ bits' = bits + size
      /\ dst' = dst /\ src' = src /\ n' = n /\ pc' = pc /\ size' = size /\ srcofs' = srcofs
  BY DEF Block_avx512, Block_avx2, Stay
<1>2. /\ TypeOK /\ LoadBounds /\ dst \in Nat /\ n \in Nat /\ size \in Nat /\ bits \in Nat
      /\ srcofs \in Nat /\ src = dst /\ dst + n = call.len /\ call.len \in Nat
      /\ copied \subseteq 0 .. call.len - 1
      /\ \A b \in 0 .. dst + bits - 1 : b \in copied
  BY <1>1, Facts
<1>3. /\ call.len > 64 /\ bits % size = 0
      /\ \/ call.isa = "avx512" /\ size \in {512, 128}
         \/ call.isa = "avx2" /\ size = 128
  BY <1>1 DEF MemInv, AtLoop
<1>4. size \in Widths /\ size \in {512, 128}
  BY <1>3 DEF Widths
<1>5. PICK pieces \in SUBSET (Int \X Widths) : pieces = {<<bits, size>>}
  <2>1. {<<bits, size>>} \in SUBSET (Int \X Widths)
    BY <1>2, <1>4
  <2> QED
    BY <2>1, Zenon
<1>6. PICK hi \in Int : hi = bits + size /\ 0 <= hi /\ dst + hi <= call.len
  BY <1>1, <1>2
<1>7. /\ LoadBounds' /\ read' \in [lo : Int, hi : Int]
      /\ copied' \subseteq 0 .. call.len - 1
      /\ \A b : b \in copied' <=>
           \/ b \in copied
           \/ b \in Int /\ \E p \in pieces : dst + p[1] <= b /\ b < dst + p[1] + p[2]
  <2>1. Copy(pieces)
    BY <1>1, <1>5, Zenon
  <2>2. /\ \A p \in pieces : 0 <= p[1] /\ p[1] + p[2] <= hi
        /\ \E p \in pieces : hi = p[1] + p[2]
    BY <1>2, <1>5, <1>6
  <2>3. dst = src /\ 0 \in Int /\ 0 <= 0 /\ 0 <= dst + 0
    BY <1>2
  <2> QED
    BY <2>1, <2>2, <2>3, <1>2, <1>6, CopyStep
<1>8. ASSUME NEW b \in 0 .. dst' + bits' - 1 PROVE b \in copied'
  <2>1. CASE b < dst + bits
    <3>1. b \in 0 .. dst + bits - 1
      BY <2>1, <1>2
    <3> QED
      BY <3>1, <1>2, <1>7
  <2>2. CASE dst + bits <= b
    <3>1. b \in Int /\ dst + bits <= b /\ b < dst + bits + size
      BY <2>2, <1>1, <1>2
    <3>2. <<bits, size>> \in pieces
      BY <1>5
    <3> QED
      BY <3>1, <3>2, <1>7
  <2> QED
    BY <2>1, <2>2, <1>1, <1>2
<1>9. bits' % size' = 0
  <2>1. bits % 512 = 0 => (bits + 512) % 512 = 0
    BY <1>2
  <2>2. bits % 128 = 0 => (bits + 128) % 128 = 0
    BY <1>2
  <2> QED
    BY <2>1, <2>2, <1>1, <1>3, <1>4
<1>10. AtRung' /\ AtLoop' /\ AtLeft47'
  BY <1>1, <1>3, <1>9 DEF AtRung, AtLoop, AtLeft47
<1>11. bits' \in Nat /\ bits' <= n' /\ dst' \in Nat /\ n' \in Nat /\ src' = dst' /\ dst' + n' = call.len
  BY <1>1, <1>2
<1> QED
  BY <1>1, <1>2, <1>7, <1>8, <1>10, <1>11, Onward

(* The caller's own reckoning of the blocks agrees with the function's.     *)
LEMMA AfterBlocksInv == ASSUME MemInv, call' = call, AfterBlocks_avx512 \/ AfterBlocks_avx2 PROVE MemInv'
<1>1. pc = "blocks" /\ n - bits < size /\ NoCopy /\ srcofs' = srcofs
  BY DEF AfterBlocks_avx512, AfterBlocks_avx2
<1>2. /\ dst \in Nat /\ n \in Nat /\ size \in Nat /\ bits \in Nat /\ bits <= n
      /\ srcofs \in Nat /\ src = dst /\ dst + n = call.len /\ call.len \in Nat
  BY <1>1, Facts
<1>3. /\ call.len > 64 /\ bits % size = 0
      /\ \/ call.isa = "avx512" /\ size \in {512, 128}
         \/ call.isa = "avx2" /\ size = 128
  BY <1>1 DEF MemInv, AtLoop
<1>4. /\ LoadBounds' /\ read' \in [lo : Int, hi : Int] /\ copied' \subseteq 0 .. call.len - 1
      /\ \A b \in 0 .. dst + bits - 1 : b \in copied'
  BY <1>1, NoCopyKeeps
<1>5. n - (n % size) = bits /\ n % size = n - bits
  <2>1. CASE size = 512
    <3>1. bits % 512 = 0 /\ n - bits < 512
      BY <1>1, <1>3, <2>1
    <3>2. n - (n % 512) = bits /\ n % 512 = n - bits
      BY <1>2, <3>1
    <3> QED
      BY <2>1, <3>2
  <2>2. CASE size = 128
    <3>1. bits % 128 = 0 /\ n - bits < 128
      BY <1>1, <1>3, <2>2
    <3>2. n - (n % 128) = bits /\ n % 128 = n - bits
      BY <1>2, <3>1
    <3> QED
      BY <2>2, <3>2
  <2> QED
    BY <1>3, <2>1, <2>2
<1>6. Advance(bits)
  <2>1. CASE AfterBlocks_avx512
    <3>1. Advance(n - (n % size))
      BY <2>1 DEF AfterBlocks_avx512
    <3> QED
      BY <3>1, <1>5
  <2>2. CASE AfterBlocks_avx2
    <3>1. Advance(n - (n % 128)) /\ size = 128
      BY <2>2, <1>3 DEF AfterBlocks_avx2
    <3> QED
      BY <3>1, <1>5
  <2> QED
    BY <2>1, <2>2
<1>7. dst' = dst + bits /\ src' = dst' /\ n' = n - bits /\ dst' \in Nat /\ n' \in Nat /\ dst' + n' = call.len
  BY <1>2, <1>6 DEF Advance
<1>8. /\ bits' = 0
      /\ \/ call.isa = "avx512" /\ pc' = "blocks" /\ size' = 128
         \/ call.isa = "avx512" /\ pc' = "rung" /\ size' = 0 /\ n' < 128
         \/ call.isa = "avx2" /\ pc' = "rung" /\ size' = 64 /\ n' < 128
  <2>1. CASE AfterBlocks_avx512
    <3>1. call.isa = "avx512" /\ size \in {512, 128}
      BY <2>1, <1>3 DEF AfterBlocks_avx512
    <3>2. CASE size = 512 /\ n % size >= 128
      BY <2>1, <3>1, <3>2 DEF AfterBlocks_avx512, Goto
    <3>3. CASE ~(size = 512 /\ n % size >= 128)
      <4>1. pc' = "rung" /\ size' = 0 /\ bits' = 0
        BY <2>1, <3>3 DEF AfterBlocks_avx512, Goto
      <4>2. n' < 128
        BY <3>1, <3>3, <1>1, <1>2, <1>5, <1>7
      <4> QED
        BY <4>1, <4>2, <3>1
    <3> QED
      BY <3>2, <3>3
  <2>2. CASE AfterBlocks_avx2
    <3>1. call.isa = "avx2" /\ size = 128 /\ pc' = "rung" /\ size' = 64 /\ bits' = 0
      BY <2>2, <1>3 DEF AfterBlocks_avx2, Goto
    <3> QED
      BY <3>1, <1>1, <1>7
  <2> QED
    BY <2>1, <2>2
<1>9. AtRung'
  <2>1. call.isa = "avx512" => ALIGNMENT_MASK' = 64
    BY DEF ALIGNMENT_MASK
  <2> QED
    BY <2>1, <1>3, <1>7, <1>8 DEF AtRung
<1>10. AtLoop' /\ AtLeft47'
  <2>1. 0 % 128 = 0
    OBVIOUS
  <2> QED
    BY <2>1, <1>3, <1>8 DEF AtLoop, AtLeft47
<1>11. /\ bits' \in Nat /\ bits' <= n' /\ size' \in Nat /\ srcofs' \in Nat
       /\ dst' + bits' - 1 = dst + bits - 1
  BY <1>1, <1>2, <1>7, <1>8
<1> QED
  BY <1>4, <1>7, <1>8, <1>9, <1>10, <1>11, Onward

LEMMA ForInv == ASSUME MemInv, call' = call, For PROVE MemInv'
<1>1. pc = "for"
  BY DEF For
<1>2. /\ dst \in Nat /\ n \in Nat /\ size \in Nat /\ bits = 0
      /\ srcofs \in Nat /\ src = dst /\ dst + n = call.len /\ call.len \in Nat
  BY <1>1, Facts
<1>3. call.len > 64 /\ (size = 64 \/ (size = 256 /\ call.isa = "sse"))
  BY <1>1 DEF MemInv, AtLoop
<1>4. CASE n >= size
  <2>1. /\ Copy({<<0, size>>}) /\ Advance(size)
        /\ pc' = pc /\ size' = size /\ bits' = bits /\ srcofs' = srcofs
    BY <1>4 DEF For
  <2>2. size \in Widths /\ size <= n /\ size <= size
    BY <1>2, <1>3, <1>4 DEF Widths
  <2>3. /\ LoadBounds' /\ read' \in [lo : Int, hi : Int]
        /\ copied' \subseteq 0 .. call.len - 1
        /\ dst' = dst + size /\ src' = dst' /\ n' = n - size /\ n' \in Nat /\ dst' \in Nat
        /\ dst' + n' = call.len
        /\ \A b \in 0 .. dst' - 1 : b \in copied'
    BY <1>1, <1>2, <2>1, <2>2, CopyOn
  <2>4. AtRung' /\ AtLoop' /\ AtLeft47'
    BY <1>1, <1>3, <2>1 DEF AtRung, AtLoop, AtLeft47
  <2>5. dst' + bits' - 1 = dst' - 1 /\ bits' \in Nat /\ bits' <= n'
    BY <1>2, <2>1, <2>3
  <2> QED
    BY <1>1, <1>2, <2>1, <2>3, <2>4, <2>5, Onward
<1>5. CASE ~(n >= size) /\ size = 64
  <2>1. Return({<<n - 64, 64>>})
    BY <1>5 DEF For
  <2>2. n <= 64 /\ 64 <= call.len /\ pc \notin {"blocks", "done"} /\ 64 \in {16, 32, 64}
    BY <1>1, <1>2, <1>3, <1>5
  <2> QED
    BY <2>1, <2>2, BackInv
<1>6. CASE ~(n >= size) /\ size # 64
  <2>1. Jump("rung", 128) /\ size = 256 /\ call.isa = "sse"
    BY <1>3, <1>6 DEF For
  <2>2. pc' = "rung" /\ size' = 128 /\ n' = n
    BY <2>1 DEF Jump, Goto, Stay
  <2>3. AtRung' /\ AtAlign' /\ AtLoop'
    BY <1>2, <1>3, <1>6, <2>1, <2>2 DEF AtRung, AtAlign, AtLoop
  <2> QED
    BY <1>1, <2>1, <2>3, JumpInv
<1> QED
  BY <1>4, <1>5, <1>6

(* A turn of the unaligned copy: it loads from srcofs before src to 16      *)
(* beyond what it stores, all of it in bounds.                              *)
LEMMA Left47Inv == ASSUME MemInv, call' = call, MOVEUNALIGNED_LEFT47_IMM PROVE MemInv'
<1>1. /\ pc = "left47" /\ n >= size + 16 - srcofs
      /\ Load(-srcofs, -srcofs + size + 16) /\ Store(0 .. size - 1) /\ Advance(size)
      /\ pc' = pc /\ size' = size /\ bits' = bits /\ srcofs' = srcofs
  BY DEF MOVEUNALIGNED_LEFT47_IMM
<1>2. /\ TypeOK /\ LoadBounds /\ dst \in Nat /\ n \in Nat /\ size \in Nat /\ bits = 0
      /\ srcofs \in Nat /\ src = dst /\ dst + n = call.len /\ call.len \in Nat
      /\ call.sa \in 0 .. 63 /\ copied \subseteq 0 .. call.len - 1
      /\ \A b \in 0 .. dst + bits - 1 : b \in copied
  BY <1>1, Facts
<1>3. /\ call.isa = "sse" /\ call.len > 64 /\ size \in {128, 32}
      /\ srcofs \in 1 .. 15 /\ n >= 16 - srcofs
      /\ srcofs <= src + (call.sa % 16)
  BY <1>1 DEF MemInv, AtLeft47
<1>4. /\ dst' = dst + size /\ src' = dst' /\ n' = n - size /\ n' \in Nat /\ dst' \in Nat
      /\ dst' + n' = call.len
  BY <1>1, <1>2, <1>3 DEF Advance
<1>5. LoadBounds' /\ read' \in [lo : Int, hi : Int]
  <2>1. PICK lo \in Int, hi \in Int : lo = -srcofs /\ hi = -srcofs + size + 16
    BY <1>2
  <2>2. Load(lo, hi) /\ dst = src
    BY <1>1, <1>2, <2>1
  <2>3. src + hi <= call.len /\ src + lo >= -(call.sa % 16)
    <3>1. srcofs \in Int /\ size \in Int /\ call.sa % 16 \in Int
      BY <1>2
    <3>2. src + hi = dst + (size + 16 - srcofs) /\ src + lo = dst - srcofs
      BY <1>2, <2>1, <3>1
    <3>3. src + hi <= call.len
      BY <1>1, <1>2, <3>1, <3>2
    <3>4. src + lo >= -(call.sa % 16)
      BY <1>2, <1>3, <3>1, <3>2
    <3> QED
      BY <3>3, <3>4
  <2>4. src + lo >= IF call.isa = "sse" THEN -(call.sa % 16) ELSE 0
    BY <1>3, <2>3
  <2> QED
    BY <1>2, <2>2, <2>3, <2>4, LoadKeeps
<1>6. \A b : b \in copied' <=> b \in copied \/ (b \in Int /\ b - dst \in 0 .. size - 1)
  <2>1. 0 .. size - 1 \in SUBSET Int /\ dst = src
    BY <1>2
  <2> QED
    BY <1>1, <1>2, <2>1, StoreCopies
<1>7. copied' \subseteq 0 .. call.len - 1
  <2> SUFFICES ASSUME NEW b \in Int, b - dst \in 0 .. size - 1 PROVE b \in 0 .. call.len - 1
    BY <1>2, <1>6
  <2> QED
    BY <1>2, <1>4
<1>8. ASSUME NEW b \in 0 .. dst' + bits' - 1 PROVE b \in copied'
  <2>1. CASE b < dst
    <3>1. b \in 0 .. dst + bits - 1
      BY <2>1, <1>1, <1>2, <1>4
    <3> QED
      BY <3>1, <1>2, <1>6
  <2>2. CASE dst <= b
    <3>1. b \in Int /\ b - dst \in 0 .. size - 1
      BY <2>2, <1>1, <1>2, <1>4
    <3> QED
      BY <3>1, <1>6
  <2> QED
    BY <2>1, <2>2, <1>2, <1>4
<1>9. AtRung' /\ AtLoop'
  BY <1>1 DEF AtRung, AtLoop
<1>10. AtLeft47'
  <2>1. n' >= 16 - srcofs' /\ srcofs' <= src' + (call.sa % 16)
    <3>1. call.sa % 16 \in Int
      BY <1>2
    <3>2. src' >= src /\ src' \in Int /\ src \in Int
      BY <1>2, <1>4
    <3>3. srcofs <= src' + (call.sa % 16)
      BY <1>2, <1>3, <3>1, <3>2
    <3>4. n' >= 16 - srcofs
      BY <1>1, <1>2, <1>4
    <3> QED
      BY <1>1, <3>3, <3>4
  <2> QED
    BY <1>1, <1>3, <2>1 DEF AtLeft47
<1>11. bits' \in Nat /\ bits' <= n'
  BY <1>1, <1>2, <1>4
<1> QED
  BY <1>1, <1>2, <1>4, <1>5, <1>7, <1>8, <1>9, <1>10, <1>11, Onward

(* What a loop leaves is what the ladder, or the loop of 32, expects.       *)
LEMMA Left47RestInv == ASSUME MemInv, call' = call, Left47Rest PROVE MemInv'
<1> DEFINE left == ((n - 16 + srcofs) % size) + 16 - srcofs
<1>1. /\ pc = "left47" /\ n < size + 16 - srcofs
      /\ Advance(n - left) /\ NoCopy /\ srcofs' = srcofs
      /\ IF size = 128 /\ left >= 32 + 16 - srcofs
         THEN Goto("left47", 32) ELSE Goto("rung", 32)
  BY DEF Left47Rest
<1>2. /\ dst \in Nat /\ n \in Nat /\ size \in Nat /\ bits = 0
      /\ srcofs \in Nat /\ src = dst /\ dst + n = call.len /\ call.len \in Nat /\ call.sa \in 0 .. 63
  BY <1>1, Facts
<1>3. /\ call.isa = "sse" /\ call.len > 64 /\ size \in {128, 32}
      /\ srcofs \in 1 .. 15 /\ n >= 16 - srcofs
      /\ srcofs <= src + (call.sa % 16)
  BY <1>1 DEF MemInv, AtLeft47
<1>4. left = n
  <2>1. PICK r \in Nat : r = n - 16 + srcofs /\ r < size
    BY <1>1, <1>2, <1>3
  <2>2. (size = 128 => r % 128 = r) /\ (size = 32 => r % 32 = r)
    BY <2>1
  <2>3. r % size = r
    BY <1>3, <2>2
  <2>4. left = r + 16 - srcofs
    BY <2>1, <2>3
  <2> HIDE DEF left
  <2> QED
    BY <1>2, <2>1, <2>4
<1> HIDE DEF left
<1>5. dst' = dst /\ src' = dst /\ n' = n
  BY <1>1, <1>2, <1>4 DEF Advance
<1>6. /\ LoadBounds' /\ read' \in [lo : Int, hi : Int] /\ copied' \subseteq 0 .. call.len - 1
      /\ \A b \in 0 .. dst + bits - 1 : b \in copied'
  BY <1>1, NoCopyKeeps
<1>7. /\ bits' = 0 /\ size' = 32
      /\ \/ pc' = "left47"
         \/ pc' = "rung" /\ n' <= 64
  <2>1. CASE size = 128 /\ left >= 32 + 16 - srcofs
    BY <1>1, <2>1 DEF Goto
  <2>2. CASE ~(size = 128 /\ left >= 32 + 16 - srcofs)
    <3>1. pc' = "rung" /\ bits' = 0 /\ size' = 32
      BY <1>1, <2>2 DEF Goto
    <3>2. n < 32 + 16 - srcofs
      BY <1>1, <1>2, <1>3, <1>4, <2>2
    <3> QED
      BY <1>2, <1>3, <1>5, <3>1, <3>2
  <2> QED
    BY <2>1, <2>2
<1>8. AtRung' /\ AtLoop' /\ AtLeft47'
  BY <1>1, <1>2, <1>3, <1>5, <1>7 DEF AtRung, AtLoop, AtLeft47
<1>9. /\ size' \in Nat /\ bits' \in Nat /\ bits' <= n' /\ srcofs' \in Nat
      /\ dst' + bits' - 1 = dst + bits - 1
  BY <1>1, <1>2, <1>5, <1>7
<1> QED
  BY <1>2, <1>5, <1>6, <1>7, <1>8, <1>9, Onward

----------------------------------------------------------------------------
(* The theorems.                                                            *)

LEMMA MemInit == Init => MemInv
<1> SUFFICES ASSUME Init PROVE MemInv
  OBVIOUS
<1>1. /\ call \in [isa : Isas, da : DstAligns, sa : SrcAligns, len : Lengths]
      /\ pc = "rte_memcpy" /\ dst = 0 /\ src = 0 /\ n = call.len /\ size = 0 /\ bits = 0 /\ srcofs = 0
      /\ copied = {} /\ read = [lo |-> 0, hi |-> 0]
  BY DEF Init
<1>2. call.len \in Nat /\ call.sa \in 0 .. 63
  BY <1>1, MemcpyAssumption
<1>3. TypeOK
  BY <1>1, <1>2 DEF TypeOK
<1>4. Progress
  BY <1>1, <1>2 DEF Progress
<1>5. LoadBounds
  <2>1. -(call.sa % 16) <= 0
    BY <1>2
  <2>2. read.lo = 0 /\ read.hi = 0
    BY <1>1
  <2> QED
    BY <1>2, <2>1, <2>2 DEF LoadBounds
<1>6. AtRung /\ AtAlign /\ AtLoop /\ AtLeft47
  BY <1>1 DEF AtRung, AtAlign, AtLoop, AtLeft47
<1> QED
  BY <1>1, <1>3, <1>4, <1>5, <1>6 DEF MemInv

LEMMA MemStutter == MemInv /\ UNCHANGED vars => MemInv'
<1> SUFFICES ASSUME MemInv, UNCHANGED vars PROVE MemInv'
  OBVIOUS
<1>1. TypeOK' /\ Progress' /\ LoadBounds'
  BY DEF vars, MemInv, TypeOK, Progress, LoadBounds
<1>2. AtAlign' /\ AtRung'
  <2>1. ALIGNMENT_MASK' = ALIGNMENT_MASK
    BY DEF vars, ALIGNMENT_MASK
  <2> QED
    BY <2>1 DEF vars, MemInv, AtAlign, AtRung
<1>3. AtLoop' /\ AtLeft47'
  BY DEF vars, MemInv, AtLoop, AtLeft47
<1> QED
  BY <1>1, <1>2, <1>3 DEF vars, MemInv

LEMMA MemStep == MemInv /\ [Next]_vars => MemInv'
<1> SUFFICES ASSUME MemInv, Next PROVE MemInv'
  BY MemStutter
<1>1. CASE Finished
  BY <1>1, MemStutter DEF Finished
<1>2. CASE Step
  <2>1. call' = call
    BY <1>2 DEF Step
  <2>2. CASE rte_memcpy
    BY <2>1, <2>2, EntryInv
  <2>3. CASE rte_memcpy_aligned
    BY <2>1, <2>3, AlignedInv
  <2>4. CASE rte_memcpy_generic_avx512 \/ rte_memcpy_generic_avx2 \/ rte_memcpy_generic_sse
    BY <2>1, <2>4, GenericInv
  <2>5. CASE Rung
    BY <2>1, <2>5, RungInv
  <2>6. CASE COPY_BLOCK_BACK
    BY <2>1, <2>6, CopyBlockBackInv
  <2>7. CASE Align_avx512
    <3>1. call.da % 64 \in Nat
      BY Facts
    <3>2. pc = "align" /\ call.isa = "avx512" /\ AlignTo(call.da % 64) /\ Goto("blocks", 512) /\ srcofs' = srcofs
      BY <2>7 DEF Align_avx512
    <3> QED
      BY <2>1, <3>1, <3>2, AlignInv
  <2>8. CASE Align_avx2
    <3>1. call.da % 32 \in Nat
      BY Facts
    <3>2. pc = "align" /\ call.isa = "avx2" /\ AlignTo(call.da % 32) /\ Goto("blocks", 128) /\ srcofs' = srcofs
      BY <2>8 DEF Align_avx2
    <3> QED
      BY <2>1, <3>1, <3>2, AlignInv
  <2>9. CASE Align_sse
    BY <2>1, <2>9, AlignSseInv
  <2>10. CASE Block_avx512 \/ Block_avx2
    BY <2>1, <2>10, BlockInv
  <2>11. CASE AfterBlocks_avx512 \/ AfterBlocks_avx2
    BY <2>1, <2>11, AfterBlocksInv
  <2>12. CASE For
    BY <2>1, <2>12, ForInv
  <2>13. CASE MOVEUNALIGNED_LEFT47_IMM
    BY <2>1, <2>13, Left47Inv
  <2>14. CASE Left47Rest
    BY <2>1, <2>14, Left47RestInv
  <2> QED
    BY <1>2, <2>2, <2>3, <2>4, <2>5, <2>6, <2>7, <2>8, <2>9, <2>10, <2>11, <2>12, <2>13, <2>14
       DEF Step, Call
<1> QED
  BY <1>1, <1>2 DEF Next

(* Whatever the build, the alignments and the length, at every step of       *)
(* rte_memcpy the bytes behind dst are copied, no byte outside the call's is *)
(* written, and each label is reached only with what its moves can finish.   *)
THEOREM MemcpyInvariant == Spec => []MemInv
<1>1. Init => MemInv
  BY MemInit
<1>2. MemInv /\ [Next]_vars => MemInv'
  BY MemStep
<1> QED
  BY <1>1, <1>2, PTL DEF Spec

(* When rte_memcpy returns, exactly the bytes 0 .. n - 1 of the destination  *)
(* hold their source bytes, for every build, alignment and length.           *)
THEOREM MemcpyCopiesExactly == Spec => []CopyExact
<1>1. MemInv => CopyExact
  <2> SUFFICES ASSUME MemInv, pc = "done" PROVE copied = 0 .. call.len - 1
    BY DEF CopyExact
  <2>1. copied \subseteq 0 .. call.len - 1 /\ 0 .. call.len - 1 \subseteq copied
    BY DEF MemInv, Progress
  <2> QED
    BY <2>1
<1> QED
  BY <1>1, MemcpyInvariant, PTL

(* No load of rte_memcpy passes the end of the source, and only the SSE      *)
(* build's unaligned copy loads before its start, in the same aligned unit.  *)
THEOREM MemcpyLoadsInBounds == Spec => []LoadBounds
<1>1. MemInv => LoadBounds
  BY DEF MemInv
<1> QED
  BY <1>1, MemcpyInvariant, PTL
=============================================================================

----------------------------- MODULE RteMemcpy -----------------------------
(***************************************************************************)
(* rte_memcpy (src/ext/rte_memcpy.c) as a state machine: one call, for one *)
(* of the three builds of the file (AVX512, AVX2, SSE), copies n bytes     *)
(* with loads and stores of fixed width.  Addresses are offsets from the   *)
(* first byte of the destination and of the source; what the call sees of  *)
(* the real addresses is their alignment, call.da and call.sa.             *)
(* A piece <<at, w>> is a copy of w bytes at the offset at from the        *)
(* current dst and src.                                                    *)
(***************************************************************************)
EXTENDS Integers, FiniteSetsExt

CONSTANTS Isas,      \* the builds to run, of {"avx512", "avx2", "sse"}
          DstAligns, \* dst modulo 64
          SrcAligns, \* src modulo 64
          Lengths    \* n

ASSUME MemcpyAssumption ==
    /\ Isas \subseteq {"avx512", "avx2", "sse"}
    /\ DstAligns \subseteq 0..63 /\ SrcAligns \subseteq 0..63
    /\ Lengths \subseteq Nat

VARIABLES call,   \* the build and the arguments of the call
          pc,     \* where the call is
          dst, src, n, \* the variables of the same names in the code
          size,   \* width of the next rung or block; 0 at the last label
          bits,   \* bytes a block function has copied so far
          srcofs, \* the load offset of the unaligned copy
          copied, \* history: destination bytes that hold their source byte
          read    \* history: extent of the source offsets that were loaded

vars == <<call, pc, dst, src, n, size, bits, srcofs, copied, read>>

Init ==
    /\ call \in [isa : Isas, da : DstAligns, sa : SrcAligns, len : Lengths]
    /\ pc = "rte_memcpy"
    /\ dst = 0 /\ src = 0 /\ n = call.len
    /\ size = 0 /\ bits = 0 /\ srcofs = 0
    /\ copied = {}
    /\ read = [lo |-> 0, hi |-> 0]

----------------------------------------------------------------------------
(* What a move of w bytes touches, as the vector moves it is made of.      *)

Vectors(w, u) == UNION {k * u .. k * u + u - 1 : k \in 0 .. (w \div u) - 1}

rte_mov_avx512(w) == IF w < 64 THEN 0 .. w - 1 ELSE Vectors(w, 64)

rte_mov_avx2(w) == IF w < 32 THEN 0 .. w - 1 ELSE Vectors(w, 32)

rte_mov_sse(w) == IF w < 16 THEN 0 .. w - 1 ELSE Vectors(w, 16)

Touched(p) ==
    {p[1] + i : i \in CASE call.isa = "avx512" -> rte_mov_avx512(p[2])
                        [] call.isa = "avx2"   -> rte_mov_avx2(p[2])
                        [] call.isa = "sse"    -> rte_mov_sse(p[2])}

\* the bytes at stores + dst get the bytes at stores + src
Store(stores) ==
    copied' = IF dst = src THEN copied \cup {dst + i : i \in stores}
                           ELSE copied \ {dst + i : i \in stores}

Load(lo, hi) ==
    read' = [lo |-> Min({read.lo, src + lo}), hi |-> Max({read.hi, src + hi})]

Copy(pieces) ==
    /\ Store(UNION {Touched(p) : p \in pieces})
    /\ Load(Min({p[1] : p \in pieces} \cup {0}),
            Max({p[1] + p[2] : p \in pieces} \cup {0}))

NoCopy == UNCHANGED <<copied, read>>

Advance(k) == dst' = dst + k /\ src' = src + k /\ n' = n - k

Stay == UNCHANGED <<dst, src, n>>

Goto(label, w) == pc' = label /\ size' = w /\ bits' = 0

\* a branch that copies nothing
Jump(label, w) == Goto(label, w) /\ Stay /\ NoCopy /\ UNCHANGED srcofs

\* the early returns: the pieces given, and the call is over
Return(pieces) ==
    Copy(pieces) /\ Stay /\ Goto("done", 0) /\ UNCHANGED srcofs

\* n < 16: one move per bit of n, smallest first
SmallMoves == {<<n % w, w>> : w \in {v \in {1, 2, 4, 8} : (n \div v) % 2 = 1}}

\* the first w and the last w of the n bytes left
Ends(w) == {<<0, w>>, <<n - w, w>>}

----------------------------------------------------------------------------
ALIGNMENT_MASK == CASE call.isa = "avx512" -> 64
                    [] call.isa = "avx2"   -> 32
                    [] call.isa = "sse"    -> 16

rte_memcpy ==
    /\ pc = "rte_memcpy"
    /\ Jump(IF call.da % ALIGNMENT_MASK = 0 /\ call.sa % ALIGNMENT_MASK = 0
            THEN "aligned" ELSE "generic", 0)

rte_memcpy_aligned ==
    /\ pc = "aligned"
    /\ \/ n < 16 /\ Return(SmallMoves)
       \/ n \in 16..32 /\ Return(Ends(16))
       \/ n \in 33..64 /\ Return(Ends(32))
       \/ n > 64 /\ Jump("for", 64)

rte_memcpy_generic_avx512 ==
    /\ pc = "generic" /\ call.isa = "avx512"
    /\ \/ n < 16 /\ Return(SmallMoves)
       \/ n \in 16..32 /\ Return(Ends(16))
       \/ n \in 33..64 /\ Return(Ends(32))
       \/ n \in 65..512 /\ Jump("rung", 256)
       \/ n > 512 /\ Jump("align", 64)

rte_memcpy_generic_avx2 ==
    /\ pc = "generic" /\ call.isa = "avx2"
    /\ \/ n < 16 /\ Return(SmallMoves)
       \/ n \in 16..32 /\ Return(Ends(16))
       \/ n \in 33..48 /\ Return(Ends(16) \cup {<<16, 16>>})
       \/ n \in 49..64 /\ Return(Ends(32))
       \/ n \in 65..256 /\ Jump("rung", 128)
       \/ n > 256 /\ Jump("align", 32)

rte_memcpy_generic_sse ==
    /\ pc = "generic" /\ call.isa = "sse"
    /\ \/ n < 16 /\ Return(SmallMoves)
       \/ n \in 16..32 /\ Return(Ends(16))
       \/ n \in 33..48 /\ Return({<<0, 32>>, <<n - 16, 16>>})
       \/ n \in 49..64 /\ Return({<<0, 32>>, <<32, 16>>, <<n - 16, 16>>})
       \/ n \in 65..128 /\ Jump("rung", 64)
       \/ n \in 129..512 /\ Jump("rung", 256)
       \/ n > 512 /\ Jump("align", 16)

----------------------------------------------------------------------------
(* The ladder of "if (n >= w)" copies, the next rung of each build, and    *)
(* the copy of what is left, whose last move reaches back into bytes that  *)
(* are already there (COPY_BLOCK_128_BACK63, _BACK31, _BACK15).            *)

Rungs_avx512 == [w \in {256, 128} |-> IF w = 256 THEN 128 ELSE 0]

Rungs_avx2 == [w \in {128, 64} |-> IF w = 128 THEN 64 ELSE 0]

Rungs_sse == [w \in {256, 128, 64, 32} |-> IF w = 32 THEN 0 ELSE w \div 2]

NextRung(w) == CASE call.isa = "avx512" -> Rungs_avx512[w]
                 [] call.isa = "avx2"   -> Rungs_avx2[w]
                 [] call.isa = "sse"    -> Rungs_sse[w]

Rung ==
    /\ pc = "rung" /\ size > 0
    /\ IF n >= size THEN Copy({<<0, size>>}) /\ Advance(size)
                    ELSE NoCopy /\ Stay
    /\ Goto("rung", NextRung(size)) /\ UNCHANGED srcofs

Back(w) ==
    \/ n > w /\ Return(Ends(w))
    \/ n \in 1..w /\ Return({<<n - w, w>>})
    \/ n = 0 /\ Return({})

COPY_BLOCK_BACK ==
    pc = "rung" /\ size = 0 /\ Back(ALIGNMENT_MASK)

----------------------------------------------------------------------------
(* More than 512 (256) bytes: make the store aligned, then copy blocks.    *)

AlignTo(ofs) == IF ofs > 0 THEN Copy({<<0, size>>}) /\ Advance(size - ofs)
                           ELSE NoCopy /\ Stay

Align_avx512 ==
    /\ pc = "align" /\ call.isa = "avx512"
    /\ AlignTo(call.da % 64)
    /\ Goto("blocks", 512) /\ UNCHANGED srcofs

Align_avx2 ==
    /\ pc = "align" /\ call.isa = "avx2"
    /\ AlignTo(call.da % 32)
    /\ Goto("blocks", 128) /\ UNCHANGED srcofs

\* the switch over the immediate offsets; any other value copies nothing
MOVEUNALIGNED_LEFT47(ofs) ==
    IF ofs \in 1..15 THEN Goto("left47", 128) ELSE Goto("rung", 32)

MutAlign_sse ==
    LET ofs == call.da % 16
        skip == IF ofs > 0 THEN 16 - ofs + 16 ELSE 0
    IN  /\ pc = "align" /\ call.isa = "sse"
        /\ IF ofs > 0 THEN Copy({<<0, 16>>}) ELSE NoCopy
        /\ Advance(skip)
        /\ srcofs' = (call.sa + src + skip) % 16
        /\ IF srcofs' = 0 THEN Goto("for", 256) ELSE MOVEUNALIGNED_LEFT47(srcofs')

Align_sse ==
    LET ofs == call.da % 16
        skip == IF ofs > 0 THEN 16 - ofs + 16 ELSE 0
    IN  /\ pc = "align" /\ call.isa = "sse"
        /\ IF ofs > 0 THEN Copy({<<0, 32>>}) ELSE NoCopy
        /\ Advance(skip)
        /\ srcofs' = (call.sa + src + skip) % 16
        /\ IF srcofs' = 0 THEN Goto("for", 256) ELSE MOVEUNALIGNED_LEFT47(srcofs')

\* one turn of rte_mov512blocks / rte_mov128blocks, on its own dst and n
Block_avx512 ==
    /\ pc = "blocks" /\ call.isa = "avx512" /\ n - bits >= size
    /\ Copy({<<bits, size>>}) /\ bits' = bits + size
    /\ Stay /\ UNCHANGED <<pc, size, srcofs>>

Block_avx2 ==
    /\ pc = "blocks" /\ call.isa = "avx2" /\ n - bits >= size
    /\ Copy({<<bits, size>>}) /\ bits' = bits + size
    /\ Stay /\ UNCHANGED <<pc, size, srcofs>>

\* the caller skips what the block function copied
AfterBlocks_avx512 ==
    /\ pc = "blocks" /\ call.isa = "avx512" /\ n - bits < size
    /\ Advance(n - (n % size)) /\ NoCopy /\ UNCHANGED srcofs
    /\ IF size = 512 /\ n % size >= 128 THEN Goto("blocks", 128) ELSE Goto("rung", 0)

AfterBlocks_avx2 ==
    /\ pc = "blocks" /\ call.isa = "avx2" /\ n - bits < size
    /\ Advance(n - (n % 128)) /\ NoCopy /\ UNCHANGED srcofs
    /\ Goto("rung", 64)

\* the loops that advance dst, src and n themselves: 256-byte blocks of the
\* SSE build, 64-byte blocks of rte_memcpy_aligned
For ==
    /\ pc = "for"
    /\ IF n >= size
       THEN Copy({<<0, size>>}) /\ Advance(size) /\ UNCHANGED <<pc, size, bits, srcofs>>
       ELSE IF size = 64 THEN Return({<<n - 64, 64>>})
       ELSE Jump("rung", 128)

MutLeft47 ==
    /\ pc = "left47" /\ n >= size
    /\ Load(-srcofs, -srcofs + size + 16)
    /\ Store(0 .. size - 1)
    /\ Advance(size) /\ UNCHANGED <<pc, size, bits, srcofs>>

\* one turn of a loop of the unaligned copy: aligned loads that start srcofs
\* before src, stores shifted back by srcofs
MOVEUNALIGNED_LEFT47_IMM ==
    /\ pc = "left47" /\ n >= size + 16 - srcofs
    /\ Load(-srcofs, -srcofs + size + 16)
    /\ Store(0 .. size - 1)
    /\ Advance(size) /\ UNCHANGED <<pc, size, bits, srcofs>>

\* what a loop leaves: at most 47 bytes after the second one
Left47Rest ==
    LET left == ((n - 16 + srcofs) % size) + 16 - srcofs
    IN  /\ pc = "left47" /\ n < size + 16 - srcofs
        /\ Advance(n - left) /\ NoCopy /\ UNCHANGED srcofs
        /\ IF size = 128 /\ left >= 32 + 16 - srcofs
           THEN Goto("left47", 32) ELSE Goto("rung", 32)

Finished == pc = "done" /\ UNCHANGED vars

Call ==
    \/ rte_memcpy \/ rte_memcpy_aligned
    \/ rte_memcpy_generic_avx512 \/ rte_memcpy_generic_avx2 \/ rte_memcpy_generic_sse
    \/ Rung \/ COPY_BLOCK_BACK
    \/ Align_avx512 \/ Align_avx2 \/ Align_sse
    \/ Block_avx512 \/ Block_avx2 \/ AfterBlocks_avx512 \/ AfterBlocks_avx2
    \/ For \/ MOVEUNALIGNED_LEFT47_IMM \/ Left47Rest

Step == Call /\ UNCHANGED call

Next == Step \/ Finished

Spec == Init /\ [][Next]_vars

----------------------------------------------------------------------------
(* Properties.                                                             *)

\* When rte_memcpy returns, the n destination bytes hold the n source bytes
\* and no byte outside them was written, whatever the build, the alignment
\* and the path taken: the ladders, the block loops and the moves that reach
\* back overlap but leave no gap.
CopyExact == pc = "done" => copied = 0 .. call.len - 1

\* No load passes the end of the source, and none starts before it except in
\* the aligned 16-byte unit that holds its first byte (the backwards access
\* of MOVEUNALIGNED_LEFT47), so no load touches a page the source is not on.
LoadBounds ==
    /\ read.hi <= call.len
    /\ read.lo >= IF call.isa = "sse" THEN -(call.sa % 16) ELSE 0

----------------------------------------------------------------------------
(* The inductive invariant behind them: what each label may rely on.       *)

TypeOK ==
    /\ call \in [isa : Isas, da : DstAligns, sa : SrcAligns, len : Lengths]
    /\ dst \in Nat /\ src \in Nat /\ n \in Nat /\ size \in Nat /\ bits \in Nat /\ srcofs \in Nat
    /\ copied \in SUBSET Nat
    /\ read \in [lo : Int, hi : Int]

\* the part that is behind dst and the blocks is there, and nothing else but
\* bytes of the copy
Progress ==
    /\ dst = src /\ dst + n = call.len
    /\ bits <= n /\ (pc # "blocks" => bits = 0)
    /\ copied \subseteq 0 .. call.len - 1
    /\ 0 .. (IF pc = "done" THEN call.len ELSE dst + bits) - 1 \subseteq copied

\* a rung finds at most twice its width, the last one at most two vectors
AtRung ==
    pc = "rung" =>
        /\ call.len > 64
        /\ \/ call.isa = "avx512" /\ size \in {256, 128, 0}
           \/ call.isa = "avx2" /\ size \in {128, 64, 0}
           \/ call.isa = "sse" /\ size \in {256, 128, 64, 32, 0}
        /\ n <= 2 * (IF size = 0 THEN ALIGNMENT_MASK ELSE size)

AtAlign ==
    pc = "align" =>
        /\ dst = 0 /\ size = ALIGNMENT_MASK
        /\ call.len > IF call.isa = "avx2" THEN 256 ELSE 512

AtLoop ==
    /\ pc = "for" => call.len > 64 /\ (size = 64 \/ (size = 256 /\ call.isa = "sse"))
    /\ pc = "blocks" =>
         /\ call.len > 64 /\ bits % size = 0
         /\ \/ call.isa = "avx512" /\ size \in {512, 128}
            \/ call.isa = "avx2" /\ size = 128

\* src - srcofs is the start of an aligned unit, so not before the source's
AtLeft47 ==
    pc = "left47" =>
        /\ call.isa = "sse" /\ call.len > 64 /\ size \in {128, 32}
        /\ srcofs \in 1 .. 15 /\ n >= 16 - srcofs
        /\ srcofs <= src + (call.sa % 16)

\* At every step the bytes behind dst are copied, nothing outside the call's
\* bytes is, the loads stay in bounds, and each label has the amount left that
\* its moves were made for.
MemInv ==
    /\ TypeOK /\ Progress /\ LoadBounds
    /\ pc \in {"rte_memcpy", "aligned", "generic", "rung", "align", "for", "blocks", "left47", "done"}
    /\ pc \in {"rte_memcpy", "aligned", "generic"} => dst = 0
    /\ AtRung /\ AtAlign /\ AtLoop /\ AtLeft47
=============================================================================

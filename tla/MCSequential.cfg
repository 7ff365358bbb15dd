\* Packets: two mbufs with room for one byte and two for clones without room:
\* packets of up to three segments, the most allowed here, clones of packets and
\* of clones from either pool; shared packets.
\* Lcores: every set of enabled lcores out of five, every master, with limits 0
\* to 2 and without limit (nine calls when going round).
CONSTANTS
  PktMbufs = {m1, m2}
  CloneMbufs = {c1, c2}
  pool_private <- MCPoolPrivate
  NULL = NULL
  SizeofMbuf = 2
  RTE_PKTMBUF_HEADROOM = 1
  RTE_MBUF_MAX_NB_SEGS = 3
  UINT16 = 8
  MaxHeld = 2
  MaxLen = 2
  Isas = {"avx512", "avx2", "sse"}
  DstAligns = {0, 15, 49}
  SrcAligns = {0, 1, 8, 63}
  Lengths <- MCLengths
  RTE_MAX_LCORE = 5
  UINT32 = 8
  Limits = {0, 1, 2, 8}
SPECIFICATION SeqSpec
SYMMETRY MbufSymmetry
VIEW LiveView
INVARIANTS PacketWellFormed PooledIsClean RefcntExact CopyExact LoadBounds VisitsEach
PROPERTY FreeKeepsOthers

\* Any of two producers and two consumers use the ring; RING_F_EXACT_SZ leaves
\* two of four slots usable; the indices wrap.
CONSTANTS
  Producers = {p1, p2}
  Consumers = {c1, c2}
  Size = 4
  Capacity = 2
  IndexMod = 8
  ProdSingle = FALSE
  ConsSingle = TRUE
  MaxBurst = 2
  MaxObj = 3
  Starts = {7}
SPECIFICATION Spec
SYMMETRY ThreadSymmetry
INVARIANTS ClaimsExclusive IndInv FreeCountIsRoom
PROPERTY ImplementsFifo

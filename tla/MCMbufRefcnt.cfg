\* Two lcores, three mbufs; only direct mbufs are shared by raising their own count.
CONSTANTS
  Lcores = {l1, l2}
  Mbufs = {m1, m2, m3}
  None = None
  ShareIndirect = FALSE
  MaxRefs = 3
SPECIFICATION Spec
SYMMETRY MbufSymmetry
INVARIANTS UniqHolder PooledIsUnused CountIsExact

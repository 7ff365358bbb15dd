\* Every call returns while the lcores keep running; two lcores a side, room for
\* a claim of each, so that a later claim is ready to publish before an earlier one.
CONSTANTS
  Producers = {p1, p2}
  Consumers = {c1, c2}
  Size = 4
  Capacity = 2
  IndexMod = 8
  ProdSingle = FALSE
  ConsSingle = FALSE
  MaxBurst = 1
  MaxObj = 2
  Starts = {7}
SPECIFICATION FairSpec
PROPERTY CallReturns

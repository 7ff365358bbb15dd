\* One worker, so that none overtakes another, rings of two packets and a window
\* of two numbers: full rings drop so many packets that the next one is too early.
CONSTANTS
  Workers = {w1}
  Ports = {0}
  RING_SIZE = 2
  MAX_PKTS_BURST = 2
  REORDER_BUFFER_SIZE = 2
  MaxPkts = 7
SPECIFICATION Spec
INVARIANT NoneLost
CHECK_DEADLOCK FALSE

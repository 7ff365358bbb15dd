\* Two workers, rings of two packets, a reorder window of two numbers.
CONSTANTS
  Workers = {w1, w2}
  Ports = {0, 1}
  RING_SIZE = 2
  MAX_PKTS_BURST = 2
  REORDER_BUFFER_SIZE = 2
  MaxPkts = 5
SPECIFICATION Spec
SYMMETRY WorkerSymmetry
INVARIANTS PacketAccounted RestoredOrder StatsBalance
CHECK_DEADLOCK FALSE

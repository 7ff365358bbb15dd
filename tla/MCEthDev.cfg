CONSTANTS
  Size = 3
  Crystal = TRUE
  MaxPkts = 6
  BURST_SIZE = 2
  NbRxd = 2
  NbTxd = 2
  RxCallbacks <- MCRxCallbacks
  TxCallbacks <- MCTxCallbacks
  DevPorts = {0}
  nb_queues = 1
  dev_ops = {"rx_queue_count", "rx_descriptor_done", "rx_descriptor_status", "tx_pkt_prepare"}
  RTE_LIBRTE_ETHDEV_DEBUG = TRUE
  Word = 64
  MaxClock = 3
SPECIFICATION DevSpec
INVARIANTS TxBufferInv LatencyReal DriverGetsValid
PROPERTIES SentInOrder
CHECK_DEADLOCK FALSE

CONSTANTS
  IpHigh = 2
  IpLow = 2
  HopBits = 3
  n_workers = 2
  Ports = {0, 1, 2}
  nic_ports <- MCTxPorts
  nic_queues <- MCQueues
  Packets <- MCPackets
  bsz_rx_rd = 5
  bsz_rx_wr = 2
  bsz_rd = 2
  bsz_wr = 2
  bsz_tx_rd = 1
  bsz_tx_wr = 2
  RingRoom = 2
  APP_LCORE_IO_FLUSH = 1
  APP_LCORE_WORKER_FLUSH = 1
  RuleSet <- MCRules
  MaxRules = 4
  RunRules <- MCRunRules
SPECIFICATION Spec
INVARIANTS LpmLongest PacketOnce RoutedLongest FlowOrder
PROPERTIES ArraysFlushed
CHECK_DEADLOCK FALSE

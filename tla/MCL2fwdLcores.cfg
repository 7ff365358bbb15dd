\* The default of one queue per lcore: two ports, two lcores.
CONSTANTS
  NbPorts = 2
  Enabled = {0, 1}
  RTE_MAX_LCORE = 2
  QueuePerLcore = 1
  MacUpdating = TRUE
  MAX_PKT_BURST = 2
  DrainTicks = 1
  max_check_time = 5
  MaxRx = 2
SPECIFICATION Spec
INVARIANT TxPortMac
CHECK_DEADLOCK FALSE

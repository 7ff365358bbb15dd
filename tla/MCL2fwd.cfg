\* One lcore with all its ports, as in the command line at the end of l2fwd.cr;
\* four ports, every mask, five passes of the link check in place of ninety.
CONSTANTS
  NbPorts = 4
  Enabled = {0}
  RTE_MAX_LCORE = 4
  QueuePerLcore = 8
  MacUpdating = TRUE
  MAX_PKT_BURST = 2
  DrainTicks = 1
  max_check_time = 5
  MaxRx = 3
SPECIFICATION FairSpec
INVARIANTS ForwardedOnce TxPortMac TxQueueDedicated
PROPERTIES BufferDrains QuitCloses PrintFollows
CHECK_DEADLOCK FALSE

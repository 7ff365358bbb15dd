\* The transmit buffer of inlines.cr, the one the examples use.
CONSTANTS
  Size = 2
  Crystal = TRUE
  MaxPkts = 3
SPECIFICATION Spec
INVARIANT DropsCounted
CHECK_DEADLOCK FALSE

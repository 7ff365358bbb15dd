CONSTANTS
  IfIndex = 77
  Calls <- MCCalls
  RTE_MAX_ETHPORTS = 2
  DevCount = 1
  Mbufs = {1, 2, 3, 4}
  RingSize = 2
  MaxHeld = 2
  MaxFails = 1
  MaxDowns = 1
  MaxPkts = 4
SPECIFICATION FairSpec
INVARIANTS RequestsTarget ConfiguredAsAsked KniAnswers MbufOwned HostInOrder
PROPERTY KniReturns
CHECK_DEADLOCK FALSE

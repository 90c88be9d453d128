SPECIFICATION MainFairSpec
CONSTANTS
  NConns = 3
  None = None
  Backlog = 2
  MaxMsgs = 1
  MaxFds = 2
  MAXEVENTS = 2
  Faults = TRUE
  Addresses = 3
INVARIANTS EventsCurrent NoEdgeLost ReturnsFirstGood
PROPERTIES ClosedOnlyDrained EveryClientServed FindsAddress
CHECK_DEADLOCK FALSE

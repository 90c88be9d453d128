SPECIFICATION FairSpec
CONSTANTS
  NConns = 3
  None = None
  Backlog = 2
  MaxMsgs = 1
  MaxFds = 3
  MAX_CONNECTIONS = 2
  AcceptErrors = TRUE
  StrayFd = 3
INVARIANTS TypeOK TablesAgree NreadyExact NeverBlocks
PROPERTIES EveryClientServed
CHECK_DEADLOCK FALSE

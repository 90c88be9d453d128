SPECIFICATION FairSpec
CONSTANTS
  NConns = 3
  None = None
  Backlog = 2
  MaxMsgs = 1
  MaxFds = 3
  MAX_CLIENTS_NUM = 2
  AcceptErrors = TRUE
  ReplyRoom = 1
INVARIANTS TypeOK TablesAgree NeverBlocks
PROPERTIES RefusedOnlyWhenFull EveryMessageRead
CHECK_DEADLOCK FALSE

SPECIFICATION FairSpec
CONSTANTS NConns = 2  MaxMsgs = 2  MaxProcs = 2  MaxDgrams = 1
INVARIANTS TypeOK NoZombieForgotten HeldByChildOnly NeverBlocks WriterReleased
PROPERTY ServedToTheEnd
CHECK_DEADLOCK FALSE

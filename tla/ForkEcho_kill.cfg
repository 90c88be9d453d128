SPECIFICATION Spec
CONSTANTS NConns = 2  MaxMsgs = 2  MaxProcs = 2  MaxDgrams = 1
INVARIANT KillsOnlyAfterServer
CHECK_DEADLOCK FALSE

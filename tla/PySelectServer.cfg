SPECIFICATION PyFairSpec
CONSTANTS NConns = 2  None = None  Backlog = 2  MaxMsgs = 2  MaxFds = 2  ReplyRoom = 1
INVARIANTS ListsAgree CrashOnlyByDeparture
PROPERTY EveryMessageAnswered
CHECK_DEADLOCK FALSE

SPECIFICATION FairSpec
CONSTANTS
  MAX_SIZE = 2
  BufLen = 2
  StdinLen = 4
  SndCap = 1
  RcvCap = 1
  OutCap = 1
  Faults = TRUE
INVARIANTS TypeOK InOrder FinAfterLastByte NoFalseAlarm
PROPERTIES UpPipeSpec EveryByteEchoed Terminates

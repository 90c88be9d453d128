SPECIFICATION Spec
CONSTANTS
  MAX_SIZE = 2
  BufLen = 2
  StdinLen = 3
  SndCap = 1
  RcvCap = 1
  OutCap = 1
  Faults = FALSE
INVARIANT NormalTermination

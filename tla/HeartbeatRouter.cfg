SPECIFICATION FairSpec
CONSTANTS NConns = 2  PEER_EXPIRE_CNT = 2
INVARIANTS TypeOK WaitsForTheDead
PROPERTIES RebootJustified DetectsSilence
CHECK_DEADLOCK FALSE

SPECIFICATION FairSpec
CONSTANTS
  Conns = {k1, k2}
  None = None
  CLI_ALARM_INTERVAL = 3
  PEER_EXPIRE_CNT = 1
  SRV_ALARM_INTERVAL = 1
  SRV_PEER_EXPIRE_CNT = 1
  MaxKills = 1
  Prompt = FALSE
INVARIANTS OneMark OneConnection DetectsInTime
PROPERTY FollowsServer

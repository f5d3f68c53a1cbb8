SPECIFICATION FairSpec
CONSTANTS
  MaxReq = 3
  MaxStop = 2
  MaxCrash = 1
  MaxFault = 1
  MaxExpire = 0
INVARIANTS TypeOK NoEngineWhenIdle OneEngine NoEarlySignal
PROPERTY AcceptedEnds
CHECK_DEADLOCK FALSE

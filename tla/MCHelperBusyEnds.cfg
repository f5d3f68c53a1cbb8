SPECIFICATION FairSpec
CONSTANTS
  MaxReq = 2
  MaxStop = 0
  MaxCrash = 0
  MaxFault = 0
  MaxExpire = 0
PROPERTY BusyEnds
CHECK_DEADLOCK FALSE

SPECIFICATION Spec
CONSTANTS
  MaxReq = 2
  MaxStop = 0
  MaxCrash = 0
  MaxFault = 1
  MaxExpire = 1
INVARIANT NoEngineWhenIdle
CHECK_DEADLOCK FALSE

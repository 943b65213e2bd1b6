CONSTANTS
  Sec = 2  Rates = {2}  Factors = {1, 2}  InitialRate = 1  MaxRate = 2
  RecvCap = 1  SendCap = 1  Writers = {c1, c2}  NoWriter = NoWriter
  MaxReads = 2  MaxTime = 0
SPECIFICATION FairSpec
INVARIANTS ThrottleInv   OwnStatus RateLimit
PROPERTIES WriteToReturns ReadsDelivered
CHECK_DEADLOCK FALSE

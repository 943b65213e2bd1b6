CONSTANTS
  extending = extending  stopping = stopping  failing = failing
  Goroutines = {g1, g2}  Callbacks = {extending, stopping, failing}
  NoCallback = NoCallback  Effect <- Effects3  MaxCalls = 5
SPECIFICATION FairSpec
INVARIANTS PipelinesInv  
PROPERTY CallsReturn
CHECK_DEADLOCK FALSE

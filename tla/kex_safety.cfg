CONSTANTS
  c1 = c1  c2 = c2  Svr = Svr  NoKey = NoKey  NoAddr = NoAddr
  Clients = {c1, c2}  Slots = {s1, s2}
  Short <- ShortSecrets  MaxSends <- Sends  MaxReceived = 5  Epochs <- OneRestart
SYMMETRY SlotSymmetry
SPECIFICATION Spec
INVARIANTS   E2EAuthentic
  
CHECK_DEADLOCK FALSE

CONSTANTS
  c1 = c1 r1 = r1 r2 = r2 r3 = r3
  NoRef = NoRef
  Peer = Peer Local = Local NoCall = NoCall NoAnswer = NoAnswer NoDatagram = NoDatagram
  Refs = {r1, r2, r3}
  Calls = {c1, c2}
  NilCalls = {c2}
  RefsOf <- OwnRefs
  PeerRefs = {r3}
  Handlers = {1, 2}
  MaxReads = 2  Clt = Clt  Other = Other
SPECIFICATION FairSession
INVARIANTS SessionInv EndToEnd
PROPERTIES ClientAssumptionMet SendReturns FoundCallerAnswered
CHECK_DEADLOCK FALSE

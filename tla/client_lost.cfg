CONSTANTS
  c1 = c1 r1 = r1 r2 = r2
  NoRef = NoRef
  Peer = Peer Local = Local NoCall = NoCall NoAnswer = NoAnswer
  Refs = {r1, r2}
  Calls = {c1}
  NilCalls = {}
  RefsOf <- OwnRefs
  PeerRefs <- OnlyNoRef
  Handlers = {h1}
SPECIFICATION FairSpec
PROPERTY ResponseReachesCaller
CHECK_DEADLOCK FALSE

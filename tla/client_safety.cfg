CONSTANTS
  c1 = c1 r1 = r1 r2 = r2
  NoRef = NoRef
  Peer = Peer Local = Local NoCall = NoCall NoAnswer = NoAnswer
  Refs = {r1, r2}
  Calls = {c1, c2}
  NilCalls = {}
  RefsOf <- AnyRefs
  PeerRefs <- AllRefs
  Handlers = {h1, h2}
SYMMETRY Symmetry
SPECIFICATION Spec
INVARIANTS ClientInv OwnAnswer ForgottenOnlyThroughMisc
PROPERTY ImplementsRequestReply
CHECK_DEADLOCK FALSE

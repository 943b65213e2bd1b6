CONSTANTS
  NoRef = NoRef  NoAddr = NoAddr  NoTarget = NoTarget  BadText = BadText
  a1 = a1  a2 = a2  lost = lost  r1 = r1  req = req
  echo = echo  busy = busy  fail = fail  fwd = fwd  none = none
  Tasks = {t1, t2}  Workers = {w1, w2}  NoTask = NoTask
  Pkts = {p1, p2, p3, p4}  NoPkt = NoPkt
  NumReaders = 1  MaxReadErrors = 0  MaxOutErrors = 1
  Datagrams <- Requests  Resolvable = {a1, a2}
  Targets <- Served  Queues <- AllQueues  TargetRelay = fwd  RelayDests = {a2}
  InOutcomes <- Ok  OutOutcomes <- Ok
SPECIFICATION Spec
INVARIANT ErrorCarriesNoData
CHECK_DEADLOCK FALSE

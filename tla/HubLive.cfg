SPECIFICATION FairSpec
CONSTANTS
  n1 = n1 c1 = c1 c2 = c2 r1 = r1 s1 = s1
  Nodes = {n1}
  Conns = {c1, c2}
  Reqs = {r1}
  Sess = {s1}
  NodeOf <- AllOnOne
  TargetOf <- AimAtOne
  QueueCap = 1
  Reports = {"ready", "beat"}
  NoConn = NoConn
  NoId = NoId
PROPERTIES HungUpCallReturns HungUpSessionEnds ConnectedIsShownOnline
CONSTRAINT OneStory
CHECK_DEADLOCK FALSE

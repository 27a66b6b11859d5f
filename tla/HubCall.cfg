SPECIFICATION Spec
CONSTANTS
  n1 = n1 c1 = c1 c2 = c2 r1 = r1 s1 = s1
  Nodes = {n1}
  Conns = {c1, c2}
  Reqs = {r1}
  Sess = {s1}
  NodeOf <- AllOnOne
  TargetOf <- AimAtOne
  QueueCap = 1
  Reports = {}
  NoConn = NoConn
  NoId = NoId
INVARIANTS TypeOK NoAbandonedCaller AtMostOneOutcome
  NoOutputAfterOutcome StopIsNeverLost OneStreamPerNode
SYMMETRY AnyStream
CHECK_DEADLOCK FALSE

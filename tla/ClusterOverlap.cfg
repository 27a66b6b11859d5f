SPECIFICATION Spec
CONSTANTS
  k1 = k1 k2 = k2 n1 = n1 n2 = n2 q1 = q1 q2 = q2
  Clusters = {k1, k2}
  Nodes = {n1, n2}
  Callers = {q1, q2}
  Addressed = {}
  MaxTasks = 3
  MaxRestarts = 0
  Events = {}
  NoCluster = NoCluster
  NoNode = NoNode
  Unset = Unset
  Own = Own
INVARIANT ARuleIsKept

CHECK_DEADLOCK FALSE

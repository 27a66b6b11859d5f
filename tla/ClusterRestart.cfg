SPECIFICATION Spec
CONSTANTS
  k1 = k1 k2 = k2 n1 = n1 n2 = n2 q1 = q1 q2 = q2
  Clusters = {k1}
  Nodes = {n1}
  Callers = {q1}
  Addressed = {}
  MaxTasks = 1
  MaxRestarts = 1
  Events = {}
  NoCluster = NoCluster
  NoNode = NoNode
  Unset = Unset
  Own = Own
INVARIANT BusyHasTask

CHECK_DEADLOCK FALSE

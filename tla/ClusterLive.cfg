SPECIFICATION FairSpec
CONSTANTS
  k1 = k1 k2 = k2 n1 = n1 n2 = n2 q1 = q1 q2 = q2
  Clusters = {k1}
  Nodes = {n1, n2}
  Callers = {q1}
  Addressed = {}
  MaxTasks = 3
  MaxRestarts = 0
  Events = {"hangup", "cancel"}
  NoCluster = NoCluster
  NoNode = NoNode
  Unset = Unset
  Own = Own
INVARIANTS ResetSparesReady
PROPERTIES CancelledTaskEnds InstallSettles
CHECK_DEADLOCK FALSE

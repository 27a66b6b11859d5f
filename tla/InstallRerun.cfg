SPECIFICATION Spec
CONSTANTS
  k1 = k1 k2 = k2
  Clusters = {k1, k2}
  Specs <- Mixed
  Found = {"containerd", "prepared"}
  MaxFaults = 1
  None = None
INVARIANT RerunIsSafe
CHECK_DEADLOCK FALSE

SPECIFICATION FairSpec
CONSTANTS
  k1 = k1 k2 = k2
  Clusters = {k1, k2}
  Specs <- Mixed
  Found = {"containerd", "prepared"}
  MaxFaults = 3
  None = None
INVARIANTS TypeOK BundleIsThisRuns KubeadmHasItsTools OkIsOfThisCluster OkSurvivesReboot
PROPERTIES CancelledRunEnds
CHECK_DEADLOCK FALSE

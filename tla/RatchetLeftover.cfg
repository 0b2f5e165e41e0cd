SPECIFICATION Spec
CONSTANTS
  p1 = p1 p2 = p2 k1 = k1 k2 = k2 ab = ab ac = ac
  NoProc = NoProc NoFile = NoFile Unclassified = Unclassified
  Procs = {p1} Contracts = {k1, k2} Committed = k1 Classes = {"debt", "false_positive"}
  Clusters <- MCClusters ClustersOf <- MCClustersOf Baseline <- MCBaseline
  MaxEdits = 1 MaxPins = 0 MaxRuns = 3
INVARIANTS RegistryTrue
CHECK_DEADLOCK FALSE

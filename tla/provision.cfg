SPECIFICATION InfraSpec
CONSTANTS
  Wants <- MCWants
  MaxApply = 3
  MaxFaults = 2
  Addresses = {a1, a2, a3, a4}
  Counts = {0, 1, 2}
  MaxContainerApply = 3
  MaxDockerFaults = 2
  Providers = {"ALI_CLOUD", "CONTAINER", "OTHER"}
SYMMETRY MCSymmetry
INVARIANTS
  SavedIsReal
  ClusterEIPServes
  Converged
  ClearLeavesNothing
  FirstMasterLabelled
  ListedHostsRun
  CleanUpRemovesAll
CHECK_DEADLOCK FALSE

SPECIFICATION Spec
CONSTANTS
  hm0 = hm0
  hm1 = hm1
  hw1 = hw1
  Hosts = {hm0, hm1, hw1}
  MaxPos = 2
  RegMode = "HA"
  InstallFile <- MCTwoMasters
  Operators = {hm0}
  Prune = TRUE
  Commands = {"install", "scale-up", "scale-down", "delete"}
  MaxOps = 3
  MaxDown = 1
INVARIANTS
  WorkerReachesRegistry
  WorkerReachesAPI
  LvsFollowsMasters
PROPERTIES
  ControlPlaneSurvives

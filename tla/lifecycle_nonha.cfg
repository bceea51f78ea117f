SPECIFICATION Spec
CONSTANTS
  hm0 = hm0
  hm1 = hm1
  hw1 = hw1
  Hosts = {hm0, hm1, hw1}
  MaxPos = 2
  RegMode = "nonHA"
  InstallFile <- MCSingleMaster
  Operators = {hm0, hm1}
  Prune = TRUE
  Commands = {"install", "scale-up", "scale-down", "delete"}
  MaxOps = 4
  MaxDown = 1
INVARIANTS
  TypeOK
  RegistryServed
  WorkerKeepsMaster0
  LvsFollowsMasters
PROPERTIES
  Master0Kept

SPECIFICATION Spec
CONSTANTS
  hm0 = hm0
  hm1 = hm1
  hw1 = hw1
  Hosts = {hm0, hm1, hw1}
  MaxPos = 2
  RegMode = "HA"
  InstallFile <- MCSingleMaster
  Operators = {hm0}
  Prune = TRUE
  Commands = {"install", "scale-up", "delete"}
  MaxOps = 3
  MaxDown = 1
INVARIANTS
  NothingLeftBehind

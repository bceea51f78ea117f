SPECIFICATION Spec
CONSTANTS
  hm0 = hm0
  hm1 = hm1
  hw1 = hw1
  Hosts = {hm0, hm1, hw1}
  MaxPos = 2
  RegMode = "nonHA"
  InstallFile <- MCTwoMasters
  Operators = {hm0}
  Prune = TRUE
  Commands = {"install", "scale-down"}
  MaxOps = 2
  MaxDown = 1
INVARIANTS
  UnreachableHostIsSkipped

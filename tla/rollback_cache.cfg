SPECIFICATION Spec
CONSTANTS
  Hosts = {h1}
  Images = {v1, v2}
  Files = {f1, f2}
  Areas = {image}
  IgnoreCache = {FALSE}
  Kinds = {}
  MaxCmds = 3
  MaxFaults = 0
CHECK_DEADLOCK FALSE
INVARIANTS
  DistributeDelivers

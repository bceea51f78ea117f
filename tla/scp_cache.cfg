SPECIFICATION Spec
CONSTANTS
  Hosts = {h1, h2}
  Images = {v1, v2}
  Files = {f1, f2}
  Areas = {image}
  IgnoreCache = {TRUE, FALSE}
  Kinds = {"conn", "silent", "kill", "rm"}
  MaxCmds = 3
  MaxFaults = 2
CHECK_DEADLOCK FALSE
INVARIANTS
  TypeOK
  FlagIsHonest
  ForcedSyncDelivers

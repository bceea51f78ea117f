SPECIFICATION FairSpec
CONSTANTS
  Hosts = {h1, h2}
  Dests = {rootfs}
  MountDirs = {amd64}
  FileCount = 2
  MaxRounds = 3
  MaxFaults = 2
CHECK_DEADLOCK FALSE
INVARIANTS
  TypeOK
  ReportedIsInPlace
  NoneFetchesEarly
  NoneLeavesEarly
PROPERTIES
  PromiseKept
  RoundsSucceed

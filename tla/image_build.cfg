SPECIFICATION Spec
CONSTANTS
  Kubefiles <- MCKubefiles
  Src <- MCSrc
  Named <- MCNamed
  Content <- MCContent
  BuildOptions <- MCBuildOptions
  ImageNames <- MCImageNames
  Stores0 <- MCStores0
  Tars0 <- MCTars0
  Remote0 <- MCRemote0
  HostPlatform = "amd64"
  MaxDownloadFaults = 1
  Gor = 2
  RetryTime = 1
  MaxNetFaults = 1
  MaxImages = 16
  MaxCommands = 2
  MaxCrashes = 1
INVARIANTS
  ManifestComplete
  NoIntermediateLeft
  LaunchableApps
  AuthComplete
  LoadRestores
  ContextClean
PROPERTY
  CommandEnds

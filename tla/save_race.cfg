SPECIFICATION Spec
CONSTANTS
  Kubefiles <- MCKubefiles
  Src <- MCSrc
  Named <- MCNamed
  Content <- MCContent
  BuildOptions <- MCSaveOptions
  ImageNames <- MCImageNames
  Stores0 <- MCSaveStores
  Tars0 <- MCSaveTars
  Remote0 <- MCSaveRemote
  HostPlatform = "amd64"
  MaxDownloadFaults = 0
  Gor = 2
  RetryTime = 1
  MaxNetFaults = 0
  MaxImages = 14
  MaxCommands = 1
  MaxCrashes = 0
INVARIANT
  PlainComplete

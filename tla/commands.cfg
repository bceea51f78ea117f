\* Three commands on two masters and a worker, one failed step.
SPECIFICATION Spec
CONSTANTS
  Hosts <- MCHosts
  Master0 = "m1"
  FirstIP <- MCFirstIP
  Extended <- MCExtended
  Split <- MCSplit
  Ext <- MCExt
  Plugins <- MCPlugins
  Files <- MCFiles
  FlagSets <- MCFlagSets
  ArgSets <- MCArgSets
  ScaleSets <- MCScaleSets
  AltSets <- MCAltSets
  MaxCommands = 3
  MaxFailures = 1
INVARIANTS TypeOK EnvKept HookMatchesRootfs MastersShareTrust SansKept AppAsAsked
PROPERTY TokenedHostsJoin

SPECIFICATION HostSpec
CONSTANTS
  Models = {"TB320FC", "Generic", "Gbl"}
  MaxBuild = 2
  MaxIndex = 2
  MaxRuns = 4
  Hosts = {"Windows", "Debian", "Linux"}
  Releases <- MCReleases
  Disks <- MCDisks
  MaxSwitches = 1
  MaxInstalls = 1
  Providers = {"Magisk", "MagiskFork", "KernelSU", "APatch", "Skroot"}
  Assets <- MCAssets
  Artifacts <- MCArtifacts
  Kernels <- MCKernels
  Manual = {9}
  MaxRootRuns = 2
  MaxNews = 1
  MaxMishaps = 1
  Legacy = {"adbkey", "backup_1"}
  Threads = {t1, t2}
  OldFiles <- MCOldFiles
  Paths = {"a", "b", "c"}
  RECENT_MAX = 2
  MaxPicks = 2
  MaxAsks = 2
  MaxFaults = 2
  MaxKills = 1
INVARIANTS
  SuccessIsInstalled
  PiecesBelongTogether
  KeptUnlessUnreadable
  StockIsRecoverable
  FinishedPairsInSync
PROPERTIES
  NeverBelowFloor
  ResetOnlyWhole
CHECK_DEADLOCK FALSE

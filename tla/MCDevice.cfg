SPECIFICATION DeviceSpec
CONSTANTS
  Drivers = {"Userspace", "Kernel"}
  Ports = {p1, p2}
  Observe = 3
  Deadline = 4
  Patience = 1
  MaxLag = 2
  SpareModes = {"Adb", "Edl"}
  MaxEvents = 2
  Serials = {HA1, HA2}
  DeviceModes = {"Adb", "Fastboot", "Edl"}
  Kinds = {"Info"}
  MaxQueries = 3
  MaxCableMoves = 3
  Routes = {"Avb", "Gbl"}
  MaxFlashes = 2
  MaxStarts = 4
  MaxReboots = 2
INVARIANTS
  NeverOpensAGhost
  ViewsAreOfTheDevice
  WaitsHaveAWorker
  StockIsNeverLost
  SuccessMeansWholePair
PROPERTIES
  EntryEnds
  LoadingEnds
  FlashNeverResetsHalfPair
CHECK_DEADLOCK FALSE

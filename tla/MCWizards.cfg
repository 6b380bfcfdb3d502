SPECIFICATION WizardsSpec
CONSTANTS
  Wizards = {"FlashParts", "DumpParts", "FlashPhys", "DumpPhys", "SimpleFlash"}
  Rows = {1}
  Images = {"img"}
  Prefilled = FALSE
  MaxScreens = 1
  MaxRuns = 2
  MaxBoots = 1
  Tools = {"ConvertXml", "RegionConvert", "PatchArb", "RebuildVbmeta", "DetectArb", "ImageInfo", "PatchDevinfo"}
  Sources = {"s"}
  Picked = {"s", "rb", "region_convert", "Loader"}
  Packs = {"x1", "x2"}
  Indices = {3}
  MaxToolRuns = 2
  MaxToolFaults = 1
  MaxDialogs = 2
  Setups = {"Root", "Unroot", "SystemUpdate"}
  Families = {"Magisk", "KernelSU", "APatch", "Skroot"}
  DefaultFits = {FALSE, TRUE}
  DeviceModels = {"Plain", "Canoe", "Xiaoxin"}
  Loaders = {"l1", "l2"}
  MaxAsked = 2
  MaxOrders = 1
  MaxMoves = 1
INVARIANTS
  OkMeansBuilt
  BarNamesThePage
  OrdersAreWhole
PROPERTIES
  BounceKeepsPlace
CHECK_DEADLOCK FALSE

SPECIFICATION Spec
CONSTANTS
  Serials = {HA1}
  DeviceModes = {"Edl"}
  Kinds = {}
  MaxQueries = 1
  MaxCableMoves = 1
  Folders = {"Signed", "GblNo"}
  Loaderless = {"Signed"}
  DefaultLoader = TRUE
  Abls = {"Efisp", "Foreign"}
  DeviceRegions = {"Row"}
  Targets = {"OtherRegion"}
  DataModes = {"Wipe"}
  Countries = {"Other"}
  Edits = {"Data"}
  Pickers = {"FlashFolder", "UnrootFolder", "Loader", "Bootloader"}
  PrcOnly = {}
  MaxOpen = 1
  MaxJobs = 2
  MaxQueued = 1
  MaxRuns = 2
PROPERTIES
  StartsOnWhatWasChecked
  ProgressPageMeansRun
CHECK_DEADLOCK FALSE

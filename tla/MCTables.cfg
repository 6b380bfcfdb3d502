SPECIFICATION TablesSpec
CONSTANTS
  Images <- MCImages
  Exports <- MCExports
  Typed = {3}
  GpuRoutes = {"Avb", "Gbl"}
  MaxEdits = 3
  MaxGpuFlashes = 2
  Drivers = {"Kernel"}
  Ports = {p1}
  Observe = 1
  Deadline = 2
  Patience = 0
  MaxLag = 0
  SpareModes = {}
  MaxEvents = 1
  NLuns = 2
  Wizards = {"FlashParts", "DumpParts", "FlashPhys", "DumpPhys"}
  MaxFaults = 2
  MaxJobs = 2
INVARIANTS
  OkMeansDone
  UnmarkedMeansUntouched
PROPERTIES
  WrittenIsShown
  OnlyTheTableChanges
CHECK_DEADLOCK FALSE

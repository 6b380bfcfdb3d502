SPECIFICATION Spec
CONSTANTS
  Families = {"Generic", "Canoe", "Xiaoxin", "Unprotected"}
  Modes = {"On", "Off", "Auto", "Manual"}
  ActiveSlots = {"b"}
  MaxIndex = 2
  Stocks = {0, 1}
  Faults = {"FastbootSilent"}
  Options = {"region", "user_abl", "no_efisp_load", "wipe"}
  MaxRuns = 1
INVARIANTS
  FinishedBoots
PROPERTIES
  FailedFlashStaysInEdl
  BootloaderIsRestored
CHECK_DEADLOCK FALSE

SPECIFICATION StorageSpec
CONSTANTS
  Wizards = {"FlashParts"}
  Rows = {1, 2}
  Images = {"img"}
  Prefilled = TRUE
  MaxScreens = 1
  MaxRuns = 2
  MaxBoots = 0
INVARIANTS
  ImageGoesToItsRow
CHECK_DEADLOCK FALSE

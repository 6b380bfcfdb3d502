SPECIFICATION Spec
CONSTANTS
  Families = {"Generic"}
  Modes = {"Auto"}
  ActiveSlots = {"a", "b"}
  MaxIndex = 2
  Stocks = {1}
  Faults = {}
  Options = {}
  MaxRuns = 2
INVARIANTS
  FloorsAreCommitted
CHECK_DEADLOCK FALSE

SPECIFICATION UpdateSpec
CONSTANTS
  Processes = {p1, p2}
  SwapKinds = {"MoveAside"}
  MaxTries = 1
  MaxStops = 1
PROPERTIES
  CopyOutlivesTheSwap
CHECK_DEADLOCK FALSE

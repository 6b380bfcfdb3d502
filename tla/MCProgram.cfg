SPECIFICATION ProgramSpec
CONSTANTS
  MaxOps = 2
  MaxPolls = 2
  MaxDeferred = 2
  Windows = TRUE
  Processes = {p1, p2}
  SwapKinds = {"AtomicFile", "MoveAside"}
  MaxTries = 2
  MaxStops = 1
INVARIANTS
  OneDeviceHolder
  NoStrandedInput
  NeverPanics
  AProgramSurvives
  ReportIsTrue
PROPERTIES
  LeaseSpec
  OperationEnds
  RestartLeavesAnInstance
CHECK_DEADLOCK FALSE

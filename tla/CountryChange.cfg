CONSTANTS
  Images <- MCImages
  SplitSuper = {"super_1"}
  Folders <- MCFolders
  Shipped <- MCShipped
  Models = {"Devinfo", "Oemowninfo", "Proinfo"}
  PickerCodes = {"CN", "US", "TW"}
  KnownCodes <- MCKnownCodes
  FieldsOf <- MCFieldsOf
  MaxRuns = 2
  MaxFaults = 1
SPECIFICATION Spec
INVARIANTS OkMeansFlashed StockIsRecoverable OkMeansCountry
PROPERTY GuardedStaysUntouched
CHECK_DEADLOCK FALSE

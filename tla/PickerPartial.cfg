SPECIFICATION ScanSpec
CONSTANTS
  CatalogSize = 5
  StepCount = 2
  PageSize = 2
  MaxPages = 2
  LookupBatch = 2
  PerStep = 2
  MaxEdits = 0
INVARIANT PickerSaysPartial
CHECK_DEADLOCK FALSE

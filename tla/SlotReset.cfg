CONSTANTS
  LastSlot = 0
  MaxRetry = 1
  MaxChecks = 2
  TwoReadings = FALSE
SPECIFICATION FairSpec
PROPERTIES ResetModuleReturns

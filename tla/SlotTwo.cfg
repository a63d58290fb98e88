CONSTANTS
  LastSlot = 1
  MaxRetry = 1
  MaxChecks = 2
  TwoReadings = FALSE
SPECIFICATION FairSpec
INVARIANTS TypeOK HandleAssigned OccupiedReported NothingMissed
PROPERTIES RemovalNoticed PluggedTried

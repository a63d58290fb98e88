CONSTANTS
  LastSession = 2
  Registered <- MCMenu
  Commands <- MCCommands
  Unknown <- MCUnknown
  MaxToHost = 1
  MaxToCam = 2
  CrossingClose = FALSE
SPECIFICATION Spec
INVARIANTS TypeOK TableConsistent HandleSound DataToItsResource AgreedWhenQuiet

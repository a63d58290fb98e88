CONSTANTS
  LastSession = 1
  Registered <- MCAll
  Commands = {}
  Unknown <- MCUnknown
  MaxToHost = 1
  MaxToCam = 1
  CrossingClose = FALSE
SPECIFICATION FairSpec
PROPERTIES RequestAnswered CloseAnswered

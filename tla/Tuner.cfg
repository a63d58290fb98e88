CONSTANTS
  Channels = 2
  Value = {v1, v2}
  Zero = zero
  Default = v1
  Unreadable = unreadable
  NotSet = notset
  Types = {"C", "S2"}
  SetChannel = {1}
  MaxStarts = 1
  Waits = TRUE
SPECIFICATION FairSpec
INVARIANTS TypeOK Served LedTruthful NeverZeroed
PROPERTIES ScanAfterLock ChangeServed

CONSTANTS
  t1 = t1
  long = long
  Thread <- MCThread
  Message <- MCMessage
  Counts = {2}
  QueueSize = 2
  MaxTpdu = 2
  MaxAnswer = 3
  MaxParts = 1
  MaxUnit = 0
  Offered <- MCOffered
SPECIFICATION FairSpec
INVARIANTS TypeOK DamageConfined PartsAgree TaskSized
PROPERTIES PollingGoesOn ImplementsChannel

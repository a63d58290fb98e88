CONSTANTS
  c1 = c1
  c2 = c2
  None = None
  Setter = {c1}
  Reader = {c2}
  Times <- MCTimes
  Present <- MCPresent
  MaxTicks = 1
  MaxFaults = 1
  Alone = TRUE
SPECIFICATION Spec
INVARIANTS TypeOK ShownAsMeant SystemFollows ReadSound

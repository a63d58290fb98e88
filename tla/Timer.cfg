CONSTANTS
  Caller = {main}
  Task = {t1, t2}
  Fd = {4, 5, 6}
  MaxTask = 2
  MaxRejected = 1
  MonitorFirst = TRUE
SPECIFICATION FairSpec
INVARIANTS TypeOK PollsAll TableSound RightTask
PROPERTIES EventTaken

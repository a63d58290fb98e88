CONSTANTS
  Slots = 2
  CaId = {257, 258, 259}
  Program = {"p1", "p2", "p3"}
  ProgramZero = "p3"
  Systems <- MCSystems
  TooLong <- MCTooLong
  Plans <- MCPlans
  Announced <- MCAnnounced
  MaxCasysIds = 8
  Overlap = FALSE
  None = None
  BufferSizes <- MCBufferSizes
  Content <- MCContent
SPECIFICATION FairSpec
INVARIANTS UpToDate FramesRight TranslatedRight
PROPERTIES AnnouncementServed

SPECIFICATION FairSpec
CONSTANTS
  s1 = s1
  s2 = s2
  Slots = {s1}
  Loop = Loop
  None = None
  StuckAfter = 2
  ReadyFailingAfter = 2
PROPERTY DiskAlertIsSustained
PROPERTY EpisodeIsTold
CHECK_DEADLOCK FALSE

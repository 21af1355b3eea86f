SPECIFICATION Spec
CONSTANTS
  s1 = s1
  s2 = s2
  s3 = s3
  r1 = r1
  r2 = r2
  Loop = Loop
  None = None
  Slots = {s1, s2, s3}
  Requests = {}
  StopRequests = {}
  ForceRequests = {}
  LimitedRequests = {}
  PoolSize = 2
  maxConsecutiveShortExits = 2
  MaxTicks = 1
  MaxSessions = 1
  Faults = {"failure", "unauthorized", "shortExit", "lowDisk", "interrupt"}
SYMMETRY Symmetry
INVARIANT TypeOK
INVARIANT SlotsAccounted
INVARIANT ColdStartsStaggered
PROPERTY NoSpawnAfterShutdown
CHECK_DEADLOCK FALSE

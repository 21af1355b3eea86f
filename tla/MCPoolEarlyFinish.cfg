SPECIFICATION Spec
CONSTANTS
  s1 = s1
  s2 = s2
  s3 = s3
  r1 = r1
  r2 = r2
  Loop = Loop
  None = None
  Slots = {s1, s2}
  Requests = {r1, r2}
  StopRequests = {r2}
  ForceRequests = {}
  LimitedRequests = {r1}
  PoolSize = 1
  maxConsecutiveShortExits = 1
  MaxTicks = 1
  MaxSessions = 1
  Faults = {}
PROPERTY DrainFinishesEmpty

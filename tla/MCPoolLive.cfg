SPECIFICATION FairSpec
CONSTANTS
  s1 = s1
  s2 = s2
  s3 = s3
  r1 = r1
  r2 = r2
  Loop = Loop
  None = None
  Slots = {s1}
  Requests = {r1}
  StopRequests = {r1}
  ForceRequests = {}
  LimitedRequests = {}
  PoolSize = 1
  maxConsecutiveShortExits = 1
  MaxTicks = 1
  MaxSessions = 2
  Faults = {"crash", "interrupt", "unauthorized", "failure", "shortExit"}
PROPERTY DrainEnds
PROPERTY GateReopens
PROPERTY ShutdownEnds
CHECK_DEADLOCK FALSE

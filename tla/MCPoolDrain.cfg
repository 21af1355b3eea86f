SPECIFICATION Spec
CONSTANTS
  s1 = s1
  s2 = s2
  s3 = s3
  r1 = r1
  r2 = r2
  Loop = Loop
  None = None
  Slots = {s1, s2}
  Requests = {r1, r2}
  StopRequests = {r1}
  ForceRequests = {r2}
  LimitedRequests = {r1}
  PoolSize = 2
  maxConsecutiveShortExits = 1
  MaxTicks = 0
  MaxSessions = 1
  Faults = {}
SYMMETRY Symmetry
INVARIANT DrainStateMatchesPhase
INVARIANT DrainReachesEverySlot
INVARIANT HeldStatusSettles

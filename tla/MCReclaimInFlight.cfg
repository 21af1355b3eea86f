SPECIFICATION RecSpec
CONSTANTS
  v1 = v1
  VMs = {v1}
  teardownAttempts = 2
  deleteRunnerTries = 2
  MaxConcurrent = 2
  MaxOthers = 0
  MaxSessions = 1
  Tells = {}
  Marks = {}
  Faults = {}
  MaxFaults = 0
CHECK_DEADLOCK FALSE
INVARIANT ReclaimSparesInFlight

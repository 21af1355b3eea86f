SPECIFICATION RecFairSpec
CONSTANTS
  v1 = v1
  VMs = {v1}
  teardownAttempts = 2
  deleteRunnerTries = 2
  MaxConcurrent = 2
  MaxOthers = 1
  MaxSessions = 2
  Tells = {}
  Marks = {}
  Faults = {"crash", "reclaim", "rmLease"}
  MaxFaults = 1
CHECK_DEADLOCK FALSE
INVARIANT JobHasLease
INVARIANT PolicyRespected
INVARIANT CleanExitLeavesNothing
PROPERTY RunningRunnerSpared
PROPERTY OrphansGo

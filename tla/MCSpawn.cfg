SPECIFICATION FairSpec
CONSTANTS
  v1 = v1
  VMs = {v1}
  teardownAttempts = 3
  deleteRunnerTries = 2
  Tells = {"abandon", "force"}
  Marks = {"Listening", "Running"}
  Faults = {"disk", "clone", "lease", "start", "ready", "jit", "unauthorized", "exec", "vmStops", "teardown", "drift", "timeout"}
  MaxFaults = 1
CHECK_DEADLOCK FALSE
INVARIANT ReturnLeavesNothing
INVARIANT NoJobForDyingVM
PROPERTY ContractSpec
PROPERTY TellEnds
PROPERTY IdleReadyComes
PROPERTY RunReturns

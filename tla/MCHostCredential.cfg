SPECIFICATION FairSpec
CONSTANTS
  a1 = a1
  c1 = c1
  agent = agent
  cli = cli
  group1 = group1
  group2 = group2
  None = None
  Callers = {a1, c1}
  Processes = {agent, cli}
  ProcessOf <- TheProcesses
  Targets = {group1, group2}
  TargetsOf <- TheTargets
  Commands = {c1}
  ConfiguredTarget = group2
  Attempts = 2
  Faults = {"github", "lost", "delete", "store", "broker", "busy", "crash"}
  MaxFaults = 2
  MaxRequests = 2
  MaxKeys = 1
  MaxConfigures = 1
CHECK_DEADLOCK FALSE
INVARIANT RefreshTokenKept
INVARIANT TokenIsForTarget
 
PROPERTY RequestEnds

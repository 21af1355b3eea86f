SPECIFICATION FairSpec
CONSTANTS
  ref1 = ref1
  ref2 = ref2
  v1 = v1
  v2 = v2
  p1 = p1
  None = None
  Agent = Agent
  Reader = Reader
  Refs = {ref1, ref2}
  Versions = {v1, v2}
  Pulls = {p1}
  config <- TheConfigs
  MaxSessions = 2
  MaxBeside = 2
CHECK_DEADLOCK FALSE
INVARIANT ImageIsStable
INVARIANT PinnedStays
INVARIANT StatusIsTrue
PROPERTY WaitEnds

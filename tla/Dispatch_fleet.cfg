CONSTANTS
  e1 = e1  e2 = e2  p1 = p1  p2 = p2  w1 = w1
  Engines = {e1, e2}
  Workers = {p1, p2}
  EngineOf <- TwoEngines
  Workflows = {w1}
  Registry <- RegisterAll
  Limit = 1
  MaxAttempts = 2
  BaseDelay = 1
  DurationBits = 8
  Second = 2
  MaxDelay = 2
  ResumeTimes = {2}
  SuspendBound = 2
  MaxQueue = 1
  MaxFaults = 1
  Horizon = 3
SYMMETRY SameProcesses
SPECIFICATION HandlesSpec
INVARIANTS
  HandlesTypeOK
  CopiesCurrent
  ActiveCounts
PROPERTIES
  TerminalAnswerStands

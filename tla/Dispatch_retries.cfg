CONSTANTS
  e1 = e1  e2 = e2  p1 = p1  p2 = p2  w1 = w1  w2 = w2
  Engines = {e1, e2}
  Workers = {p1, p2}
  EngineOf <- TwoEngines
  Workflows = {w1}
  Registry <- RegisterAll
  Limit = 1
  MaxAttempts = 4
  BaseDelay = 1
  DurationBits = 8
  Second = 2
  MaxDelay = 3
  ResumeTimes = {}
  SuspendBound = 0
  MaxQueue = 1
  MaxFaults = 0
  Horizon = 8
SYMMETRY SameProcesses
SPECIFICATION Spec
INVARIANT AttemptsBounded
PROPERTIES
  BackoffOfRow
  CancelIsIrrevocable

CONSTANTS
  e1 = e1  e2 = e2  p1 = p1  p2 = p2  w1 = w1  w2 = w2
  Engines = {e1}
  Workers = {p1, p2}
  EngineOf <- OneEngine
  Workflows = {w1, w2}
  Registry <- RegisterSome
  Limit = 2
  MaxAttempts = 2
  BaseDelay = 1
  DurationBits = 8
  Second = 1
  MaxDelay = 1
  ResumeTimes = {2}
  SuspendBound = 2
  MaxQueue = 2
  MaxFaults = 1
  Horizon = 2
SPECIFICATION FairSpec
INVARIANTS
  TypeOK
  LeasesMatchWorkers
  WaitGroupCounts
PROPERTIES
  TerminalIsFinal
  Implements
  EventuallyTerminal
  StopReturns

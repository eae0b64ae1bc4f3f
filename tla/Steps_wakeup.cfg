CONSTANTS
  e1 = e1  p1 = p1  p2 = p2  w1 = w1  k1 = k1  k2 = k2
  Engines = {e1}
  Workers = {p1, p2}
  EngineOf <- OneEngine
  Workflows = {w1}
  Registry <- RegisterAll
  Program <- WaitOnly
  Values = {1, 2}
  Keys = {k1}
  StepFaults = {}
  FnBound = 0
  Limit = 1
  MaxAttempts = 2
  BaseDelay = 1
  DurationBits = 8
  Second = 1
  MaxDelay = 1
  ResumeTimes <- AnyTime
  SuspendBound = 0
  MaxQueue = 1
  MaxFaults = 0
  Horizon = 3
SPECIFICATION StepsSpec
INVARIANT EventPromotes

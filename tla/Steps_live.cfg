CONSTANTS
  e1 = e1  p1 = p1  p2 = p2  w1 = w1  k1 = k1  k2 = k2
  Engines = {e1}
  Workers = {p1}
  EngineOf <- SoloWorker
  Workflows = {w1}
  Registry <- RegisterAll
  Program <- Duplicate
  Values = {1}
  Keys = {k1}
  StepFaults = {"transient", "permanent", "store"}
  FnBound = 0
  Limit = 1
  MaxAttempts = 2
  BaseDelay = 1
  DurationBits = 8
  Second = 1
  MaxDelay = 1
  ResumeTimes <- AnyTime
  SuspendBound = 0
  MaxQueue = 1
  MaxFaults = 1
  Horizon = 2
SPECIFICATION StepsFairSpec
INVARIANT CancelledIfAsked
PROPERTY StepsEventuallyTerminal

SPECIFICATION Spec
CONSTANTS
  w1 = w1
  w2 = w2
  Workers <- MCWorkers
  Priorities <- AllPriorities
  Keyed <- Providers
  MaxSize = 2
  MaxRetries = 1
  FailureThreshold = 2
  ProbeThreshold = 2
  ResetTimeout = 1
PROPERTIES
  ShedsLeastUrgent

SPECIFICATION Spec
CONSTANTS
  w1 = w1
  w2 = w2
  Workers <- MCWorkers
  Priorities <- MCPriorities
  Keyed <- Providers
  MaxSize = 2
  MaxRetries = 1
  FailureThreshold = 2
  ProbeThreshold = 2
  ResetTimeout = 1
INVARIANTS
  TypeOK
  NoProbeLost
PROPERTIES
  GoodProviderCloses
  DeadProviderIsCutOff
  StopReturns

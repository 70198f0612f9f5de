SPECIFICATION Spec
CONSTANTS
  StreamCount = 4
  GoalCamera = 1
  InitialPriority <- MCPriority
  MaxActions = 2
  MaxInterval = 1
  MaxRounds = 2
  MaxSnapshots = 8
  LlmAnswers <- MCLlmAnswers
  Transport = "urllib"
  MaxGiveUps = 2
  MaxCrashes = 1
  MaxTicks = 1
INVARIANTS
  TypeOK
  ChangeIsBounded
  KeptIsMeasured
  GivenUpLeavesNoTrace
PROPERTIES
  RunEnds
CHECK_DEADLOCK FALSE

SPECIFICATION Spec
CONSTANTS
  MaxFailures = 2
  BackoffBase = 1
  BackoffMax = 2
  FirstFrameTimeout = 3
  WatchTimeout = 2
  VerifyTime = 2
  MinFps = 1
  MaxRate = 2
  FirstFrameDelay = 2
  MaxLag = 2
  MaxErrors = 1
INVARIANTS
  TypeOK
  WatchedChainIsLive
  WindowIsOfThisConnection
  AttemptsPaidFor
PROPERTIES
  DeadCameraIsGivenUp
  GoodCameraRuns

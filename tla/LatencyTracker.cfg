SPECIFICATION Spec
CONSTANTS
  Streams = {0, 1}
  PendingCap = 2
  RingCap = 2
  MaxAge = 1
  SeqRange = 16
  MaxClock = 2
  MaxFrames = 4
  MaxLost = 1
  MaxRestarts = 2
INVARIANTS
  TypeOK
  WindowIsExact
PROPERTIES
  SamplesAreTrue
  ImplementsPairs
CHECK_DEADLOCK FALSE

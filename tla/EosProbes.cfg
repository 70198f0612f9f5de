SPECIFICATION ProbesSpec
CONSTANTS
  StreamCount = 3
  Rtsp = {1, 2, 3}
  MaxRebuilds = 2
INVARIANT
  EveryPadIsProbed
PROPERTY
  OwnStreamIsFlushed
CHECK_DEADLOCK FALSE

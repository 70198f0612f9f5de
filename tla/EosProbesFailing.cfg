SPECIFICATION ProbesSpec
CONSTANTS
  StreamCount = 2
  Rtsp = {1, 2}
  MaxRebuilds = 2
INVARIANTS
  OnlyTheEndedAreFlushed
CHECK_DEADLOCK FALSE

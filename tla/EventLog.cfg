SPECIFICATION Spec
CONSTANTS
  Tracks = {t1, t2}
  Classes = {car, bike}
  Zones = {road}
  Watched = {car}
  Grace = 2
  Threshold = 2
  Hysteresis = 1
  Gaps = {1, 2}
CHECK_DEADLOCK FALSE
INVARIANTS
  TypeOK
  LogAgrees
PROPERTIES
  LeaversAreReported

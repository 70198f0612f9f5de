SPECIFICATION Spec
CONSTANTS
  Documents <- MCDocuments
  Slices = 2
  MaxRequests = 2
  MaxHops = 2
  MaxStalls = 1
INVARIANTS
  UsedThingsExist
PROPERTY
  SignalEndsRun
CHECK_DEADLOCK FALSE

SPECIFICATION AuditSpec
CONSTANTS
  StreamCount = 2
  Rtsp = {2}
  InitialPriority <- MCPriority
  Requests <- MCRequests
  MaxSnapshots = 1
INVARIANTS
  TypeOK
  CacheFollowsTable
  Acknowledged
PROPERTIES
  WritesRespectCritical
  FailedWriteLeavesNoTrace
  RollbackIsVerified

CONSTANTS
  t1 = t1
  e1 = e1
  e2 = e2
  Tasks = {t1}
  Kind <- AgentKind
  LocalTasks = {}
  Timeout <- AgentTimeout
  Executors = {e1}
  MaxConcurrent = 1
  LocalSandboxMax = 1
  TTL = 2
  MaxLag = 0
  MaxDelay = 0
  MaxTime = 2
  MaxRevision = 4
SPECIFICATION PoolSpec
CHECK_DEADLOCK FALSE
PROPERTIES
  ClaimReturnsLease

CONSTANTS
  t1 = t1
  e1 = e1
  e2 = e2
  Tasks = {t1}
  Kind <- AgentKind
  LocalTasks = {}
  Timeout <- AgentTimeout
  Executors = {e1, e2}
  MaxConcurrent = 2
  LocalSandboxMax = 1
  TTL = 2
  MaxLag = 1
  MaxDelay = 0
  MaxTime = 2
  MaxRevision = 4
SPECIFICATION PoolLiveSpec
CHECK_DEADLOCK FALSE
INVARIANTS
  PoolInv
  ZombieSilenced
PROPERTIES
  OrphansReclaimed

CONSTANTS
  t1 = t1
  t2 = t2
  e1 = e1
  e2 = e2
  Tasks = {t1}
  Kind <- OneKind
  LocalTasks = {}
  Timeout <- OneTimeout
  Executors = {e1}
  MaxConcurrent = 1
  LocalSandboxMax = 1
  TTL = 1
  MaxLag = 0
  MaxDelay = 0
  MaxTime = 1
  MaxRevision = 20
  MaxRound = 1
  MaxCalls = 1
SPECIFICATION LoopSpec
CHECK_DEADLOCK FALSE
INVARIANTS
  RecoveredLoopGoesOn

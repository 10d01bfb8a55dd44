CONSTANTS
  t1 = t1
  t2 = t2
  x1 = x1
  Tasks = {t1, t2}
  Kind <- PairKind
  LocalTasks = {}
  Timeout <- PairTimeout
  MaxConcurrent = 1
  LocalSandboxMax = 1
  TTL = 2
  MaxLag = 1
  MaxDelay = 0
  MaxTime = 1
  MaxRevision = 2
  Targets = {x1}
  Target <- PairTarget
  ConfirmTTL = 1
  MaxBinding = 1
SPECIFICATION ConfFairSpec
CHECK_DEADLOCK FALSE
INVARIANTS
  ConfInv
  OneLivePerTarget
  SettledTogether
PROPERTIES
  ConsentRunsOut

CONSTANTS
  t1 = t1
  t2 = t2
  x1 = x1
  e1 = e1
  e2 = e2
  Tasks = {t1, t2}
  Kind <- PairKind
  LocalTasks = {}
  Timeout <- PairTimeout
  MaxConcurrent = 2
  LocalSandboxMax = 1
  TTL = 1
  MaxLag = 0
  MaxDelay = 0
  MaxTime = 3
  MaxRevision = 9
  Targets = {x1}
  Target <- PairTarget
  ConfirmTTL = 2
  MaxBinding = 0
  Executors = {e1, e2}
  MaxToggles = 1
SPECIFICATION CastSpec
CHECK_DEADLOCK FALSE
INVARIANTS
  ExtInv
  ProposalsDoNotInterfere
  ReclaimedKeepsFence
SYMMETRY ExecutorSymmetry

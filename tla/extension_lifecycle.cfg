CONSTANTS
  t1 = t1
  t2 = t2
  t3 = t3
  a1 = a1
  a2 = a2
  x1 = x1
  x2 = x2
  e1 = e1
  e2 = e2
  Tasks = {t1, t2, t3, a1, a2}
  Kind <- CastKind
  LocalTasks = {}
  Timeout <- CastTimeout
  MaxConcurrent = 4
  LocalSandboxMax = 1
  TTL = 1
  MaxLag = 0
  MaxDelay = 0
  MaxTime = 2
  MaxRevision = 9
  Targets = {x1, x2}
  Target <- CastTarget
  ConfirmTTL = 2
  MaxBinding = 0
  Executors = {e1, e2}
  Operation <- CastOperation
  Seeded = {x1}
  Digest <- OwnDigest
  MaxInstallations = 1
SPECIFICATION CastSpec
CHECK_DEADLOCK FALSE
INVARIANTS
  LcInv
  InstalledIsPublished
  PinnedStaysPublished
SYMMETRY ExecutorSymmetry

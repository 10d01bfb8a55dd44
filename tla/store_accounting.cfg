CONSTANTS
  t1 = t1
  t2 = t2
  t3 = t3
  t4 = t4
  Tasks = {t1, t2, t3, t4}
  Kind <- CastKind
  LocalTasks = {}
  Timeout <- CastTimeout
  MaxConcurrent = 1
  LocalSandboxMax = 1
  TTL = 2
  MaxLag = 1
  MaxDelay = 0
  MaxTime = 2
  MaxRevision = 3
SPECIFICATION CastSpec
CHECK_DEADLOCK FALSE
INVARIANTS
  StoreTypeOK
  SlotsExact
  RowsExact
PROPERTIES
  TerminalFrozen
  RevisionPins
  ImplementsLifecycle

SPECIFICATION ResourcesSpec
CONSTANTS
  SWExecs = {1, 2, 3}
  SWTarget <- MCTarget
  SWMaxWorkers = 1
  SWSettings <- MCSettings
  CWRuns = {1, 2}
  CWReuse = {2}
  CWHandlers = {h1, h2}
  CWClaims = 2
  CWReports = 1
  KISources = {1, 2}
  KIJobs = {1, 2}
  KIProfiles = {1, 2}
  KIClaims = 2
  KISettings <- MCIndexing
  KCUploads = {1, 2}
  KCData = {0, 1}
  KCDeclared <- MCDeclared
  KCMaxActive = 1
  KCSettings <- MCContent
  MObs = {1, 2}
  MPreds = {1, 2}
  MValues = {1, 2}
  MWorkers = {h1, h2}
  MAttempts = 2
  MSettings <- MCMemory
  CTCreds = {1, 2}
  CTKeys = {1, 2}
  CTCallers = {h1, h2}
  CTIdentities = {ci, cj}
  CTRevisions = 2
  CTBinding <- MCBinding
  CTSettings <- MCCredentials
SYMMETRY Sym
CHECK_DEADLOCK FALSE
INVARIANTS
  SSHInv
  CloudWorkerInv
  IndexInv
  ReadyIsSearchable
  ContentInv
  MemoryInv
  CredentialInv
PROPERTIES
  DestroyIsFinal
  ResultGivenOnce

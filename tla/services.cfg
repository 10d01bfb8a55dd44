SPECIFICATION ServicesSpec
CONSTANTS
  Supervisors = {x, y}
  Nobody = Nobody
  Settings <- MCSettings
  WOps = {1, 2}
  WNone = WNone
  WExecutors = {x, y}
  WKind <- MCKind
  WMaxClaims <- MCClaims
  Schedules = {1, 2}
  SProfiles = {1, 2}
  STriggers <- MCTriggers
  SKeys = {1}
  SFirst = 5
  SLast = 7
  SEdits = 3
  SRetries = 2
  DayFields <- MCDayFields
  WeekdayFields <- MCWeekdayFields
  Ordinary = {a}
  Account = Account
  MaxExecutions = 3
  Disturbances <- MCDisturbances
SYMMETRY Sym
CHECK_DEADLOCK FALSE
INVARIANTS
  TurnInv
  TurnEffectsOnce
  GuidanceHeard
  WorkloadInv
  ScheduleInv
  CronCalculatorsAgree
  CapInv
PROPERTIES
  FiringCatchesUp

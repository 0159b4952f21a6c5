CONSTANTS
  u1 = u1
  Me = Me
  Rival = Rival
  math = math
  c1 = c1
  NoOwner = NoOwner
  NoUnit = NoUnit
  Units <- MCUnits
  Owners <- MCOwners
  Subjects <- MCSubjects
  SubjectOf <- MCSubjectOf
  Captures <- MCCaptures
  CapturesOf <- MCCapturesOf
  Allowlists = {}
  TasksOf <- MCTasksOf
  Outcomes <- MCOutcomes
  TTL = 1
  LockDelay = 0
  MaxTime = 1
  MaxFence = 3
  Opaque = FALSE
  IOErrors = FALSE
SPECIFICATION LiveDispatcherSpec
INVARIANTS
  DispatcherTypeOK
  ResultMatchesCompletion
  ClaimIsTended
PROPERTIES
  DrainedIsQuiet
  AnalysisRunsOnce
  DrainTerminates
CHECK_DEADLOCK FALSE

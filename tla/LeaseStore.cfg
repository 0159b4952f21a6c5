CONSTANTS
  u1 = u1
  o1 = o1
  o2 = o2
  math = math
  c1 = c1
  a1 = a1
  NoOwner = NoOwner
  NoUnit = NoUnit
  Units <- MCUnits
  Owners <- MCOwners
  Subjects <- MCSubjects
  SubjectOf <- MCSubjectOf
  Captures <- MCCaptures
  CapturesOf <- MCCapturesOf
  Allowlists <- MCAllowlists
  TasksOf <- MCTasksOf
  Outcomes <- MCOutcomes
  TTL = 2
  LockDelay = 1
  MaxTime = 2
  MaxFence = 3
SPECIFICATION Spec
SYMMETRY Symmetry
INVARIANTS
  RecoveredAtMostOnce
PROPERTIES
  TakeoverOnlyAfterSilence
  RecordsNeverRegress
  DrainIsKept
  ImplementsLedger
CHECK_DEADLOCK FALSE

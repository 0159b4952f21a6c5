CONSTANTS
  Subjects = {"math"}
  Units = {1, 2, 3}
  SubjectOf <- OneSubject
  Limit = 2
  Activations = 1
  Faults = 1
SPECIFICATION FairCanarySpec
INVARIANTS
  CanaryTypeOK
  SlotsAreOwned
PROPERTIES
  FailureNeedsOperator
  GateStaysReadable
  LateResultReleasesSlot
  ImplementsFirstTaskGate
CHECK_DEADLOCK FALSE

CONSTANTS
  s1 = s1
  s2 = s2
  None = None
  Dashboard = Dashboard
  Releases = {A, B}
  Order <- TwoSubjects
  Activations = 2
  Faults = 2
SYMMETRY ReleaseSymmetry
SPECIFICATION SwitchSpec
INVARIANTS
  SwitchTypeOK
  OneReleaseServes
  ReceiptIsTrue
PROPERTIES
  OpenFreezesInstallation
  TaskKeepsItsGate
CHECK_DEADLOCK FALSE

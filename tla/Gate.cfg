SPECIFICATION Spec
CONSTANTS
  p1 = p1
  p2 = p2
  Procs <- MCProcs
  Councils <- MCCouncils
  MaxRounds = 1
  Setups <- MCSetups
INVARIANTS TypeOK OneGatePerEscalation  RecordReadable OneOpenGate
PROPERTIES NoUngatedAdvance DispositionIsFinal
CHECK_DEADLOCK FALSE

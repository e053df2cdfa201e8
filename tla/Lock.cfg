SPECIFICATION Spec
CONSTANTS
  p1 = p1
  p2 = p2
  p3 = p3
  Procs <- MCTwo
  MaxLife = 2
  MaxOps = 2
  FaultSets <- MCFailing
SYMMETRY MCSymmetry
INVARIANTS TypeOK MutualExclusion RecoveredIsOver
PROPERTIES NoLiveTokenSwept NeverPreempted EvidenceFirst
CHECK_DEADLOCK FALSE

SPECIFICATION Spec
CONSTANTS
  p1 = p1
  p2 = p2
  p3 = p3
  Procs <- MCThree
  MaxLife = 2
  MaxOps = 2
  FaultSets <- MCOverride
SYMMETRY MCSymmetry
PROPERTY OverrideSparesLive
CHECK_DEADLOCK FALSE

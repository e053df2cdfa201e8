SPECIFICATION Spec
CONSTANTS
  p1 = p1
  p2 = p2
  Procs <- MCProcs
  Councils <- MCCouncils
  MaxRounds = 1
  Setups <- MCRacing
PROPERTIES NeverUngated
CHECK_DEADLOCK FALSE

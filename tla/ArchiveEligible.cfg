SPECIFICATION Spec
CONSTANTS
  p1 = p1
  p2 = p2
  thread = thread
  stray = stray
  Procs <- MCProcs
  Files = {1, 2}
  Records <- MCRecords
  Of <- MCOf
  Inventory = {thread}
  MaxVersion = 2
  MaxOps = 2
  Setups <- MCSerial
SYMMETRY MCSymmetry
PROPERTY MovesOnlyEligible
CHECK_DEADLOCK FALSE

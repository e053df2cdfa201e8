SPECIFICATION Spec
CONSTANTS
  p1 = p1
  p2 = p2
  thread = thread
  stray = stray
  Procs <- MCProcs
  Files = {1, 2}
  Records <- MCRecords
  Of <- MCOf
  Inventory = {thread}
  MaxVersion = 2
  MaxOps = 2
  Setups <- MCSetups
SYMMETRY MCSymmetry
INVARIANTS TypeOK OnlyApprovedMoves EveryIdResolves CompletedIsMoved RebuildRestores
PROPERTIES ZeroLoss MovesUnderFlagEligible ResumedOrHalted
CHECK_DEADLOCK FALSE

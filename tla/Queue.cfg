SPECIFICATION Spec
CONSTANTS
  operator = operator
  arbiter = arbiter
  w1 = w1
  w2 = w2
  Agents <- MCAgents
  Setups <- MCSetups
INVARIANTS TypeOK NoLoss SingleClaimWhileOpen ClearedBeforeActed OneCopyAtRest DeniedNotActed
PROPERTY ClosedIsFinal
CHECK_DEADLOCK FALSE

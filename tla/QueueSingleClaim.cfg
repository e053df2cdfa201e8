SPECIFICATION Spec
CONSTANTS
  operator = operator
  arbiter = arbiter
  w1 = w1
  w2 = w2
  Agents <- MCAgents
  Setups <- MCClean
INVARIANT SingleClaim
CHECK_DEADLOCK FALSE

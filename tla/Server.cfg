SPECIFICATION Spec
CONSTANTS
  h1 = h1
  h2 = h2
  p1 = p1
  p2 = p2
  p3 = p3
  k = k
  none = none
  a = a
  b = b
  i = i
  Handlers <- MCHandlers
  Procs <- MCProcs
  Pid <- MCPid
  Keys = {k}
  NoKey = none
  Texts = {a, b}
  Ids = {i}
  MaxSuffix = 1
  Setups <- MCSetups
CHECK_DEADLOCK FALSE
INVARIANTS TypeOK ServedByInstance
PROPERTIES IsABoard StoppedWasAsked 

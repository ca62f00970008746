CONSTANTS
  p1 = p1
  p2 = p2
  c1 = c1
  c2 = c2
  n0 = n0
  n1 = n1
  n2 = n2
  d1 = d1
  d2 = d2
  NULL = NULL
  Dummy = n0
  Pushers <- MCPushers
  Poppers <- MCPoppers
  Nodes <- MCNodes
  Data <- MCData
SPECIFICATION LifeSpec
CHECK_DEADLOCK FALSE
INVARIANTS
  TypeOK
  LinkedOnce
  ChainHolds
  DestroysRest
PROPERTIES
  NextWrittenOnce
  ImplementsFifo
  PushReturns
  PopReturns

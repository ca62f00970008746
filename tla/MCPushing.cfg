CONSTANTS
  a = a
  b = b
  t1 = t1
  t2 = t2
  t3 = t3
  g1 = g1
  g2 = g2
  x = x
  y = y
  EMPTY = EMPTY
  NULL = NULL
  STEP = 2
  UINT_MAX = 9
  Apps <- MCApps
  Owners <- MCOneOwner
  Tasks <- MCTasks
  Groups <- MCGroups
  Names <- MCNames
  Levels <- MCLevels
SPECIFICATION FairSpec
CHECK_DEADLOCK FALSE
INVARIANTS
  TypeOK
  InBounds
  CountsAgree
PROPERTIES
  ImplementsBuckets
  PushReturns

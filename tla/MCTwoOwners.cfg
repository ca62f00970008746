CONSTANTS
  a = a
  b = b
  t1 = t1
  t2 = t2
  t3 = t3
  g1 = g1
  g2 = g2
  x = x
  y = y
  EMPTY = EMPTY
  NULL = NULL
  STEP = 2
  UINT_MAX = 9
  Apps <- MCApps
  Owners <- MCApps
  Tasks <- MCTwoTasks
  Groups <- MCGroups
  Names <- MCOneName
  Levels <- MCOneLevel
SPECIFICATION Spec
CHECK_DEADLOCK FALSE
INVARIANTS
  OneGroupPerName

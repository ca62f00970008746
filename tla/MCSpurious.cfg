CONSTANTS
  g1 = g1
  g2 = g2
  FREE = FREE
  MAIN = MAIN
  NULL = NULL
  NumWorkers = 2
  MaxTasks = 2
  Groups <- MCOneGroup
  SIGNIFICANT = 2
  SigChoices <- MCMiddle
  VersionChoices <- MCComplete
  PRECISION = 3
  LargestExponent = 24
  RatioUnit = 2
  Ratios <- MCHalf
  UINT_MAX = 7
  ReuseGroups = FALSE
  SpuriousWakeups = TRUE
SPECIFICATION Spec
CHECK_DEADLOCK FALSE
INVARIANTS
  Rendezvous

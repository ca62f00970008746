CONSTANTS
  g1 = g1
  g2 = g2
  FREE = FREE
  MAIN = MAIN
  NULL = NULL
  NumWorkers = 1
  MaxTasks = 4
  Groups <- MCOneGroup
  SIGNIFICANT = 3
  SigChoices <- MCAnyLevel
  VersionChoices <- MCComplete
  PRECISION = 3
  LargestExponent = 24
  RatioUnit = 16
  Ratios <- MCRatios
  UINT_MAX = 7
  ReuseGroups = FALSE
  SpuriousWakeups = FALSE
SPECIFICATION Spec
CHECK_DEADLOCK FALSE
INVARIANTS
  Quota
  Priority
  MostSignificantFirst

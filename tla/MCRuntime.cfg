CONSTANTS
  g1 = g1
  g2 = g2
  FREE = FREE
  MAIN = MAIN
  NULL = NULL
  NumWorkers = 2
  MaxTasks = 3
  Groups <- MCOneGroup
  SIGNIFICANT = 2
  SigChoices <- MCUnset
  VersionChoices <- MCMayDrop
  PRECISION = 3
  LargestExponent = 24
  RatioUnit = 2
  Ratios <- MCHalf
  UINT_MAX = 7
  ReuseGroups = FALSE
  SpuriousWakeups = FALSE
SPECIFICATION FairSpec
CHECK_DEADLOCK FALSE
INVARIANTS
  TypeOK
  CountExact
  Rendezvous
  RunsAsDecided
  Served
  Balanced
  Statistics
  NothingAbandoned
PROPERTIES
  ImplementsForkJoin
  WaitReturnsWithTasks
  WorkersStop

CONSTANTS
  n1 = n1
  n2 = n2
  n3 = n3
  e1 = e1
  e2 = e2
  NULL = NULL
  Nodes <- MCNodes
  Elements <- MCElements
SPECIFICATION FairSpec
CHECK_DEADLOCK FALSE
INVARIANTS
  TypeOK
  ListHolds
  Accounted
  IInv
PROPERTIES
  ImplementsList
  CallReturns

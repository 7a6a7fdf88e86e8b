SPECIFICATION Spec
CONSTANTS
  n1 = n1
  n2 = n2
  p1 = p1
  p2 = p2
  p3 = p3
  Nodes = {n1, n2}
  Procs = {p1, p2, p3}
  NodeOf <- Placement
  LogicalSize = 2
  MaxPhysical = 2
  Foreign <- OddTimestamps
  MaxCalls = 4
CHECK_DEADLOCK FALSE
INVARIANTS StampsOrdered NoRunaway
PROPERTIES CallReturns

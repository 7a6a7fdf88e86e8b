SPECIFICATION Spec
CONSTANTS
  None = None
  f1 = f1
  f2 = f2
  f3 = f3
  g1 = g1
  g2 = g2
  Flows = {f1, f2, f3}
  GroupIds = {g1}
  Spawners = {f1, f2}
  Policies <- AllOrAny
  Idempotent = TRUE
  Expiring = {f1, f2, f3}
INVARIANTS CloseReachesAll WaitingForSomething
 

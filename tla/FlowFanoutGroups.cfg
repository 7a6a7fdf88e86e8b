SPECIFICATION Spec
CONSTANTS
  None = None
  f1 = f1
  f2 = f2
  f3 = f3
  g1 = g1
  g2 = g2
  Flows = {f1, f2, f3}
  GroupIds = {g1, g2}
  Spawners = {f1}
  Policies <- AllOrAny
  Idempotent = FALSE
  Expiring = {f2, f3}
PROPERTIES JoinCompletes
INVARIANTS GroupsTruthful

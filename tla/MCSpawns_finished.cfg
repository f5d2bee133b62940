SPECIFICATION Spec
CONSTANTS
  Roots = {r}
  Children = {c1, c2}
  Harness = {c1}
  Calls = {k1, k2}
  None = None
  MaxChildren = 1
  MaxActive = 1
  MaxEvents = 1
PROPERTY TruthTold
CHECK_DEADLOCK FALSE

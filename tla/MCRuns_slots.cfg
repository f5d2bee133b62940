SPECIFICATION FairSpec
CONSTANTS
  g = g
  h = h
  Agents = {g, h}
  Runs = {r1, r2}
  Surfaces = {"manual", "mesh", "automation"}
  Cap <- MCCap
  AppCap = 2
  LongTurns = TRUE
  MaxRestarts = 1
INVARIANTS NoSlotLeak  HoldersBounded
PROPERTY SlotsReturn
CHECK_DEADLOCK FALSE

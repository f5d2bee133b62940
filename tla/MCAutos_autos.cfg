SPECIFICATION FairSpec
CONSTANTS
  Procs = {app, task}
  App = app
  Autos = {a}
  BotJobs = {a}
  Attempts = {r1, r2}
  None = None
  MaxSlots = 1
  MaxEvents = 2
INVARIANTS ExclusiveRuns GuardsHaveRun LocksHaveRun
CHECK_DEADLOCK FALSE
PROPERTY DueServed

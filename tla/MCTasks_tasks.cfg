SPECIFICATION FairSpec
CONSTANTS
  f = f
  Tasks = {t1, t2}
  Dests = {f}
  Dest <- MCDest
  Timed = {t1}
  Retries = 1
  Versions = {0, 1}
  Size <- MCSize
  MaxPanics = 1
  MaxHours = 1
INVARIANTS CancelReaches NoPhantom FileIsWhole
PROPERTY CancelEnds
CHECK_DEADLOCK FALSE

SPECIFICATION FairSpec
CONSTANTS
  Turns = {t1, t2}
  Cancels = {c}
  None = None
INVARIANTS LiveIsRegistered CardAnswerable ChildReachable
PROPERTY AbortEnds
CHECK_DEADLOCK FALSE

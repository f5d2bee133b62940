SPECIFICATION FairSpec
CONSTANTS
  MaxTurns = 2
  MaxFaults = 1
INVARIANTS BusyIsAttended NoOrphanProcess CancelDiscards
PROPERTIES FollowsConversation KillsOwnOnly TurnEnds
CHECK_DEADLOCK FALSE

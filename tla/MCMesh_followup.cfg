SPECIFICATION FairSpec
CONSTANTS
  a = a
  b = b
  Sessions = {a, b}
  Builtin = {a}
  Calls <- MCOneQuestion
  Outputs = {"none", "ack", "content"}
  SpawnDepth <- MCRoots
  MaxMail = 2
  MaxMailPerHour = 1
  MaxQueueDepth = 5
  MaxFollowupDepth = 3
  MaxUserTurns = 2
  MaxReplies = 4
  MaxRestarts = 1
INVARIANTS NoPingPong FollowUpsCounted
PROPERTIES FollowsExchange FollowsLifecycle QuestionSettles PumpDrains
CHECK_DEADLOCK FALSE

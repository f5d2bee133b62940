SPECIFICATION Spec
CONSTANTS
  a = a
  b = b
  Sessions = {a, b}
  Builtin = {}
  Calls <- MCOneAsker
  Outputs = {"none", "content"}
  SpawnDepth <- MCRoots
  MaxMail = 2
  MaxMailPerHour = 10
  MaxQueueDepth = 5
  MaxFollowupDepth = 3
  MaxUserTurns = 1
  MaxReplies = 4
  MaxRestarts = 0
INVARIANT QueuedHasPump
CHECK_DEADLOCK FALSE

SPECIFICATION Spec
CONSTANTS
  a = a
  b = b
  Sessions = {a, b}
  Builtin = {}
  Calls <- MCOneAsker
  Outputs = {"none", "content"}
  SpawnDepth <- MCRoots
  MaxMail = 2
  MaxMailPerHour = 10
  MaxQueueDepth = 2
  MaxFollowupDepth = 3
  MaxUserTurns = 1
  MaxReplies = 1
  MaxRestarts = 0
INVARIANTS AskerWatched AtMostTwoTurns ReplyIsStored DeliveredIsAttended
CHECK_DEADLOCK FALSE

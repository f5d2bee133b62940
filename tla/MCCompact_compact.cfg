SPECIFICATION FairSpec
CONSTANTS
  Claimers = {idle, manual}
  Senders = {send}
  PinMsgs = 1
  MaxRows = 5
  MaxOps = 1
INVARIANTS NoGhost FoldedIsSummarised NothingLost
PROPERTY ClaimReturns
CHECK_DEADLOCK FALSE

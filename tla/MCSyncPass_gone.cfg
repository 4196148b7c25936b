SPECIFICATION SyncFairSpec
CONSTANTS
  Mails = {1, 2, 3}
  AtFirst = {1, 2}
  LastListed = 2
  FirstCustom = 2
  Page = 1
  Cap = 2
  Checks = 1
  MaxMoves = 2
  MaxListErrors = 1
PROPERTY PrunedIsGone
CHECK_DEADLOCK FALSE

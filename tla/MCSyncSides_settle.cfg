CONSTANTS
  Msgs = {m1, m2}
  Stored = {m1}
  Sessions = {s1}
  Inbox = inbox
  Trash = trash
  None = None
  MaxOps = 1
  Mails = {1, 2, 3, 4}
  AtFirst = {1, 2, 3}
  LastListed = 2
  FirstCustom = 2
  Page = 1
  Cap = 2
  Checks = 1
  MaxMoves = 2
  MaxListErrors = 1
SPECIFICATION SidesSpec
PROPERTIES ViewsSettle PrunesOnlySlipped CacheFollows

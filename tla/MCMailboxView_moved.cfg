CONSTANTS
  Msgs = {m1, m2}
  Stored = {m1, m2}
  Sessions = {s1}
  Inbox = inbox
  Trash = trash
  None = None
  MaxOps = 1
SPECIFICATION FairSpec
PROPERTY MovesReachIdle

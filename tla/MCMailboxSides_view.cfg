CONSTANTS
  Msgs = {m1, m2}
  Stored = {m1}
  Sessions = {s1, s2}
  Inbox = inbox
  Trash = trash
  None = None
  MaxOps = 2
SPECIFICATION SidesSpec
INVARIANTS TypeOK SeqNamesMessage NumberingSound
PROPERTY TouchesOnlyTargets
SYMMETRY Symmetric

SPECIFICATION FlagSpec
CONSTANTS
  Flags = {1}
  Conns = {c1}
  JmapClients = {}
  Slots = {1}
  Poller = Poller
  PushRetries = 1
  MaxFlagAttempts = 2
  MaxStores = 1
  MaxWeb = 0
  MaxDrops = 0
  MaxFlagStops = 0
INVARIANTS ChangeKept

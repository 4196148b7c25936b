SPECIFICATION SidesSpec
CONSTANTS
  Flags = {1}
  Conns = {c1}
  JmapClients = {j1}
  Slots = {1}
  Poller = Poller
  PushRetries = 0
  MaxFlagAttempts = 2
  MaxStores = 2
  MaxWeb = 1
  MaxDrops = 1
  MaxFlagStops = 0
  OldMails = {1, 2, 3}
  FirstMails = {1, 2}
  SealedMails = {1}
  LastListing = 2
  FirstOffset = 2
  PageItems = 1
  Newest2000 = 1
  RetryAttempts = 2
  MaxChanges = 2
  MaxHistoryFaults = 1
INVARIANT KnownUnlessStrayed
PROPERTIES PendingSettles FlagsConverge OldMailArrives DeletedLeaves

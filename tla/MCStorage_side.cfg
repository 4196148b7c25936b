SPECIFICATION StorageSpec
CONSTANTS
  Ids = {e1, e2}
  Writers = {w1, w2}
  LogRows = 2
  PageRows = 1
  MaxRows = 4
  MaxWrites = 3
  MaxLogDrops = 1
  MaxRepairs = 1
  Rows = {r1, r2}
  NewRows = {n1, n2}
  MaxCrashes = 2
  MaxFailures = 2
  Accounts = {a, b}
  Nobody = nobody
  OwnerFaults = 3
  PushWriters = {p1, p2}
  Listeners = {l1}
  ChannelRoom = 2
  MaxRecords = 4
  Flags = {1, 4}
  SetAtFirst = {1}
  Conns = {c1}
  JmapClients = {}
  Slots = {1}
  Poller = Poller
  PushRetries = 1
  MaxFlagAttempts = 1
  MaxStores = 1
  MaxWeb = 1
  MaxDrops = 0
  MaxFlagStops = 1
INVARIANTS LogTypeOK MissesOnlyByNamedGaps NoRowLost NothingInTheClear OnlyOwnMail OwnerKnown ClientsHear FlagTypeOK PushesWhatWasAsked
SYMMETRY Symmetric

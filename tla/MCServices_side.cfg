SPECIFICATION ServicesSpec
CONSTANTS
  Workers = {w1}
  Listeners = {l1}
  Requests = {r1}
  Jobs = {j1}
  Stoppers = {s1, s2}
  Signals = {g1}
  Observers = {o1}
  Profile = "cli"
  RevokedAfter = 3
  Imports = {i1, i2}
  ImportJobs = {k1, k2}
  NoJob = nojob
  ImportFaults = 2
  Messages = {a}
  WithMessageId = {}
  Worker = Worker
  NoRow = NoRow
  MaxAttempts = 2
  HasKeys = TRUE
  SavesToSent = TRUE
  MaxSubmits = 1
  MaxStops = 2
  MaxRetries = 1
  MaxDbErrors = 1
INVARIANTS DrainTypeOK QuietOnceDrained NewestHeld StoredIsWhole
PROPERTIES RowsSettle StopCompletes SessionRecovers JobIsClosed
CHECK_DEADLOCK FALSE

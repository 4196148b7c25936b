SPECIFICATION Spec
CONSTANTS
  Messages = {a}
  WithMessageId = {a}
  Worker = Worker
  NoRow = NoRow
  MaxAttempts = 2
  HasKeys = TRUE
  SavesToSent = TRUE
  MaxSubmits = 1
  MaxStops = 1
  MaxRetries = 0
  MaxDbErrors = 0
INVARIANTS SentMeansSent

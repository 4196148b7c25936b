SPECIFICATION SidesSpec
CONSTANTS
  Messages = {a}
  WithMessageId = {a}
  Worker = Worker
  NoRow = NoRow
  MaxAttempts = 2
  HasKeys = TRUE
  SavesToSent = TRUE
  MaxSubmits = 2
  MaxStops = 1
  MaxRetries = 1
  MaxDbErrors = 1
  Apps = {a1, a2}
  NoApp = NoApp
  MaxContacts = 2
  MaxVersions = 2
  DavFaults = 1
  PopMails = {1, 2}
  PopClients = {p1, p2}
  NoClient = NoClient
  PopFaults = 1
INVARIANTS TypeOK AtMostOnce AcceptedNotLost SentMeansDelivered NoStrandedRow OneContactPerName QuitDoesAsTold
PROPERTIES FailedStaysPut PromiseKept RespectsETags
SYMMETRY Symmetric

SPECIFICATION FairProgressSpec
CONSTANTS
  Files = {f1}
  Clients = {a1}
  Tasks = {t1, t2}
  NoFile = NoFile
  MaxDocs = 1
  MaxRetries = 1
  MaxCrashes = 1
  RetryReraises = FALSE
  RefIndexed = TRUE
  MaxCorrections = 3
  MaxHops = 1
  RecursionLimit = 25
  FailOpen = FALSE
  Items = {1}
  Syncs = {s1, s2}
  MaxText = 2
  MaxSources = 1
  MaxTries = 1
  MaxFeedItems = 1
  Hits = {h1, h2, h3}
  Limit = 1
  Window = 2
  MaxClock = 5
CHECK_DEADLOCK FALSE
INVARIANTS
  WaitingHasMessage
  ResyncAddsNothing
  WindowHolds
  RejectedIsNotDelivered
PROPERTIES
  MessagesEnd
  TurnEnds

SPECIFICATION DocumentsSpec
CONSTANTS
  Files = {d1}
  Clients = {r1}
  Tasks = {t1}
  NoFile = NoFile
  MaxDocs = 1
  MaxRetries = 1
  MaxCrashes = 0
  RetryReraises = TRUE
  RefIndexed = TRUE
CHECK_DEADLOCK FALSE
INVARIANTS
  ExhaustedIsFailed

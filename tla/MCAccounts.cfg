SPECIFICATION AccountsSpec
CONSTANTS
  Calls = {c1, c2}
  Daily = 1
  Monthly = 2
  Firsts = {0, 3}
  MaxDate = 3
  MaxAdmin = 1
  People = {o, u1, u2}
  Owner = o
  Invites = {i1}
  Actions = {r1, r2}
  NoOne = NoOne
  MaxCount = 3
  Files = {f1}
  Clients = {a1, a2}
  Tasks = {t1, t2}
  NoFile = NoFile
  MaxDocs = 1
  MaxRetries = 1
  MaxCrashes = 0
  RetryReraises = TRUE
  RefIndexed = FALSE
  Papers = {d3, d4}
  Asks = {q3, q4}
  QueryTTL = 2
  Patience = 1
  MaxDeleted = 1
  Tabs = {l1, l2}
  MaxPairs = 2
  SameOrigin = TRUE
SYMMETRY Symmetric
CHECK_DEADLOCK FALSE
INVARIANTS
  CapsHeld
  OwnerKeepsSeat
  NoIncrementLost
  ReadyIsSearchable
  DeletedStaysGone
  DeletedFadesOut
  OutageKeepsTokens
  NoRedirectLoop
PROPERTIES
  RefusalsAreEarned

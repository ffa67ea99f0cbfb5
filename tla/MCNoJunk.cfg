SPECIFICATION SyncSpec
CONSTANTS
  Items = {1}
  Syncs = {s1}
  MaxText = 1
  MaxSources = 1
  MaxTries = 0
  MaxFeedItems = 1
CHECK_DEADLOCK FALSE
INVARIANTS
  NoJunkMemories

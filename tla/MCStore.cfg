SPECIFICATION StoreSpec
CONSTANTS
  Users = {u1, u2}
  Reqs = {r1, r2}
  None = None
  MaxMem = 3
  MaxVersion = 2
  MaxReceipts = 1
  MaxDepth = 2
  Ops = {"create", "update", "delete", "agent_delete", "erase"}
  Notes = {n1, n2}
  NoNote = NoNote
  Spellings = {1, 2, 3}
  Builders = {b1, b2}
  MaxSent = 2
  MaxBuildRetries = 1
  MaxPatches = 1
CHECK_DEADLOCK FALSE
SYMMETRY StoreSymmetric
INVARIANTS
  TypeOK
  SameOwnerTree
  ReceiptStaysTrue
  SearchFindsCascade
  VerifiedAbsenceLasts
  NothingCountedTwice
PROPERTIES
  LifecycleSpec
